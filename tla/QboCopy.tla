------------------------------- MODULE QboCopy -------------------------------
(***************************************************************************)
(* The copy of one connected QuickBooks company: what backfill_page,       *)
(* cdc_poll and normalize (backend/app/integrations/qbo/tasks.py) read,    *)
(* store through store_raw/store_delete (ingest/raw.py) and apply.  When   *)
(* they are queued is QboChain's subject: here a poll may always be        *)
(* queued, a task whose worker died is taken again.                        *)
(*                                                                         *)
(* now   : the clock                                                       *)
(* src   : QuickBooks: per record its version (0: does not exist yet),     *)
(*         whether it is deleted, and its LastUpdatedTime                  *)
(* raw   : the latest raw_record version: its number n (0: none), the      *)
(*         source version its payload holds, the deleted flag              *)
(* canon : what the normalized row shows                                   *)
(* bf    : the latest backfill run: outcome, its number, watermark,        *)
(*         entities done; the cursor of the latest one that succeeded      *)
(* cdc   : changed_since of the latest successful poll, or NoCursor        *)
(* queue : the open tasks                                                  *)
(* wk    : per worker its step, task, and what its task has read           *)
(* lost  : deletes no poll will ask for: left out of an overflowing CDC    *)
(*         answer, or before the cursor of a second backfill that finished *)
(*         while no poll had succeeded                                     *)
(***************************************************************************)
EXTENDS Integers, FiniteSets

CONSTANTS Recs,         \* records: pairs of an entity and an Id
          Workers,
          PageSize,     \* fetch.PAGE_SIZE
          CdcCap,       \* fetch.CDC_MAX_OBJECTS
          Overlap,      \* BACKFILL_OVERLAP
          Lag,          \* how late QuickBooks shows a change, clock difference included
          MaxVersion, MaxClock, MaxRuns, MaxFaults

ASSUME LagAssumption == Lag \in Nat /\ Overlap \in Nat /\ Lag <= Overlap
ASSUME SizeAssumption == PageSize \in Nat \ {0} /\ CdcCap \in Nat \ {0}
ASSUME BoundsAssumption ==
  /\ MaxClock >= Overlap
  /\ MaxVersion \in Nat \ {0} /\ MaxClock \in Nat /\ MaxRuns \in Nat /\ MaxFaults \in Nat

\* A QuickBooks Id is a positive number, and a company has finitely many records.
ASSUME RecsAssumption ==
  IsFiniteSet(Recs) /\ \A r \in Recs : r = <<r[1], r[2]>> /\ r[2] \in Nat \ {0}

VARIABLES now, src, raw, canon, bf, cdc, queue, wk, lost, faults

vars == <<now, src, raw, canon, bf, cdc, queue, wk, lost, faults>>
copy == <<raw, canon, bf, cdc, lost>>

Entities == {r[1] : r \in Recs}
Ids == {0} \cup {r[2] : r \in Recs}
NoCursor == -1
NoRow == [ver |-> 0, deleted |-> FALSE]
NoRaw == [n |-> 0, ver |-> 0, deleted |-> FALSE]
NoTask == <<"none">>
Idle == [pc |-> "idle", task |-> NoTask, start |-> 0, since |-> NoCursor, last |-> 0,
         rows |-> [r \in Recs |-> NoRow], cur |-> [r \in Recs |-> NoRaw], done |-> {}]

\* The task function has returned; complete follows.
Finished(k) == [Idle EXCEPT !.pc = "done", !.task = k.task]

Kind(t) == t[1]
Poll == <<"poll">>

Init ==
  /\ now = Overlap
  /\ src \in [Recs -> {[ver |-> v, deleted |-> FALSE, upd |-> 0] : v \in {0, 1}}]
  /\ raw = [r \in Recs |-> NoRaw]
  /\ canon = [r \in Recs |-> NoRow]
  /\ bf = [outcome |-> "none", runs |-> 0, since |-> 0, done |-> {}, cursor |-> NoCursor]
  /\ cdc = NoCursor
  /\ queue = {}
  /\ wk = [w \in Workers |-> Idle]
  /\ lost = {}
  /\ faults = 0

Live(r) == src[r].ver > 0 /\ ~src[r].deleted

resume_cursor == IF cdc # NoCursor THEN cdc ELSE bf.cursor

-----------------------------------------------------------------------------
(* QuickBooks and the clock. *)

\* A change becomes visible now; it may carry an update time up to Lag back.
Change(r, gone) ==
  /\ src[r].ver < MaxVersion
  /\ ~src[r].deleted
  /\ gone => src[r].ver > 0
  /\ \E u \in (now - Lag)..now :
       src' = [src EXCEPT ![r] = [ver |-> @.ver + 1, deleted |-> gone, upd |-> u]]
  /\ UNCHANGED <<now, copy, queue, wk, faults>>

Tick ==
  /\ now < MaxClock
  /\ now' = now + 1
  /\ UNCHANGED <<src, copy, queue, wk, faults>>

-----------------------------------------------------------------------------
(* What is queued. *)

\* start_backfill takes the watermark before the first page, less the overlap.
Watermark == now - Overlap

\* start_backfill, on the first connection or on request.
StartBackfill ==
  /\ bf.outcome # "open"
  /\ bf.runs < MaxRuns
  /\ bf' = [bf EXCEPT !.outcome = "open", !.runs = @ + 1, !.since = Watermark, !.done = {}]
  /\ queue' = queue \cup {<<"page", bf.runs + 1, e, 0>> : e \in Entities}
  /\ UNCHANGED <<now, src, raw, canon, cdc, wk, lost, faults>>

\* A scheduled poll, "Sync now" or a webhook.
QueuePoll ==
  /\ resume_cursor # NoCursor
  /\ queue' = queue \cup {Poll}
  /\ UNCHANGED <<now, src, copy, wk, faults>>

\* claim_one: an open task no live worker holds.
Claim(w, t) ==
  /\ wk[w].pc = "idle"
  /\ t \in queue
  /\ \A v \in Workers : wk[v].task # t
  /\ wk' = [wk EXCEPT ![w] = [Idle EXCEPT !.pc = "claimed", !.task = t]]
  /\ UNCHANGED <<now, src, copy, queue, faults>>

-----------------------------------------------------------------------------
(* Reading QuickBooks. *)

\* page_after: the records above the Id, ORDERBY Id MAXRESULTS PageSize; last is the
\* Id to go on after, or 0 when the page is not full.
Above(e, after) == {r \in Recs : r[1] = e /\ r[2] > after /\ Live(r)}
FirstOf(S) == {r \in S : Cardinality({q \in S : q[2] < r[2]}) < PageSize}
LastId(S) == IF Cardinality(S) < PageSize THEN 0
             ELSE CHOOSE n \in {r[2] : r \in S} : \A r \in S : r[2] <= n

Answer(S) == [r \in Recs |-> IF r \in S THEN [ver |-> src[r].ver, deleted |-> src[r].deleted]
                             ELSE NoRow]

RunOpen(t) == bf.outcome = "open" /\ bf.runs = t[2]

\* backfill_page's first transaction and its request.
PageFetch(w) ==
  LET t == wk[w].task
      page == FirstOf(Above(t[3], t[4]))
  IN /\ wk[w].pc = "claimed" /\ Kind(t) = "page"
     /\ RunOpen(t)
     /\ wk' = [wk EXCEPT ![w].pc = "fetched", ![w].rows = Answer(page),
                         ![w].last = LastId(page)]
     /\ UNCHANGED <<now, src, copy, queue, faults>>

\* The run was finished elsewhere: nothing to do.
PageReturns(w) ==
  LET t == wk[w].task
  IN /\ wk[w].pc = "claimed" /\ Kind(t) = "page"
     /\ ~RunOpen(t)
     /\ wk' = [wk EXCEPT ![w] = Finished(@)]
     /\ UNCHANGED <<now, src, copy, queue, faults>>

\* cdc_poll's first transaction: now, then the cursor.
PollBegin(w) ==
  /\ wk[w].pc = "claimed" /\ wk[w].task = Poll
  /\ wk' = [wk EXCEPT ![w].pc = "reading", ![w].start = now, ![w].since = resume_cursor]
  /\ UNCHANGED <<now, src, copy, queue, faults>>

Changed(since) == {r \in Recs : src[r].ver > 0 /\ src[r].upd >= since}

\* fetch.cdc: everything changed since, deletes as stubs; at the cap the answer is cut
\* and changed_after fetches the changed records again, without the deletes.
PollFetch(w) ==
  LET all == Changed(wk[w].since)
      gone == {r \in all : src[r].deleted}
  IN /\ wk[w].pc = "reading"
     /\ \E seen \in SUBSET gone :
          /\ Cardinality(all) < CdcCap => seen = gone
          /\ Cardinality(all) >= CdcCap => Cardinality(seen) <= CdcCap
          /\ wk' = [wk EXCEPT ![w].pc = "fetched", ![w].since = NoCursor,
                              ![w].rows = Answer((all \ gone) \cup seen)]
          /\ lost' = lost \cup (gone \ seen)
     /\ UNCHANGED <<now, src, raw, canon, bf, cdc, queue, faults>>

-----------------------------------------------------------------------------
(* Storing. *)

\* The last transaction of a page or a poll reads the latest raw versions and, for a
\* page, the run's detail.
LoadStore(w) ==
  /\ wk[w].pc = "fetched"
  /\ Kind(wk[w].task) = "page" => RunOpen(wk[w].task)
  /\ wk' = [wk EXCEPT ![w].pc = "loaded", ![w].cur = raw, ![w].done = bf.done]
  /\ UNCHANGED <<now, src, copy, queue, faults>>

\* The run was finished while the page was being read.
PageLate(w) ==
  /\ wk[w].pc = "fetched" /\ Kind(wk[w].task) = "page"
  /\ ~RunOpen(wk[w].task)
  /\ wk' = [wk EXCEPT ![w] = Finished(@)]
  /\ UNCHANGED <<now, src, copy, queue, faults>>

\* store_raw and store_delete: nothing when the latest version says the same; a delete
\* carries the last known payload.
Same(cur, row) ==
  /\ cur.n > 0
  /\ cur.deleted = row.deleted
  /\ row.deleted \/ cur.ver = row.ver

Stored(cur, row) ==
  IF row = NoRow \/ Same(cur, row) THEN cur
  ELSE [n |-> cur.n + 1, deleted |-> row.deleted,
        ver |-> IF row.deleted THEN cur.ver ELSE row.ver]

News(w) == {r \in Recs : Stored(wk[w].cur[r], wk[w].rows[r]) # wk[w].cur[r]}

\* Faulty: no unique constraint on the version.
InsertableAlways(w) == TRUE

\* uq_raw_record_key_version: two transactions cannot both insert a version.
Insertable(w) == \A r \in News(w) : raw[r].n = wk[w].cur[r].n

RawAfter(w) == [r \in Recs |-> IF r \in News(w) THEN Stored(wk[w].cur[r], wk[w].rows[r])
                               ELSE raw[r]]

\* The unique constraint refuses the insert: rolled back, the task is taken again.
StoreRefused(w) ==
  /\ wk[w].pc = "loaded" /\ Kind(wk[w].task) # "norm"
  /\ ~Insertable(w)
  /\ wk' = [wk EXCEPT ![w] = Idle]
  /\ UNCHANGED <<now, src, copy, queue, faults>>

\* Faulty: the versions stored are not handed to the normalizer.
NormalizeNone(w) == {}

\* _enqueue_normalize: the ids of the versions just stored.
NormalizeTasks(w) == {<<"norm", r, RawAfter(w)[r].n>> : r \in News(w)}

\* run.detail["entities"], written from what this transaction loaded.
DoneAfter(w) ==
  IF wk[w].last = 0 THEN wk[w].done \cup {wk[w].task[3]} ELSE wk[w].done

NextPage(w) ==
  LET t == wk[w].task
  IN IF wk[w].last = 0 THEN {} ELSE {<<"page", t[2], t[3], wk[w].last>>}

\* A backfill reports no deletes: what the copy still shows and QuickBooks deleted
\* before this run began is asked for by no poll when only backfills have succeeded.
Unasked == IF cdc = NoCursor /\ bf.cursor # NoCursor
           THEN {r \in Recs : src[r].deleted /\ src[r].upd < bf.since /\ raw[r].n > 0 /\ ~raw[r].deleted}
           ELSE {}

\* all(e.get("done")): the page that finishes the last entity finishes the run.
Finishes(w) == bf.runs = wk[w].task[2] /\ DoneAfter(w) = Entities

PageCommit(w) ==
  LET t == wk[w].task
  IN /\ wk[w].pc = "loaded" /\ Kind(t) = "page"
     /\ Insertable(w)
     /\ raw' = RawAfter(w)
     /\ queue' = queue \cup NormalizeTasks(w) \cup NextPage(w)
     /\ bf' = IF Finishes(w)
              THEN [bf EXCEPT !.done = Entities, !.outcome = "succeeded", !.cursor = bf.since]
              ELSE IF bf.runs = t[2] THEN [bf EXCEPT !.done = DoneAfter(w)] ELSE bf
     /\ lost' = IF Finishes(w) THEN lost \cup Unasked ELSE lost
     /\ wk' = [wk EXCEPT ![w] = Finished(@)]
     /\ UNCHANGED <<now, src, canon, cdc, faults>>

\* Faulty: the cursor of a poll without the overlap.
CursorAtStart(start) == start

\* The next poll resumes from this poll's own start, less the overlap.
Cursor(start) == start - Overlap

PollCommit(w) ==
  /\ wk[w].pc = "loaded" /\ wk[w].task = Poll
  /\ Insertable(w)
  /\ raw' = RawAfter(w)
  /\ queue' = queue \cup NormalizeTasks(w)
  /\ cdc' = Cursor(wk[w].start)
  /\ wk' = [wk EXCEPT ![w] = Finished(@)]
  /\ UNCHANGED <<now, src, canon, bf, lost, faults>>

-----------------------------------------------------------------------------
(* Normalizing. *)

\* A version that is no longer the latest is skipped: its successor has its own task.
NormalizeSkip(w) ==
  LET t == wk[w].task
  IN /\ wk[w].pc = "claimed" /\ Kind(t) = "norm"
     /\ raw[t[2]].n # t[3]
     /\ wk' = [wk EXCEPT ![w] = Finished(@)]
     /\ UNCHANGED <<now, src, copy, queue, faults>>

NormalizeLoad(w) ==
  LET t == wk[w].task
  IN /\ wk[w].pc = "claimed" /\ Kind(t) = "norm"
     /\ raw[t[2]].n = t[3]
     /\ wk' = [wk EXCEPT ![w].pc = "loaded", ![w].cur = raw]
     /\ UNCHANGED <<now, src, copy, queue, faults>>

\* apply_raw: a live payload is written over the row; a delete marks the row it finds.
Applied(row, r) ==
  IF ~r.deleted THEN [ver |-> r.ver, deleted |-> FALSE]
  ELSE IF row = NoRow THEN NoRow ELSE [row EXCEPT !.deleted = TRUE]

NormalizeCommit(w) ==
  LET r == wk[w].task[2]
  IN /\ wk[w].pc = "loaded" /\ Kind(wk[w].task) = "norm"
     /\ canon' = [canon EXCEPT ![r] = Applied(@, wk[w].cur[r])]
     /\ wk' = [wk EXCEPT ![w] = Finished(@)]
     /\ UNCHANGED <<now, src, raw, bf, cdc, queue, lost, faults>>

-----------------------------------------------------------------------------
Complete(w) ==
  /\ wk[w].pc = "done"
  /\ queue' = queue \ {wk[w].task}
  /\ wk' = [wk EXCEPT ![w] = Idle]
  /\ UNCHANGED <<now, src, copy, faults>>

\* An error or a crash rolls the open transaction back; the task is taken again.
Fail(w) ==
  /\ wk[w].pc # "idle"
  /\ faults < MaxFaults
  /\ faults' = faults + 1
  /\ wk' = [wk EXCEPT ![w] = Idle]
  /\ UNCHANGED <<now, src, copy, queue>>

Step(w) ==
  \/ PageFetch(w) \/ PageReturns(w) \/ PollBegin(w) \/ PollFetch(w)
  \/ LoadStore(w) \/ PageLate(w) \/ PageCommit(w) \/ PollCommit(w) \/ StoreRefused(w)
  \/ NormalizeSkip(w) \/ NormalizeLoad(w) \/ NormalizeCommit(w) \/ Complete(w)

Next ==
  \/ \E r \in Recs, gone \in BOOLEAN : Change(r, gone)
  \/ Tick \/ StartBackfill \/ QueuePoll
  \/ \E w \in Workers : Step(w) \/ Fail(w) \/ \E t \in queue : Claim(w, t)

Spec == Init /\ [][Next]_vars

\* The worker goes on, polls keep being queued; claim_one takes the task that is due
\* longest, so neither polls nor the other tasks wait behind one another for ever.
Fairness ==
  /\ WF_vars(QueuePoll)
  /\ \A w \in Workers : WF_vars(Step(w))
  /\ SF_vars(\E w \in Workers : Claim(w, Poll))
  /\ SF_vars(\E w \in Workers, t \in queue \ {Poll} : Claim(w, t))

FairSpec == Spec /\ Fairness

-----------------------------------------------------------------------------
(* Properties. *)

Pages == {"page"} \X (1..MaxRuns) \X Entities \X Ids
Norms == {"norm"} \X Recs \X (Nat \ {0})
Tasks == {Poll} \cup Pages \cup Norms

Row == [ver : 0..MaxVersion, deleted : BOOLEAN]
RawRow == [n : Nat, ver : 0..MaxVersion, deleted : BOOLEAN]
Work == [pc : {"idle", "claimed", "reading", "fetched", "loaded", "done"}, task : Tasks \cup {NoTask},
         start : Nat, since : Nat \cup {NoCursor}, last : Ids,
         rows : [Recs -> Row], cur : [Recs -> RawRow], done : SUBSET Entities]

\* Shapes; and a task in a worker's hands is an open one.
TypeOK ==
  /\ now \in Overlap..MaxClock
  /\ src \in [Recs -> [ver : 0..MaxVersion, deleted : BOOLEAN, upd : Nat]]
  /\ raw \in [Recs -> RawRow]
  /\ canon \in [Recs -> Row]
  /\ bf \in [outcome : {"none", "open", "succeeded"}, runs : 0..MaxRuns, since : Nat,
             done : SUBSET Entities, cursor : Nat \cup {NoCursor}]
  /\ cdc \in Nat \cup {NoCursor}
  /\ queue \subseteq Tasks
  /\ wk \in [Workers -> Work] /\ \A w \in Workers : wk[w].task \in queue \cup {NoTask}
  /\ lost \subseteq Recs
  /\ faults \in 0..MaxFaults

\* The raw copy says of a record what QuickBooks says.
Holds(r) ==
  IF Live(r) THEN raw[r].n > 0 /\ ~raw[r].deleted /\ raw[r].ver = src[r].ver
             ELSE raw[r].n = 0 \/ raw[r].deleted

\* "anything changed during the backfill is picked up by the first poll", and by every
\* later one: what the copy does not hold of QuickBooks' records lies after the cursor
\* the next poll starts from.
NothingMissed ==
  resume_cursor # NoCursor =>
    \A r \in Recs : Live(r) => Holds(r) \/ src[r].upd >= resume_cursor

\* docs/OPERATIONS.md: "A delete arrives as a stub and becomes a new raw version flagged
\* deleted": a deleted record the copy still shows lies after that cursor too, unless
\* an overflowing answer left its stub out or two backfills finished before the first
\* poll (which the nightly count reports).
DeletesArrive ==
  resume_cursor # NoCursor =>
    \A r \in Recs \ lost : ~Live(r) => Holds(r) \/ src[r].upd >= resume_cursor

\* domain/billing/sync.py, apply_raw: "an older version is ignored so a late task can
\* never overwrite a newer one": a row shows the latest raw version, or that version's
\* own task is still open.
CanonFollows ==
  \A r \in Recs :
    \/ <<"norm", r, raw[r].n>> \in queue
    \/ raw[r].n = 0 /\ canon[r] = NoRow
    \/ raw[r].n > 0 /\ canon[r] = Applied(canon[r], raw[r])

\* docs/OPERATIONS.md, of the worker: "Run one or more; they share the queue safely": an
\* open run has, for every entity that is not done, a page queued or running, so
\* it can end.
BackfillProgresses ==
  bf.outcome = "open" =>
    \A e \in Entities \ bf.done : \E t \in queue : Kind(t) = "page" /\ t[2] = bf.runs /\ t[3] = e

\* What the copy guarantees while it is behind: no change and no delete lies before the
\* next poll's cursor, no raw version waits without its task, no backfill without a page.
CopyHolds ==
  TypeOK /\ NothingMissed /\ DeletesArrive /\ CanonFollows /\ BackfillProgresses

\* ingest/raw.py: "a change is a new version. Prior versions are never touched".
RawAppends == [][\A r \in Recs : raw'[r] # raw[r] => raw'[r].n = raw[r].n + 1]_vars

Shows(r) == IF Live(r) THEN canon[r] = [ver |-> src[r].ver, deleted |-> FALSE]
                       ELSE canon[r] = NoRow \/ canon[r].deleted

\* Once QuickBooks stops changing, the normalized rows come to show it: through the
\* backfill, polls, retries and tasks for versions that were overtaken.
EventuallyCopied ==
  <>[](bf.runs > 0 => \A r \in Recs \ lost : Shows(r))
===============================================================================
