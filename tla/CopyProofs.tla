------------------------------ MODULE CopyProofs ------------------------------
(***************************************************************************)
(* Theorems about QboCopy for any records, page size, cap, overlap and     *)
(* number of runs: raw versions are appended whatever the workers do, and  *)
(* what the copy promises while it is behind holds for one worker.  And    *)
(* about CostLedger for any documents, accounts, links and policies: the   *)
(* lines follow what was copied, and the figures are one another's sums.   *)
(***************************************************************************)
EXTENDS QboCopy, CostLedger, SumTheorems, SequenceTheorems

\* As deployed: deploy/systemd/wip-worker.service starts one instance.
OneWorker == \A v, w \in Workers : v = w

Current(r) == [ver |-> src[r].ver, deleted |-> src[r].deleted]

OnPoll(w) == wk[w].pc \in {"fetched", "loaded"} /\ wk[w].task = Poll
OnPage(w) == wk[w].pc \in {"fetched", "loaded"} /\ Kind(wk[w].task) = "page"

\* A page of the open run.
PageOf(t, e) == Kind(t) = "page" /\ t[2] = bf.runs /\ t[3] = e

-----------------------------------------------------------------------------
(* What holds of any number of workers.                                      *)

\* A record that does not exist yet is not deleted and not copied.
SrcInv ==
  \A r \in Recs :
    /\ src[r].ver = 0 => /\ ~src[r].deleted /\ raw[r].n = 0
                         /\ \A w \in Workers : OnPoll(w) \/ OnPage(w) => wk[w].rows[r] = NoRow
    /\ r \in lost => src[r].deleted

\* Every cursor lies behind the clock by the overlap.
TimeInv ==
  /\ cdc <= now - Overlap /\ bf.cursor <= now - Overlap /\ bf.since <= now - Overlap
  /\ \A w \in Workers : wk[w].task = Poll /\ wk[w].pc \in {"reading", "fetched", "loaded"} =>
       Overlap <= wk[w].start /\ wk[w].start <= now

\* Pages are pages of runs that were started, polls are queued once there is a cursor.
TaskInv ==
  /\ \A t \in queue : Kind(t) = "page" => t[2] <= bf.runs
  /\ Poll \in queue => resume_cursor # NoCursor
  /\ bf.outcome = "none" => /\ queue = {} /\ resume_cursor = NoCursor /\ bf.runs = 0
                            /\ \A r \in Recs : raw[r].n = 0
  /\ bf.outcome = "succeeded" => bf.cursor # NoCursor

WorkInv ==
  /\ \A w \in Workers :
       /\ wk[w].pc = "idle" <=> wk[w].task = NoTask
       /\ wk[w].pc = "reading" => wk[w].task = Poll
       /\ wk[w].pc = "fetched" => Kind(wk[w].task) # "norm"
  /\ \A v, w \in Workers : wk[v].task = wk[w].task /\ wk[w].task # NoTask => v = w

BaseInv == TypeOK /\ SrcInv /\ TimeInv /\ TaskInv /\ WorkInv

-----------------------------------------------------------------------------
(* What holds of one.                                                        *)

\* Nothing changes under the one worker's hands.
LoadOf(w) ==
  /\ wk[w].pc = "loaded" => wk[w].cur = raw
  /\ wk[w].pc = "loaded" /\ Kind(wk[w].task) = "page" => wk[w].done = bf.done
  /\ wk[w].pc = "loaded" /\ Kind(wk[w].task) = "norm" => raw[wk[w].task[2]].n = wk[w].task[3]
  /\ OnPage(w) => RunOpen(wk[w].task) /\ (wk[w].last # 0 => wk[w].last > wk[w].task[4])
  /\ wk[w].pc = "reading" => wk[w].since = resume_cursor
  /\ wk[w].pc = "reading" \/ OnPoll(w) => resume_cursor <= wk[w].start - Overlap

\* The open run has been over this record: its entity is done, or a later page is open.
Covered(r) ==
  /\ bf.outcome = "open"
  /\ r[1] \in bf.done \/ \E t \in queue : PageOf(t, r[1]) /\ r[2] <= t[4]

\* The record changed after the worker read it: late enough for every cursor that
\* could be set before it is read again.
Late(w, r) ==
  /\ src[r].upd >= resume_cursor
  /\ OnPoll(w) => src[r].upd >= wk[w].start - Overlap /\ (Covered(r) => src[r].upd >= bf.since)
  /\ OnPage(w) => src[r].upd >= bf.since

\* The records a page asks for: those after the Id it was given, up to its last one.
InPage(w, r) ==
  /\ r[1] = wk[w].task[3] /\ r[2] > wk[w].task[4]
  /\ wk[w].last = 0 \/ r[2] <= wk[w].last

\* What was read is what QuickBooks says, or changed since; what was not read need
\* not have been.
HandRows(w) ==
  \A r \in Recs :
    /\ (OnPoll(w) \/ OnPage(w)) /\ wk[w].rows[r] # NoRow => wk[w].rows[r] = Current(r) \/ Late(w, r)
    /\ OnPoll(w) /\ wk[w].rows[r] = NoRow =>
         r \in lost \/ Holds(r) \/ src[r].upd >= wk[w].start - Overlap
    /\ OnPage(w) /\ wk[w].rows[r] = NoRow /\ Live(r) /\ InPage(w, r) => src[r].upd >= bf.since

\* What the copy does not hold lies after the next poll's cursor, and of the records
\* the open run has been over after that run's watermark; a first backfill starts
\* from an empty copy.
MissInv ==
  \A r \in Recs :
    /\ r \in lost \/ Holds(r) \/ src[r].upd >= resume_cursor
    /\ Covered(r) /\ Live(r) => Holds(r) \/ src[r].upd >= bf.since
    /\ bf.outcome = "open" /\ resume_cursor = NoCursor =>
         Holds(r) \/ Live(r) \/ src[r].upd >= bf.since

\* The task the worker has done can be removed.
DoneOf(w) ==
  wk[w].pc = "done" =>
    LET t == wk[w].task IN
    /\ Kind(t) = "norm" => raw[t[2]].n # t[3] \/ canon[t[2]] = Applied(canon[t[2]], raw[t[2]])
    /\ bf.outcome = "open" /\ Kind(t) = "page" /\ t[2] = bf.runs /\ t[3] \notin bf.done =>
         \E u \in queue : u # t /\ PageOf(u, t[3])

WorkerInv == \A w \in Workers : LoadOf(w) /\ HandRows(w) /\ DoneOf(w)

LoneInv == WorkerInv /\ MissInv /\ CanonFollows /\ BackfillProgresses

IInv == BaseInv /\ (OneWorker => LoneInv)

-----------------------------------------------------------------------------
(* What a page is.                                                           *)

LEMMA LeastOf ==
  ASSUME NEW S, S \subseteq Nat, S # {}
  PROVE  \E x \in S : \A y \in S : x <= y
<1>1. PICK x \in S : \A y \in S : ~(<<y, x>> \in OpToRel(<, Nat))
  BY NatLessThanWellFounded, WFMin
<1>2. \A y \in S : x \in Nat /\ y \in Nat
  OBVIOUS
<1>3. \A y \in S : ~(y < x)
  BY <1>1, <1>2, Zenon DEF OpToRel
<1> QED BY <1>2, <1>3

\* The records of S with a smaller Id.
Before(S, r) == {q \in S : q[2] < r[2]}

LEMMA BeforeCounts ==
  ASSUME NEW S, S \subseteq Recs, NEW r \in Recs
  PROVE  /\ IsFiniteSet(S) /\ IsFiniteSet(Before(S, r)) /\ Cardinality(Before(S, r)) \in Nat
         /\ \A q \in Recs : q[2] <= r[2] => Cardinality(Before(S, q)) <= Cardinality(Before(S, r))
         /\ \A q \in S : q[2] < r[2] => Cardinality(Before(S, q)) < Cardinality(Before(S, r))
<1>1. IsFiniteSet(S)
  BY RecsAssumption, FS_Subset
<1>2. \A q : Before(S, q) \in SUBSET S
  BY DEF Before
<1>3. \A q : IsFiniteSet(Before(S, q)) /\ Cardinality(Before(S, q)) \in Nat
  BY <1>1, <1>2, FS_Subset, FS_CardinalityType
<1>4. ASSUME NEW q \in Recs, q[2] <= r[2] PROVE Cardinality(Before(S, q)) <= Cardinality(Before(S, r))
  <2>1. q[2] \in Nat /\ r[2] \in Nat /\ \A p \in S : p[2] \in Nat
    BY RecsAssumption
  <2>2. Before(S, q) \in SUBSET Before(S, r)
    BY <1>4, <2>1 DEF Before
  <2> QED BY <1>3, <2>2, FS_Subset
<1>5. ASSUME NEW q \in S, q[2] < r[2] PROVE Cardinality(Before(S, q)) < Cardinality(Before(S, r))
  <2>1. q[2] \in Nat /\ r[2] \in Nat /\ \A p \in S : p[2] \in Nat
    BY RecsAssumption
  <2>2. Before(S, q) \in SUBSET Before(S, r) /\ q \in Before(S, r) /\ q \notin Before(S, q)
    BY <1>5, <2>1 DEF Before
  <2>3. /\ Cardinality(Before(S, q)) <= Cardinality(Before(S, r))
        /\ Cardinality(Before(S, q)) # Cardinality(Before(S, r))
    BY <1>3, <2>2, FS_Subset
  <2> QED BY <1>3, <2>3
<1> QED BY <1>1, <1>3, <1>4, <1>5

\* A page that is not full is the whole of what was asked for.
LEMMA ShortPage ==
  ASSUME NEW S, S \subseteq Recs, Cardinality(FirstOf(S)) < PageSize
  PROVE  FirstOf(S) = S
<1> DEFINE P == FirstOf(S)
<1>1. P \subseteq S /\ \A r \in S : r \in P <=> Cardinality(Before(S, r)) < PageSize
  BY DEF FirstOf, Before
<1>2. SUFFICES ASSUME S \ P # {} PROVE FALSE
  BY <1>1
<1> DEFINE ids == {r[2] : r \in S \ P}
<1>3. ids \subseteq Nat /\ ids # {}
  BY <1>2, RecsAssumption
<1> HIDE DEF ids
<1>4. PICK n \in ids : \A k \in ids : n <= k
  BY <1>3, LeastOf
<1>5. PICK m \in S \ P : m[2] = n
  BY <1>4 DEF ids
<1>6. \A q \in S \ P : ~(q[2] < m[2])
  <2> SUFFICES ASSUME NEW q \in S \ P PROVE ~(q[2] < m[2])
    OBVIOUS
  <2>1. m[2] <= q[2] /\ q[2] \in Nat /\ m[2] \in Nat
    BY <1>3, <1>4, <1>5 DEF ids
  <2> QED BY <2>1
<1>7. Before(S, m) \in SUBSET P
  BY <1>6 DEF Before
<1>8. IsFiniteSet(P) /\ Cardinality(P) \in Nat
  BY <1>1, RecsAssumption, FS_Subset, FS_CardinalityType
<1>9. Cardinality(Before(S, m)) <= Cardinality(P)
  BY <1>7, <1>8, FS_Subset
<1>10. m \in Recs /\ m \in S /\ m \notin P
  BY <1>5
<1>11. Cardinality(Before(S, m)) \in Nat /\ ~(Cardinality(Before(S, m)) < PageSize)
  BY <1>1, <1>10, BeforeCounts
<1> HIDE DEF P
<1> QED BY <1>8, <1>9, <1>11, SizeAssumption DEF P

\* The Id to go on after is that of the last record of a full page.
LEMMA LastOfPage ==
  ASSUME NEW S, S \subseteq Recs
  PROVE  /\ LastId(FirstOf(S)) = 0 => FirstOf(S) = S
         /\ LastId(FirstOf(S)) # 0 =>
              /\ \E r \in FirstOf(S) : r[2] = LastId(FirstOf(S))
              /\ \A q \in S : q[2] <= LastId(FirstOf(S)) => q \in FirstOf(S)
<1> DEFINE P == FirstOf(S)
<1>1. P \subseteq S /\ \A r \in S : r \in P <=> Cardinality(Before(S, r)) < PageSize
  BY DEF FirstOf, Before
<1>2. CASE Cardinality(P) < PageSize
  BY <1>2, ShortPage DEF LastId
<1>3. CASE ~(Cardinality(P) < PageSize)
  <2>1. P # {}
    BY <1>3, FS_EmptySet, SizeAssumption
  <2> DEFINE rest == {PageSize - Cardinality(Before(S, r)) : r \in P}
  <2>2. \A r \in P : Cardinality(Before(S, r)) \in Nat /\ Cardinality(Before(S, r)) < PageSize
    BY <1>1, BeforeCounts
  <2>3. rest \subseteq Nat /\ rest # {}
    BY <2>1, <2>2, SizeAssumption
  <2> HIDE DEF rest
  <2>4. PICK k \in rest : \A j \in rest : k <= j
    BY <2>3, LeastOf
  <2>5. PICK l \in P : k = PageSize - Cardinality(Before(S, l))
    BY <2>4 DEF rest
  <2>6. \A r \in P : Cardinality(Before(S, r)) <= Cardinality(Before(S, l))
    <3> SUFFICES ASSUME NEW r \in P PROVE Cardinality(Before(S, r)) <= Cardinality(Before(S, l))
      OBVIOUS
    <3>1. k <= PageSize - Cardinality(Before(S, r))
      BY <2>4 DEF rest
    <3> QED BY <2>2, <2>5, <3>1, SizeAssumption
  <2>7. \A r \in P : r[2] <= l[2]
    <3> SUFFICES ASSUME NEW r \in P, ~(r[2] <= l[2]) PROVE FALSE
      OBVIOUS
    <3>1. r \in Recs /\ l \in S /\ r[2] \in Nat /\ l[2] \in Nat
      BY <1>1, RecsAssumption
    <3>2. l[2] < r[2]
      BY <3>1
    <3>3. Cardinality(Before(S, l)) < Cardinality(Before(S, r))
      BY <3>1, <3>2, BeforeCounts
    <3> QED BY <2>2, <2>6, <3>3
  <2> DEFINE last == LastId(P)
  <2>8. last \in {r[2] : r \in P} /\ \A r \in P : r[2] <= last
    <3>1. l[2] \in {r[2] : r \in P} /\ \A r \in P : r[2] <= l[2]
      BY <2>7
    <3> HIDE DEF P
    <3> QED BY <1>3, <3>1 DEF LastId
  <2> HIDE DEF last
  <2>9. PICK p \in P : p[2] = last
    BY <2>8
  <2>10. \A q \in S : q[2] <= last => q \in P
    <3> SUFFICES ASSUME NEW q \in S, q[2] <= last PROVE q \in P
      OBVIOUS
    <3>1. p \in Recs /\ q \in Recs /\ q[2] <= p[2]
      BY <1>1, <2>9
    <3>2. /\ Cardinality(Before(S, q)) <= Cardinality(Before(S, p))
          /\ Cardinality(Before(S, q)) \in Nat /\ Cardinality(Before(S, p)) \in Nat
      BY <3>1, BeforeCounts
    <3> QED BY <1>1, <2>2, <2>9, <3>2, SizeAssumption
  <2>11. last # 0
    BY <1>1, <2>9, RecsAssumption
  <2> QED BY <2>9, <2>10, <2>11 DEF last
<1> QED BY <1>2, <1>3

-----------------------------------------------------------------------------
(* The shapes.                                                               *)

LEMMA TaskFields ==
  ASSUME NEW t \in Tasks
  PROVE  /\ t # NoTask /\ Kind(t) \in {"poll", "page", "norm"} /\ (Kind(t) = "poll" <=> t = Poll)
         /\ Kind(t) = "page" => /\ t \in Pages /\ t = <<"page", t[2], t[3], t[4]>>
                                /\ t[2] \in 1..MaxRuns /\ t[3] \in Entities /\ t[4] \in Ids
         /\ Kind(t) = "norm" => /\ t \in Norms /\ t = <<"norm", t[2], t[3]>>
                                /\ t[2] \in Recs /\ t[3] \in Nat \ {0}
<1>1. CASE t = Poll
  BY <1>1 DEF Poll, Kind, NoTask
<1>2. CASE t \in Pages
  BY <1>2 DEF Poll, Kind, NoTask, Pages
<1>3. CASE t \in Norms
  BY <1>3 DEF Poll, Kind, NoTask, Norms
<1> QED BY <1>1, <1>2, <1>3 DEF Tasks

LEMMA WorkFields ==
  ASSUME TypeOK, NEW w \in Workers
  PROVE  /\ wk[w] \in Work /\ wk[w].pc \in {"idle", "claimed", "reading", "fetched", "loaded", "done"}
         /\ wk[w].task \in Tasks \cup {NoTask} /\ wk[w].task \in queue \cup {NoTask}
         /\ wk[w].start \in Nat /\ wk[w].since \in Nat \cup {NoCursor} /\ wk[w].last \in Ids
         /\ wk[w].rows \in [Recs -> Row] /\ wk[w].cur \in [Recs -> RawRow] /\ wk[w].done \subseteq Entities
  BY DEF TypeOK, Work

LEMMA Numbers ==
  /\ Overlap \in Nat /\ Lag \in Nat /\ Lag <= Overlap /\ NoCursor \in Int /\ NoCursor < 0
  /\ \A r \in Recs : r[2] \in Nat \ {0} /\ r[1] \in Entities /\ r[2] \in Ids
  /\ \A i \in Ids : i \in Nat
  /\ MaxVersion \in Nat /\ MaxClock \in Nat /\ MaxRuns \in Nat /\ MaxFaults \in Nat /\ Overlap <= MaxClock
  BY LagAssumption, BoundsAssumption, RecsAssumption DEF NoCursor, Entities, Ids

LEMMA CopyFields ==
  ASSUME TypeOK
  PROVE  /\ now \in Nat /\ Overlap <= now /\ now <= MaxClock
         /\ \A r \in Recs : /\ src[r].ver \in 0..MaxVersion /\ src[r].deleted \in BOOLEAN /\ src[r].upd \in Nat
                             /\ raw[r] \in RawRow /\ raw[r].n \in Nat /\ raw[r].ver \in 0..MaxVersion
                             /\ raw[r].deleted \in BOOLEAN /\ canon[r] \in Row
         /\ bf.outcome \in {"none", "open", "succeeded"} /\ bf.runs \in 0..MaxRuns /\ bf.since \in Nat
         /\ bf.done \subseteq Entities /\ bf.cursor \in Nat \cup {NoCursor}
         /\ cdc \in Nat \cup {NoCursor} /\ resume_cursor \in Nat \cup {NoCursor} /\ resume_cursor \in Int
  BY Numbers DEF TypeOK, RawRow, resume_cursor

LEMMA RowFields ==
  ASSUME NEW row \in Row
  PROVE  row.ver \in 0..MaxVersion /\ row.deleted \in BOOLEAN
         /\ row = [ver |-> row.ver, deleted |-> row.deleted]
  BY DEF Row

LEMMA NoRows ==
  /\ NoRow \in Row /\ NoRaw \in RawRow /\ NoTask # Poll /\ Kind(NoTask) = "none" /\ Kind(Poll) = "poll"
  /\ [r \in Recs |-> NoRow] \in [Recs -> Row] /\ [r \in Recs |-> NoRaw] \in [Recs -> RawRow] /\ 0 \in Ids
  BY Numbers DEF NoRow, NoRaw, Row, RawRow, NoTask, Poll, Kind, Ids

LEMMA IdleFields ==
  /\ Idle \in Work /\ Idle.pc = "idle" /\ Idle.task = NoTask
  /\ \A k \in Work : /\ Finished(k) \in Work /\ Finished(k).pc = "done" /\ Finished(k).task = k.task
  BY NoRows, Numbers DEF Idle, Finished, Work

\* The steps that only move a worker: what it does next is right.
LEMMA BaseMoves ==
  ASSUME BaseInv, NEW w \in Workers, NEW k \in Work, wk' = [wk EXCEPT ![w] = k],
         UNCHANGED <<now, src, raw, canon, bf, cdc, queue>>, lost' \subseteq Recs,
         faults' \in 0..MaxFaults, \A r \in lost' : src[r].deleted,
         k.task \in queue \cup {NoTask}, k.pc = "idle" <=> k.task = NoTask,
         k.task # NoTask => \A v \in Workers \ {w} : wk[v].task # k.task,
         k.pc = "reading" => k.task = Poll, k.pc = "fetched" => Kind(k.task) # "norm",
         k.pc \in {"reading", "fetched", "loaded"} /\ k.task = Poll => Overlap <= k.start /\ k.start <= now,
         k.pc \in {"fetched", "loaded"} /\ Kind(k.task) \in {"poll", "page"} =>
           \A r \in Recs : src[r].ver = 0 => k.rows[r] = NoRow
  PROVE  BaseInv'
<1>1. wk'[w] = k /\ \A v \in Workers \ {w} : wk'[v] = wk[v]
  BY DEF BaseInv, TypeOK
<1>2. TypeOK'
  <2>1. wk' \in [Workers -> Work] /\ \A v \in Workers : wk'[v].task \in queue \cup {NoTask}
    BY <1>1 DEF BaseInv, TypeOK
  <2> QED BY <2>1 DEF BaseInv, TypeOK
<1>3. SrcInv'
  BY <1>1, NoRows DEF BaseInv, SrcInv, OnPoll, OnPage
<1>4. TimeInv'
  BY <1>1 DEF BaseInv, TimeInv
<1>5. TaskInv'
  BY DEF BaseInv, TaskInv, resume_cursor
<1>6. WorkInv'
  BY <1>1 DEF BaseInv, WorkInv
<1> QED BY <1>2, <1>3, <1>4, <1>5, <1>6 DEF BaseInv

LEMMA AnswerFields ==
  ASSUME TypeOK, NEW S
  PROVE  /\ Answer(S) \in [Recs -> Row]
         /\ \A r \in Recs : Answer(S)[r] = IF r \in S THEN Current(r) ELSE NoRow
<1>1. \A r \in Recs : Current(r) \in Row
  BY CopyFields DEF Current, Row
<1> QED BY <1>1, NoRows DEF Answer, Current

LEMMA PageFetchBase ==
  ASSUME BaseInv, NEW w \in Workers, PageFetch(w)
  PROVE  /\ BaseInv'
         /\ LET page == FirstOf(Above(wk[w].task[3], wk[w].task[4])) IN
            /\ wk'[w].pc = "fetched" /\ wk'[w].task = wk[w].task
            /\ wk'[w].rows = Answer(page) /\ wk'[w].last = LastId(page)
<1> DEFINE page == FirstOf(Above(wk[w].task[3], wk[w].task[4]))
           k == [wk[w] EXCEPT !.pc = "fetched", !.since = wk[w].since, !.rows = Answer(page), !.last = LastId(page)]
<1>1. TypeOK /\ wk[w] \in Work /\ wk[w].task \in queue /\ wk[w].since \in Nat \cup {NoCursor}
  BY WorkFields, NoRows DEF BaseInv, PageFetch
<1>2. Above(wk[w].task[3], wk[w].task[4]) \subseteq Recs /\ page \subseteq Above(wk[w].task[3], wk[w].task[4])
  BY DEF Above, FirstOf
<1>3. LastId(page) \in Ids
  BY <1>2, LastOfPage, Numbers, NoRows
<1>4. Answer(page) \in [Recs -> Row] /\ \A r \in Recs : Answer(page)[r] = IF r \in page THEN Current(r) ELSE NoRow
  BY <1>1, AnswerFields
<1>5. /\ k \in Work /\ k.pc = "fetched" /\ k.task = wk[w].task /\ k.rows = Answer(page) /\ k.last = LastId(page)
  BY <1>1, <1>3, <1>4 DEF Work
<1>6. wk' = [wk EXCEPT ![w] = k]
  BY <1>1 DEF PageFetch, TypeOK, Work
<1>7. \A r \in Recs : src[r].ver = 0 => Answer(page)[r] = NoRow
  <2> SUFFICES ASSUME NEW r \in Recs, src[r].ver = 0 PROVE r \notin page
    BY <1>4
  <2> QED BY <1>2 DEF Above, Live
<1>8. k.task # NoTask /\ Kind(k.task) = "page" /\ k.task # Poll
      /\ \A v \in Workers \ {w} : wk[v].task # k.task
  BY <1>1, <1>5, NoRows DEF BaseInv, WorkInv, PageFetch
<1>9. UNCHANGED <<now, src, raw, canon, bf, cdc, queue, lost, faults>>
  BY DEF PageFetch, copy
<1>10. lost \subseteq Recs /\ faults \in 0..MaxFaults /\ \A r \in lost : src[r].deleted
  BY <1>1 DEF TypeOK, BaseInv, SrcInv
<1> HIDE DEF page, k
<1>11. BaseInv'
  BY <1>1, <1>5, <1>6, <1>7, <1>8, <1>9, <1>10, BaseMoves
<1>12. wk'[w] = k
  BY <1>1, <1>6 DEF TypeOK
<1> QED BY <1>5, <1>11, <1>12 DEF page

LEMMA PollFetchBase ==
  ASSUME BaseInv, NEW w \in Workers, PollFetch(w)
  PROVE  /\ BaseInv' /\ wk'[w].pc = "fetched" /\ wk'[w].task = wk[w].task /\ wk'[w].start = wk[w].start
         /\ \E S \in SUBSET Changed(wk[w].since) :
              /\ wk'[w].rows = Answer(S) /\ lost' = lost \cup (Changed(wk[w].since) \ S)
<1> DEFINE all == Changed(wk[w].since)
           gone == {r \in all : src[r].deleted}
<1>1. PICK seen \in SUBSET gone :
        /\ wk' = [wk EXCEPT ![w].pc = "fetched", ![w].since = NoCursor, ![w].rows = Answer((all \ gone) \cup seen)]
        /\ lost' = lost \cup (gone \ seen)
  BY DEF PollFetch
<1> DEFINE S == (all \ gone) \cup seen
           k == [wk[w] EXCEPT !.pc = "fetched", !.since = NoCursor, !.rows = Answer(S), !.last = wk[w].last]
<1>2. TypeOK /\ wk[w] \in Work /\ wk[w].task \in queue /\ wk[w].task = Poll /\ wk[w].last \in Ids
  BY WorkFields, NoRows DEF BaseInv, WorkInv, PollFetch
<1>3. Answer(S) \in [Recs -> Row] /\ \A r \in Recs : Answer(S)[r] = IF r \in S THEN Current(r) ELSE NoRow
  BY <1>2, AnswerFields
<1>4. k \in Work /\ k.pc = "fetched" /\ k.task = wk[w].task /\ k.start = wk[w].start /\ k.rows = Answer(S)
  <2> DEFINE rows == Answer(S)
  <2> HIDE DEF S
  <2>1. rows \in [Recs -> Row]
    BY <1>3
  <2> HIDE DEF rows
  <2>2. /\ [wk[w] EXCEPT !.pc = "fetched", !.since = NoCursor, !.rows = rows, !.last = wk[w].last] \in Work
        /\ [wk[w] EXCEPT !.pc = "fetched", !.since = NoCursor, !.rows = rows, !.last = wk[w].last].rows = rows
    BY <1>2, <2>1 DEF Work
  <2> QED BY <1>2, <2>1, <2>2 DEF Work, rows
<1>5. wk' = [wk EXCEPT ![w] = k]
  BY <1>1, <1>2 DEF TypeOK, Work
<1>6. S \subseteq all /\ all \subseteq Recs /\ gone \ seen = all \ S
  <2>1. all \subseteq Recs
    BY DEF Changed
  <2> HIDE DEF all
  <2> QED BY <2>1, Zenon
<1>7. \A r \in Recs : src[r].ver = 0 => Answer(S)[r] = NoRow
  <2> SUFFICES ASSUME NEW r \in Recs, src[r].ver = 0 PROVE r \notin S
    BY <1>3
  <2> QED BY <1>6, <1>2, CopyFields DEF Changed
<1>8. k.task # NoTask /\ Kind(k.task) = "poll" /\ \A v \in Workers \ {w} : wk[v].task # k.task
  BY <1>2, <1>4, NoRows DEF BaseInv, WorkInv
<1>9. Overlap <= k.start /\ k.start <= now
  BY <1>2, <1>4 DEF BaseInv, TimeInv, PollFetch
<1>10. UNCHANGED <<now, src, raw, canon, bf, cdc, queue, faults>>
  BY DEF PollFetch
<1>11. lost' \subseteq Recs /\ faults' \in 0..MaxFaults /\ \A r \in lost' : src[r].deleted
  BY <1>1, <1>2, <1>6, <1>10 DEF TypeOK, BaseInv, SrcInv
<1> HIDE DEF S, k, all, gone
<1>12. BaseInv'
  BY <1>2, <1>4, <1>5, <1>7, <1>8, <1>9, <1>10, <1>11, BaseMoves
<1>13. wk'[w] = k
  BY <1>2, <1>5 DEF TypeOK
<1> QED BY <1>1, <1>4, <1>6, <1>12, <1>13 DEF all

LEMMA PollBeginBase ==
  ASSUME BaseInv, NEW w \in Workers, PollBegin(w)
  PROVE  /\ BaseInv' /\ wk'[w].pc = "reading" /\ wk'[w].task = Poll /\ wk'[w].start = now
         /\ wk'[w].since = resume_cursor
<1> DEFINE k == [wk[w] EXCEPT !.pc = "reading", !.start = now, !.since = resume_cursor]
<1>1. TypeOK /\ wk[w] \in Work /\ wk[w].task \in queue /\ wk[w].task = Poll
  BY WorkFields, NoRows DEF BaseInv, PollBegin
<1>2. resume_cursor \in Nat \cup {NoCursor} /\ now \in Nat /\ Overlap <= now /\ now <= now
  BY <1>1, CopyFields
<1>3. k \in Work /\ k.pc = "reading" /\ k.task = Poll /\ k.start = now /\ k.since = resume_cursor
  BY <1>1, <1>2 DEF Work
<1>4. wk' = [wk EXCEPT ![w] = k]
  BY <1>1 DEF PollBegin, TypeOK, Work
<1>5. Poll # NoTask /\ \A v \in Workers \ {w} : wk[v].task # Poll
  BY <1>1, NoRows DEF BaseInv, WorkInv
<1>6. UNCHANGED <<now, src, raw, canon, bf, cdc, queue, lost, faults>>
  BY DEF PollBegin, copy
<1>7. lost \subseteq Recs /\ faults \in 0..MaxFaults /\ \A r \in lost : src[r].deleted
  BY <1>1 DEF TypeOK, BaseInv, SrcInv
<1> HIDE DEF k
<1>8. BaseInv'
  BY <1>1, <1>2, <1>3, <1>4, <1>5, <1>6, <1>7, BaseMoves
<1>9. wk'[w] = k
  BY <1>1, <1>4 DEF TypeOK
<1> QED BY <1>3, <1>8, <1>9

\* LoadStore and NormalizeLoad: the latest raw versions are read.
LEMMA LoadBase ==
  ASSUME BaseInv, NEW w \in Workers, LoadStore(w) \/ NormalizeLoad(w)
  PROVE  /\ BaseInv' /\ wk'[w].pc = "loaded" /\ wk'[w].task = wk[w].task /\ wk'[w].start = wk[w].start
         /\ wk'[w].rows = wk[w].rows /\ wk'[w].last = wk[w].last /\ wk'[w].cur = raw
         /\ LoadStore(w) => wk'[w].done = bf.done
<1>1. PICK done : done = IF LoadStore(w) THEN bf.done ELSE wk[w].done
  OBVIOUS
<1> DEFINE k == [wk[w] EXCEPT !.pc = "loaded", !.cur = raw, !.done = done]
<1>2. /\ TypeOK /\ wk[w] \in Work /\ raw \in [Recs -> RawRow] /\ done \subseteq Entities
      /\ wk[w].task \in queue /\ wk[w].task # NoTask
  BY <1>1, WorkFields, NoRows, CopyFields DEF BaseInv, WorkInv, LoadStore, NormalizeLoad, TypeOK
<1>3. /\ k \in Work /\ k.pc = "loaded" /\ k.task = wk[w].task /\ k.start = wk[w].start
      /\ k.rows = wk[w].rows /\ k.last = wk[w].last /\ k.cur = raw /\ k.done = done
  BY <1>2 DEF Work
<1>4. wk' = [wk EXCEPT ![w] = k]
  BY <1>1, <1>2 DEF LoadStore, NormalizeLoad, TypeOK, Work
<1>5. \A v \in Workers \ {w} : wk[v].task # k.task
  BY <1>2, <1>3 DEF BaseInv, WorkInv
<1>6. UNCHANGED <<now, src, raw, canon, bf, cdc, queue, lost, faults>>
  BY DEF LoadStore, NormalizeLoad, copy
<1>7. lost \subseteq Recs /\ faults \in 0..MaxFaults /\ \A r \in lost : src[r].deleted
  BY <1>2 DEF TypeOK, BaseInv, SrcInv
<1>8. wk[w].task \in Tasks
  BY <1>2 DEF TypeOK
<1>9. k.task = Poll => Overlap <= k.start /\ k.start <= now
  BY <1>3, NoRows DEF BaseInv, TimeInv, LoadStore, NormalizeLoad
<1>10. Kind(k.task) \in {"poll", "page"} => OnPoll(w) \/ OnPage(w)
  BY <1>3, <1>8, TaskFields DEF OnPoll, OnPage, LoadStore, NormalizeLoad
<1>11. Kind(k.task) \in {"poll", "page"} => \A r \in Recs : src[r].ver = 0 => k.rows[r] = NoRow
  BY <1>3, <1>10 DEF BaseInv, SrcInv
<1> HIDE DEF k
<1>12. BaseInv'
  BY <1>2, <1>3, <1>4, <1>5, <1>6, <1>7, <1>9, <1>11, BaseMoves
<1>13. wk'[w] = k
  BY <1>2, <1>4 DEF TypeOK
<1> QED BY <1>1, <1>3, <1>12, <1>13

\* A worker that has nothing more to store, or gives the task up.
LEMMA EndBase ==
  ASSUME BaseInv, NEW w \in Workers, NEW k \in {Idle, Finished(wk[w])}, wk[w].pc # "idle",
         wk' = [wk EXCEPT ![w] = k], faults' \in 0..MaxFaults,
         UNCHANGED <<now, src, raw, canon, bf, cdc, queue, lost>>
  PROVE  BaseInv' /\ wk'[w] = k
<1>1. TypeOK /\ wk[w] \in Work /\ wk[w].task \in queue /\ wk[w].task # NoTask
  BY WorkFields, NoRows DEF BaseInv, WorkInv
<1>2. k \in Work /\ \/ k.pc = "idle" /\ k.task = NoTask
                    \/ k.pc = "done" /\ k.task = wk[w].task
  BY <1>1, IdleFields
<1>3. \A v \in Workers \ {w} : wk[v].task # wk[w].task
  BY <1>1 DEF BaseInv, WorkInv
<1>4. lost \subseteq Recs /\ \A r \in lost : src[r].deleted
  BY <1>1 DEF TypeOK, BaseInv, SrcInv
<1>5. BaseInv'
  BY <1>1, <1>2, <1>3, <1>4, BaseMoves
<1>6. wk'[w] = k
  BY <1>1 DEF TypeOK
<1> QED BY <1>5, <1>6

LEMMA ClaimBase ==
  ASSUME BaseInv, NEW w \in Workers, NEW t \in queue, Claim(w, t)
  PROVE  BaseInv' /\ wk'[w].pc = "claimed" /\ wk'[w].task = t
<1> DEFINE k == [Idle EXCEPT !.pc = "claimed", !.task = t]
<1>1. TypeOK /\ t \in Tasks /\ t # NoTask
  BY TaskFields DEF BaseInv, TypeOK
<1>2. k \in Work /\ k.pc = "claimed" /\ k.task = t
  BY <1>1, IdleFields DEF Work
<1>3. /\ wk' = [wk EXCEPT ![w] = k] /\ \A v \in Workers \ {w} : wk[v].task # t
      /\ UNCHANGED <<now, src, raw, canon, bf, cdc, queue, lost, faults>>
  BY DEF Claim, copy
<1>4. lost \subseteq Recs /\ faults \in 0..MaxFaults /\ \A r \in lost : src[r].deleted
  BY <1>1 DEF TypeOK, BaseInv, SrcInv
<1> HIDE DEF k
<1>5. BaseInv'
  BY <1>1, <1>2, <1>3, <1>4, BaseMoves
<1>6. wk'[w] = k
  BY <1>1, <1>3 DEF TypeOK
<1> QED BY <1>2, <1>5, <1>6

\* A change carries an update time that no cursor has passed.
LEMMA ChangeBase ==
  ASSUME BaseInv, NEW r \in Recs, NEW gone \in BOOLEAN, Change(r, gone)
  PROVE  /\ BaseInv' /\ UNCHANGED <<now, copy, queue, wk>>
         /\ src'[r].upd \in Nat /\ now - Overlap <= src'[r].upd
         /\ \A q \in Recs \ {r} : src'[q] = src[q]
<1>1. /\ TypeOK /\ now \in Nat /\ Overlap <= now /\ src[r].ver \in 0..MaxVersion /\ ~src[r].deleted
      /\ src[r].ver < MaxVersion
  BY CopyFields DEF BaseInv, Change
<1>2. PICK u \in (now - Lag)..now :
        src' = [src EXCEPT ![r] = [ver |-> @.ver + 1, deleted |-> gone, upd |-> u]]
  BY DEF Change
<1>3. now - Lag \in Nat /\ u \in Nat /\ now - Overlap <= u
  BY <1>1, <1>2, Numbers
<1> DEFINE s == [ver |-> src[r].ver + 1, deleted |-> gone, upd |-> u]
<1>4. s.ver = src[r].ver + 1 /\ s.deleted = gone /\ s.upd = u /\ src' = [src EXCEPT ![r] = s]
  BY <1>2
<1>5. s.ver \in 0..MaxVersion /\ s.ver # 0
  BY <1>1, <1>4, Numbers
<1>6. s \in [ver : 0..MaxVersion, deleted : BOOLEAN, upd : Nat]
  BY <1>3, <1>4, <1>5
<1> HIDE DEF s
<1>7. src'[r] = s /\ \A q \in Recs \ {r} : src'[q] = src[q]
  BY <1>1, <1>4 DEF TypeOK
<1>8. UNCHANGED <<now, raw, canon, bf, cdc, queue, wk, lost, faults>>
  BY DEF Change, copy
<1>9. TypeOK'
  BY <1>1, <1>4, <1>6, <1>8 DEF TypeOK
<1>10. SrcInv'
  <2>1. r \notin lost
    BY <1>1 DEF BaseInv, SrcInv
  <2>2. \A q \in Recs :
          /\ src'[q].ver = 0 => /\ ~src'[q].deleted /\ raw[q].n = 0
                                /\ \A w \in Workers : OnPoll(w) \/ OnPage(w) => wk[w].rows[q] = NoRow
          /\ q \in lost => src'[q].deleted
    BY <1>4, <1>5, <1>7, <2>1 DEF BaseInv, SrcInv
  <2> QED BY <1>8, <2>2 DEF SrcInv, OnPoll, OnPage
<1>11. TimeInv' /\ TaskInv' /\ WorkInv'
  BY <1>8 DEF BaseInv, TimeInv, TaskInv, WorkInv, resume_cursor
<1> QED BY <1>3, <1>4, <1>7, <1>8, <1>9, <1>10, <1>11 DEF BaseInv, copy

LEMMA TickBase ==
  ASSUME BaseInv, Tick
  PROVE  BaseInv'
<1>1. TypeOK /\ now \in Nat /\ now' = now + 1 /\ now < MaxClock /\ Overlap <= now
  BY CopyFields DEF BaseInv, Tick
<1>2. UNCHANGED <<src, raw, canon, bf, cdc, queue, wk, lost, faults>>
  BY DEF Tick, copy
<1>3. TypeOK'
  <2>1. now' \in Overlap..MaxClock
    BY <1>1, Numbers
  <2> QED BY <1>1, <1>2, <2>1 DEF TypeOK
<1>4. SrcInv'
  BY <1>2 DEF BaseInv, SrcInv, OnPoll, OnPage
<1>5. TimeInv'
  <2>1. cdc \in Int /\ bf.cursor \in Int /\ bf.since \in Int /\ \A w \in Workers : wk[w].start \in Int
    BY <1>1, CopyFields, WorkFields, Numbers
  <2> QED BY <1>1, <1>2, <2>1, Numbers DEF BaseInv, TimeInv
<1>6. TaskInv' /\ WorkInv'
  BY <1>2 DEF BaseInv, TaskInv, WorkInv, resume_cursor
<1> QED BY <1>3, <1>4, <1>5, <1>6 DEF BaseInv

LEMMA QueuePollBase ==
  ASSUME BaseInv, QueuePoll
  PROVE  BaseInv'
<1>1. TypeOK /\ queue' = queue \cup {Poll} /\ resume_cursor # NoCursor
  BY DEF BaseInv, QueuePoll
<1>2. UNCHANGED <<now, src, raw, canon, bf, cdc, wk, lost, faults>>
  BY DEF QueuePoll, copy
<1>3. TypeOK'
  BY <1>1, <1>2 DEF TypeOK, Tasks
<1>4. SrcInv' /\ TimeInv' /\ WorkInv'
  BY <1>2 DEF BaseInv, SrcInv, TimeInv, WorkInv, OnPoll, OnPage
<1>5. TaskInv'
  <2>1. resume_cursor' = resume_cursor /\ Kind(Poll) # "page"
    BY <1>2, NoRows DEF resume_cursor
  <2> QED BY <1>1, <1>2, <2>1 DEF BaseInv, TaskInv
<1> QED BY <1>3, <1>4, <1>5 DEF BaseInv

LEMMA StartBackfillBase ==
  ASSUME BaseInv, StartBackfill
  PROVE  /\ BaseInv' /\ UNCHANGED <<now, src, raw, canon, cdc, wk, lost>>
         /\ bf'.outcome = "open" /\ bf'.runs = bf.runs + 1 /\ bf'.since = now - Overlap
         /\ bf'.done = {} /\ bf'.cursor = bf.cursor
         /\ queue' = queue \cup {<<"page", bf.runs + 1, e, 0>> : e \in Entities}
<1>1. TypeOK /\ now \in Nat /\ Overlap <= now /\ bf.runs \in Nat /\ bf.runs < MaxRuns
  BY CopyFields DEF BaseInv, StartBackfill
<1> DEFINE b == [bf EXCEPT !.outcome = "open", !.runs = @ + 1, !.since = Watermark, !.done = {}]
<1>2. /\ b.outcome = "open" /\ b.runs = bf.runs + 1 /\ b.since = now - Overlap /\ b.done = {} /\ b.cursor = bf.cursor
      /\ bf' = b
  BY <1>1 DEF StartBackfill, TypeOK, Watermark
<1>3. b.since \in Nat /\ b.runs \in 1..MaxRuns /\ b.runs \in 0..MaxRuns
  BY <1>1, <1>2, Numbers
<1>4. b \in [outcome : {"none", "open", "succeeded"}, runs : 0..MaxRuns, since : Nat,
             done : SUBSET Entities, cursor : Nat \cup {NoCursor}]
  <2>1. Watermark \in Nat /\ bf.runs + 1 \in 0..MaxRuns
    BY <1>2, <1>3
  <2> QED BY <1>1, <2>1 DEF TypeOK
<1> HIDE DEF b
<1> DEFINE new == {<<"page", bf.runs + 1, e, 0>> : e \in Entities}
<1>5. queue' = queue \cup new /\ UNCHANGED <<now, src, raw, canon, cdc, wk, lost, faults>>
  BY DEF StartBackfill
<1>6. \A t \in new : t \in Pages /\ t[2] = bf.runs + 1 /\ Kind(t) = "page" /\ t # Poll
  BY <1>2, <1>3, NoRows DEF Pages, Kind, Poll
<1>7. new \subseteq Tasks
  BY <1>6 DEF Tasks
<1> HIDE DEF new
<1>8. TypeOK'
  BY <1>1, <1>2, <1>4, <1>5, <1>7 DEF TypeOK
<1>9. SrcInv' /\ WorkInv'
  BY <1>5 DEF BaseInv, SrcInv, WorkInv, OnPoll, OnPage
<1>10. TimeInv'
  BY <1>1, <1>2, <1>5, Numbers DEF BaseInv, TimeInv
<1>11. TaskInv'
  <2>1. resume_cursor' = resume_cursor
    BY <1>2, <1>5 DEF resume_cursor
  <2>2. \A t \in queue' : Kind(t) = "page" => t[2] <= bf'.runs
    <3> SUFFICES ASSUME NEW t \in queue', Kind(t) = "page" PROVE t[2] <= bf'.runs
      OBVIOUS
    <3>1. CASE t \in new
      BY <1>1, <1>2, <1>6, <3>1
    <3>2. CASE t \in queue
      <4>1. t[2] <= bf.runs /\ t[2] \in Nat
        BY <1>1, <3>2, TaskFields DEF BaseInv, TaskInv, TypeOK
      <4> QED BY <1>1, <1>2, <4>1
    <3> QED BY <1>5, <3>1, <3>2
  <2>3. Poll \in queue' => resume_cursor' # NoCursor
    BY <1>5, <1>6, <2>1 DEF BaseInv, TaskInv
  <2> QED BY <1>2, <2>2, <2>3 DEF TaskInv
<1> QED BY <1>2, <1>5, <1>8, <1>9, <1>10, <1>11 DEF BaseInv, new

-----------------------------------------------------------------------------
(* What is stored.                                                           *)

LEMMA StoredFields ==
  ASSUME NEW cur \in RawRow, NEW row \in Row
  PROVE  /\ Stored(cur, row) \in RawRow
         /\ Stored(cur, row) # cur => Stored(cur, row).n = cur.n + 1 /\ row # NoRow
<1>1. cur.n \in Nat /\ cur.ver \in 0..MaxVersion /\ row.ver \in 0..MaxVersion /\ row.deleted \in BOOLEAN
  BY DEF RawRow, Row
<1> DEFINE new == [n |-> cur.n + 1, deleted |-> row.deleted,
                   ver |-> IF row.deleted THEN cur.ver ELSE row.ver]
<1>2. new \in RawRow /\ new.n = cur.n + 1
  BY <1>1 DEF RawRow
<1>3. CASE row = NoRow \/ Same(cur, row)
  BY <1>3 DEF Stored
<1>4. CASE ~(row = NoRow \/ Same(cur, row))
  <2>1. Stored(cur, row) = new
    BY <1>4 DEF Stored
  <2> QED BY <1>2, <1>4, <2>1
<1> QED BY <1>3, <1>4

LEMMA RawAfterFields ==
  ASSUME TypeOK, NEW w \in Workers
  PROVE  /\ RawAfter(w) \in [Recs -> RawRow]
         /\ \A r \in Recs :
              /\ r \in News(w) => /\ RawAfter(w)[r] = Stored(wk[w].cur[r], wk[w].rows[r])
                                  /\ RawAfter(w)[r].n = wk[w].cur[r].n + 1 /\ wk[w].rows[r] # NoRow
              /\ r \notin News(w) => /\ RawAfter(w)[r] = raw[r]
                                     /\ Stored(wk[w].cur[r], wk[w].rows[r]) = wk[w].cur[r]
<1>1. \A r \in Recs : wk[w].cur[r] \in RawRow /\ wk[w].rows[r] \in Row /\ raw[r] \in RawRow
  BY WorkFields, CopyFields
<1>2. \A r \in Recs : RawAfter(w)[r] = IF r \in News(w) THEN Stored(wk[w].cur[r], wk[w].rows[r]) ELSE raw[r]
  BY DEF RawAfter
<1>3. \A r \in Recs : r \in News(w) <=> Stored(wk[w].cur[r], wk[w].rows[r]) # wk[w].cur[r]
  BY DEF News
<1>4. \A r \in Recs : Stored(wk[w].cur[r], wk[w].rows[r]) \in RawRow
  BY <1>1, StoredFields
<1>5. RawAfter(w) \in [Recs -> RawRow]
  BY <1>1, <1>4 DEF RawAfter
<1> QED BY <1>1, <1>2, <1>3, <1>5, StoredFields

LEMMA NormFields ==
  ASSUME TypeOK, NEW w \in Workers
  PROVE  /\ NormalizeTasks(w) \subseteq Tasks
         /\ \A t \in NormalizeTasks(w) : Kind(t) = "norm" /\ t # Poll
<1>1. \A r \in News(w) : r \in Recs /\ RawAfter(w)[r].n \in Nat \ {0}
  <2> SUFFICES ASSUME NEW r \in News(w) PROVE r \in Recs /\ RawAfter(w)[r].n \in Nat \ {0}
    OBVIOUS
  <2>1. r \in Recs
    BY DEF News
  <2>2. wk[w].cur[r] \in RawRow
    BY <2>1, WorkFields
  <2>3. wk[w].cur[r].n \in Nat
    BY <2>2 DEF RawRow
  <2> QED BY <2>1, <2>3, RawAfterFields
<1>2. ASSUME NEW t \in NormalizeTasks(w) PROVE t \in Norms /\ Kind(t) = "norm" /\ t # Poll
  <2>1. PICK r \in News(w) : t = <<"norm", r, RawAfter(w)[r].n>>
    BY DEF NormalizeTasks
  <2> QED BY <1>1, <2>1 DEF Norms, Kind, Poll
<1> QED BY <1>2 DEF Tasks

\* What PageCommit and PollCommit share.
LEMMA StoreBase ==
  ASSUME BaseInv, NEW w \in Workers, wk[w].pc = "loaded", Kind(wk[w].task) \in {"page", "poll"},
         raw' = RawAfter(w), wk' = [wk EXCEPT ![w] = Finished(@)], src' = src, now' = now,
         queue \subseteq queue', \A r \in lost' : src[r].deleted
  PROVE  /\ raw' \in [Recs -> RawRow] /\ wk' \in [Workers -> Work]
         /\ \A v \in Workers : wk'[v].task \in queue' \cup {NoTask}
         /\ wk'[w].pc = "done" /\ wk'[w].task = wk[w].task /\ \A v \in Workers \ {w} : wk'[v] = wk[v]
         /\ SrcInv' /\ WorkInv'
<1>1. TypeOK /\ wk[w] \in Work /\ wk[w].task \in queue /\ wk[w].task # NoTask
  BY WorkFields, NoRows DEF BaseInv, WorkInv
<1> DEFINE k == Finished(wk[w])
<1>2. k \in Work /\ k.pc = "done" /\ k.task = wk[w].task
  BY <1>1, IdleFields
<1>3. wk' = [wk EXCEPT ![w] = k]
  OBVIOUS
<1> HIDE DEF k
<1>4. wk' \in [Workers -> Work] /\ wk'[w] = k /\ \A v \in Workers \ {w} : wk'[v] = wk[v]
  BY <1>1, <1>2, <1>3 DEF TypeOK
<1>5. raw' \in [Recs -> RawRow]
  BY <1>1, RawAfterFields
<1>6. \A v \in Workers : wk'[v].task \in queue' \cup {NoTask}
  BY <1>1, <1>2, <1>4, WorkFields
<1>7. \A r \in Recs : src[r].ver = 0 => raw'[r].n = 0
  <2> SUFFICES ASSUME NEW r \in Recs, src[r].ver = 0 PROVE raw'[r].n = 0
    OBVIOUS
  <2>1. OnPoll(w) \/ OnPage(w)
    BY <1>1, TaskFields DEF OnPoll, OnPage, TypeOK
  <2>2. wk[w].rows[r] = NoRow /\ raw[r].n = 0
    BY <2>1 DEF BaseInv, SrcInv
  <2>3. raw'[r] = raw[r]
    BY <1>1, <2>2, RawAfterFields
  <2> QED BY <2>2, <2>3
<1>8. \A v \in Workers : (OnPoll(v) \/ OnPage(v))' => (OnPoll(v) \/ OnPage(v)) /\ wk'[v] = wk[v]
  BY <1>2, <1>4 DEF OnPoll, OnPage
<1>9. SrcInv'
  BY <1>7, <1>8 DEF BaseInv, SrcInv
<1>10. WorkInv'
  BY <1>1, <1>2, <1>4 DEF BaseInv, WorkInv
<1> QED BY <1>2, <1>4, <1>5, <1>6, <1>9, <1>10

LEMMA PollCommitBase ==
  ASSUME BaseInv, NEW w \in Workers, PollCommit(w)
  PROVE  /\ BaseInv' /\ wk'[w].pc = "done" /\ wk'[w].task = wk[w].task
         /\ cdc' = wk[w].start - Overlap /\ cdc' \in Nat /\ UNCHANGED <<now, src, canon, bf, lost>>
<1>1. TypeOK /\ wk[w].pc = "loaded" /\ wk[w].task = Poll /\ wk[w].task \in queue /\ Kind(wk[w].task) = "poll"
  BY WorkFields, NoRows DEF BaseInv, PollCommit
<1>2. /\ raw' = RawAfter(w) /\ wk' = [wk EXCEPT ![w] = Finished(@)] /\ queue' = queue \cup NormalizeTasks(w)
      /\ UNCHANGED <<now, src, canon, bf, lost, faults>> /\ cdc' = wk[w].start - Overlap
  BY DEF PollCommit, Cursor
<1>3. Overlap <= wk[w].start /\ wk[w].start <= now /\ wk[w].start \in Nat /\ now \in Nat
  BY <1>1, WorkFields, CopyFields DEF BaseInv, TimeInv
<1>4. cdc' \in Nat /\ cdc' <= now - Overlap
  BY <1>2, <1>3, Numbers
<1>5. \A r \in lost' : src[r].deleted
  BY <1>1, <1>2 DEF BaseInv, SrcInv, TypeOK
<1>6. /\ raw' \in [Recs -> RawRow] /\ wk' \in [Workers -> Work]
      /\ \A v \in Workers : wk'[v].task \in queue' \cup {NoTask}
      /\ wk'[w].pc = "done" /\ wk'[w].task = wk[w].task /\ \A v \in Workers \ {w} : wk'[v] = wk[v]
      /\ SrcInv' /\ WorkInv'
  BY <1>1, <1>2, <1>5, StoreBase
<1>7. TypeOK'
  BY <1>1, <1>2, <1>4, <1>6, NormFields DEF TypeOK
<1>8. TimeInv'
  <2>1. \A v \in Workers : wk'[v].task = Poll /\ wk'[v].pc \in {"reading", "fetched", "loaded"} => wk'[v] = wk[v]
    BY <1>6
  <2> QED BY <1>2, <1>4, <2>1 DEF BaseInv, TimeInv
<1>9. TaskInv'
  <2>1. resume_cursor' # NoCursor
    BY <1>4, Numbers DEF resume_cursor
  <2>2. bf.outcome # "none"
    BY <1>1 DEF BaseInv, TaskInv
  <2>3. \A t \in queue' : Kind(t) = "page" => t \in queue
    BY <1>1, <1>2, NormFields
  <2> QED BY <1>2, <2>1, <2>2, <2>3 DEF BaseInv, TaskInv
<1> QED BY <1>2, <1>4, <1>6, <1>7, <1>8, <1>9 DEF BaseInv

LEMMA PageCommitBase ==
  ASSUME BaseInv, NEW w \in Workers, PageCommit(w)
  PROVE  /\ BaseInv' /\ wk'[w].pc = "done" /\ wk'[w].task = wk[w].task
         /\ UNCHANGED <<now, src, canon, cdc>>
         /\ bf'.runs = bf.runs /\ bf'.since = bf.since
         /\ Finishes(w) => bf'.outcome = "succeeded" /\ bf'.cursor = bf.since /\ bf'.done = Entities
         /\ ~Finishes(w) => /\ bf'.outcome = bf.outcome /\ bf'.cursor = bf.cursor /\ UNCHANGED lost
                            /\ bf'.done = IF bf.runs = wk[w].task[2] THEN DoneAfter(w) ELSE bf.done
<1> DEFINE t == wk[w].task
<1>1. TypeOK /\ wk[w].pc = "loaded" /\ Kind(t) = "page" /\ t \in queue /\ t \in Tasks
  BY WorkFields, NoRows DEF BaseInv, PageCommit, TypeOK
<1>2. /\ raw' = RawAfter(w) /\ wk' = [wk EXCEPT ![w] = Finished(@)]
      /\ queue' = queue \cup NormalizeTasks(w) \cup NextPage(w)
      /\ UNCHANGED <<now, src, canon, cdc, faults>>
      /\ bf' = IF Finishes(w)
               THEN [bf EXCEPT !.done = Entities, !.outcome = "succeeded", !.cursor = bf.since]
               ELSE IF bf.runs = t[2] THEN [bf EXCEPT !.done = DoneAfter(w)] ELSE bf
      /\ lost' = IF Finishes(w) THEN lost \cup Unasked ELSE lost
  BY DEF PageCommit
<1>3. /\ bf.runs \in 0..MaxRuns /\ bf.since \in Nat /\ bf.since <= now - Overlap /\ t[2] <= bf.runs
      /\ bf.outcome # "none" /\ t[2] \in 1..MaxRuns /\ t[3] \in Entities /\ wk[w].last \in Ids
      /\ wk[w].done \subseteq Entities
  BY <1>1, CopyFields, TaskFields, WorkFields DEF BaseInv, TimeInv, TaskInv
<1>4. DoneAfter(w) \subseteq Entities
  BY <1>3 DEF DoneAfter
<1>5. /\ bf'.runs = bf.runs /\ bf'.since = bf.since
      /\ Finishes(w) => bf'.outcome = "succeeded" /\ bf'.cursor = bf.since /\ bf'.done = Entities
      /\ ~Finishes(w) => /\ bf'.outcome = bf.outcome /\ bf'.cursor = bf.cursor /\ UNCHANGED lost
                         /\ bf'.done = IF bf.runs = t[2] THEN DoneAfter(w) ELSE bf.done
      /\ bf' \in [outcome : {"none", "open", "succeeded"}, runs : 0..MaxRuns, since : Nat,
                  done : SUBSET Entities, cursor : Nat \cup {NoCursor}]
  <2>1. bf \in [outcome : {"none", "open", "succeeded"}, runs : 0..MaxRuns, since : Nat,
                done : SUBSET Entities, cursor : Nat \cup {NoCursor}]
    BY <1>1 DEF TypeOK
  <2>2. CASE Finishes(w)
    <3>1. bf' = [bf EXCEPT !.done = Entities, !.outcome = "succeeded", !.cursor = bf.since]
      BY <1>2, <2>2
    <3> QED BY <2>1, <2>2, <3>1
  <2>3. CASE ~Finishes(w) /\ bf.runs = t[2]
    <3>1. bf' = [bf EXCEPT !.done = DoneAfter(w)] /\ lost' = lost
      BY <1>2, <2>3
    <3> QED BY <1>4, <2>1, <2>3, <3>1
  <2>4. CASE ~Finishes(w) /\ bf.runs # t[2]
    BY <1>2, <2>1, <2>4
  <2> QED BY <2>2, <2>3, <2>4
<1>6. lost' \subseteq Recs /\ \A r \in lost' : src[r].deleted
  BY <1>1, <1>2 DEF BaseInv, SrcInv, TypeOK, Unasked
<1>7. /\ raw' \in [Recs -> RawRow] /\ wk' \in [Workers -> Work]
      /\ \A v \in Workers : wk'[v].task \in queue' \cup {NoTask}
      /\ wk'[w].pc = "done" /\ wk'[w].task = wk[w].task /\ \A v \in Workers \ {w} : wk'[v] = wk[v]
      /\ SrcInv' /\ WorkInv'
  BY <1>1, <1>2, <1>6, StoreBase
<1>8. \A u \in NextPage(w) : /\ u \in Pages /\ u[2] = t[2] /\ u # Poll /\ Kind(u) = "page"
                             /\ u = <<"page", t[2], t[3], wk[w].last>>
  BY <1>3 DEF NextPage, Pages, Kind, Poll
<1>9. TypeOK'
  <2>1. queue' \subseteq Tasks
    BY <1>1, <1>2, <1>8, NormFields DEF Tasks, TypeOK
  <2> QED BY <1>1, <1>2, <1>5, <1>6, <1>7, <2>1 DEF TypeOK
<1>10. TimeInv'
  <2>1. \A v \in Workers : wk'[v].task = Poll /\ wk'[v].pc \in {"reading", "fetched", "loaded"} => wk'[v] = wk[v]
    BY <1>7
  <2>2. bf'.cursor <= now - Overlap
    BY <1>3, <1>5 DEF BaseInv, TimeInv
  <2> QED BY <1>2, <1>5, <2>1, <2>2 DEF BaseInv, TimeInv
<1>11. TaskInv'
  <2>1. resume_cursor # NoCursor => resume_cursor' # NoCursor
    BY <1>2, <1>3, <1>5, Numbers DEF resume_cursor
  <2>2. bf'.outcome # "none"
    BY <1>3, <1>5
  <2>3. \A u \in queue' : Kind(u) = "page" => u[2] <= bf.runs
    BY <1>1, <1>2, <1>3, <1>8, NormFields DEF BaseInv, TaskInv
  <2>4. Poll \in queue' => Poll \in queue
    BY <1>1, <1>2, <1>8, NormFields
  <2>5. bf'.outcome = "succeeded" => bf'.cursor # NoCursor
    BY <1>3, <1>5, Numbers DEF BaseInv, TaskInv
  <2> QED BY <1>5, <2>1, <2>2, <2>3, <2>4, <2>5 DEF BaseInv, TaskInv
<1> QED BY <1>2, <1>5, <1>7, <1>9, <1>10, <1>11 DEF BaseInv

LEMMA AppliedFields ==
  ASSUME NEW row \in Row, NEW r \in RawRow
  PROVE  /\ Applied(row, r) \in Row
         /\ Applied(Applied(row, r), r) = Applied(row, r)
<1>1. CASE ~r.deleted
  BY <1>1 DEF Applied, Row, RawRow
<1>2. CASE r.deleted /\ row = NoRow
  BY <1>2 DEF Applied
<1>3. CASE r.deleted /\ row # NoRow
  <2> DEFINE marked == [row EXCEPT !.deleted = TRUE]
  <2>1. Applied(row, r) = marked
    BY <1>3 DEF Applied
  <2>2. marked \in Row /\ marked.deleted = TRUE
    BY DEF Row
  <2>3. [marked EXCEPT !.deleted = TRUE] = marked
    BY DEF Row
  <2>4. marked # NoRow
    BY <2>2 DEF NoRow
  <2> QED BY <1>3, <2>1, <2>2, <2>3, <2>4 DEF Applied
<1> QED BY <1>1, <1>2, <1>3

LEMMA NormalizeCommitBase ==
  ASSUME BaseInv, NEW w \in Workers, NormalizeCommit(w)
  PROVE  /\ BaseInv' /\ wk'[w].pc = "done" /\ wk'[w].task = wk[w].task
         /\ UNCHANGED <<src, raw, bf, cdc, queue, lost>> /\ Kind(wk[w].task) = "norm"
         /\ wk[w].task[2] \in Recs /\ wk[w].task = <<"norm", wk[w].task[2], wk[w].task[3]>>
         /\ wk[w].task[3] \in Nat \ {0} /\ canon' \in [Recs -> Row]
         /\ canon'[wk[w].task[2]] = Applied(canon[wk[w].task[2]], wk[w].cur[wk[w].task[2]])
         /\ \A q \in Recs \ {wk[w].task[2]} : canon'[q] = canon[q]
<1>1. /\ TypeOK /\ wk[w] \in Work /\ wk[w].pc = "loaded" /\ Kind(wk[w].task) = "norm" /\ wk[w].task \in queue
      /\ wk[w].task \in Tasks
  BY WorkFields, NoRows DEF BaseInv, NormalizeCommit, TypeOK
<1>2. PICK r \in Recs : wk[w].task[2] = r
  BY <1>1, TaskFields
<1>3. /\ wk[w].task = <<"norm", r, wk[w].task[3]>> /\ wk[w].task[3] \in Nat \ {0}
      /\ canon' = [canon EXCEPT ![r] = Applied(@, wk[w].cur[r])]
      /\ wk' = [wk EXCEPT ![w] = Finished(@)]
      /\ UNCHANGED <<now, src, raw, bf, cdc, queue, lost, faults>>
  BY <1>1, <1>2, TaskFields DEF NormalizeCommit
<1>4. canon[r] \in Row /\ wk[w].cur[r] \in RawRow /\ canon \in [Recs -> Row]
  BY <1>1, WorkFields DEF TypeOK
<1> DEFINE row == Applied(canon[r], wk[w].cur[r])
<1>5. row \in Row
  BY <1>4, AppliedFields
<1>6. canon' = [canon EXCEPT ![r] = row]
  BY <1>3
<1> HIDE DEF row
<1>7. canon' \in [Recs -> Row] /\ canon'[r] = row /\ \A q \in Recs \ {r} : canon'[q] = canon[q]
  BY <1>4, <1>5, <1>6
<1> DEFINE k == Finished(wk[w])
<1>8. k \in Work /\ k.pc = "done" /\ k.task = wk[w].task
  BY <1>1, IdleFields
<1>9. wk' = [wk EXCEPT ![w] = k]
  BY <1>3
<1> HIDE DEF k
<1>10. wk' \in [Workers -> Work] /\ wk'[w] = k /\ \A v \in Workers \ {w} : wk'[v] = wk[v]
  BY <1>1, <1>8, <1>9 DEF TypeOK
<1>11. TypeOK'
  BY <1>1, <1>3, <1>7, <1>8, <1>10 DEF TypeOK
<1>12. SrcInv'
  BY <1>3, <1>8, <1>10 DEF BaseInv, SrcInv, OnPoll, OnPage
<1>13. TimeInv'
  BY <1>3, <1>8, <1>10 DEF BaseInv, TimeInv
<1>14. TaskInv'
  BY <1>3 DEF BaseInv, TaskInv, resume_cursor
<1>15. WorkInv'
  BY <1>1, <1>8, <1>10 DEF BaseInv, WorkInv
<1> QED BY <1>1, <1>2, <1>3, <1>7, <1>8, <1>10, <1>11, <1>12, <1>13, <1>14, <1>15 DEF BaseInv, row

LEMMA CompleteBase ==
  ASSUME BaseInv, NEW w \in Workers, Complete(w)
  PROVE  /\ BaseInv' /\ wk'[w] = Idle /\ wk[w].pc = "done" /\ wk[w].task \in Tasks
         /\ queue' = queue \ {wk[w].task} /\ UNCHANGED <<src, raw, canon, bf, cdc, lost>>
<1>1. TypeOK /\ wk[w].pc = "done" /\ wk[w].task \in queue /\ wk[w].task \in Tasks
  BY WorkFields, NoRows DEF BaseInv, WorkInv, Complete, TypeOK
<1>2. /\ wk' = [wk EXCEPT ![w] = Idle] /\ queue' = queue \ {wk[w].task}
      /\ UNCHANGED <<now, src, raw, canon, bf, cdc, lost, faults>>
  BY DEF Complete, copy
<1>3. wk' \in [Workers -> Work] /\ wk'[w] = Idle /\ \A v \in Workers \ {w} : wk'[v] = wk[v]
  BY <1>1, <1>2, IdleFields DEF TypeOK
<1>4. \A v \in Workers : wk'[v].task \in queue' \cup {NoTask}
  <2> SUFFICES ASSUME NEW v \in Workers PROVE wk'[v].task \in queue' \cup {NoTask}
    OBVIOUS
  <2>1. CASE v = w
    BY <1>3, <2>1, IdleFields
  <2>2. CASE v # w
    <3>1. wk[v].task \in queue \cup {NoTask} /\ (wk[v].task # NoTask => wk[v].task # wk[w].task)
      BY <1>1, <2>2, WorkFields DEF BaseInv, WorkInv
    <3> QED BY <1>2, <1>3, <2>2, <3>1
  <2> QED BY <2>1, <2>2
<1>5. TypeOK'
  BY <1>1, <1>2, <1>3, <1>4 DEF TypeOK
<1>6. SrcInv'
  BY <1>2, <1>3, IdleFields, NoRows DEF BaseInv, SrcInv, OnPoll, OnPage
<1>7. TimeInv'
  BY <1>2, <1>3, IdleFields, NoRows DEF BaseInv, TimeInv
<1>8. TaskInv'
  BY <1>2 DEF BaseInv, TaskInv, resume_cursor
<1>9. WorkInv'
  BY <1>1, <1>2, <1>3, IdleFields, NoRows DEF BaseInv, WorkInv
<1> QED BY <1>1, <1>2, <1>3, <1>5, <1>6, <1>7, <1>8, <1>9 DEF BaseInv

-----------------------------------------------------------------------------
(* One worker: a step that only moves it.                                    *)

LEMMA Alone ==
  ASSUME OneWorker, NEW w \in Workers, LoadOf(w)', HandRows(w)', DoneOf(w)'
  PROVE  WorkerInv'
<1>1. \A v \in Workers : v = w
  BY DEF OneWorker
<1> QED BY <1>1 DEF WorkerInv

\* Nothing is promised of a worker that holds no answer.
LEMMA Resting ==
  ASSUME NEW w \in Workers, wk'[w].pc \in {"idle", "claimed", "done"}
  PROVE  LoadOf(w)' /\ HandRows(w)' /\ (wk'[w].pc # "done" => DoneOf(w)')
BY DEF LoadOf, HandRows, DoneOf, OnPoll, OnPage

LEMMA LoneMoves ==
  ASSUME OneWorker, LoneInv, NEW w \in Workers, LoadOf(w)', HandRows(w)', DoneOf(w)',
         UNCHANGED <<src, raw, canon, bf, cdc, queue>>, lost \subseteq lost'
  PROVE  LoneInv'
<1>1. WorkerInv'
  BY Alone
<1>2. \A r \in Recs : (Live(r)' <=> Live(r)) /\ (Holds(r)' <=> Holds(r)) /\ (Covered(r)' <=> Covered(r))
  BY DEF Live, Holds, Covered, PageOf
<1>3. resume_cursor' = resume_cursor
  BY DEF resume_cursor
<1>4. MissInv'
  BY <1>2, <1>3 DEF LoneInv, MissInv
<1>5. CanonFollows' /\ BackfillProgresses'
  BY DEF LoneInv, CanonFollows, BackfillProgresses
<1> QED BY <1>1, <1>4, <1>5 DEF LoneInv

LEMMA PageFetchLone ==
  ASSUME BaseInv, OneWorker, LoneInv, NEW w \in Workers, PageFetch(w)
  PROVE  LoneInv'
<1> DEFINE asked == Above(wk[w].task[3], wk[w].task[4])
           page == FirstOf(asked)
<1>1. /\ wk'[w].pc = "fetched" /\ wk'[w].task = wk[w].task
      /\ wk'[w].rows = Answer(page) /\ wk'[w].last = LastId(page)
  BY PageFetchBase
<1>2. /\ UNCHANGED <<src, raw, canon, bf, cdc, queue, lost>> /\ RunOpen(wk[w].task) /\ Kind(wk[w].task) = "page"
      /\ TypeOK /\ wk[w].task # Poll
  BY NoRows DEF PageFetch, copy, BaseInv
<1>3. /\ asked \subseteq Recs /\ page \subseteq asked
      /\ \A r \in asked : r[2] > wk[w].task[4] /\ Live(r)
  BY DEF Above, FirstOf
<1>4. \A r \in Recs : wk'[w].rows[r] = IF r \in page THEN Current(r) ELSE NoRow
  BY <1>1, <1>2, AnswerFields
<1>5. OnPage(w)' /\ ~OnPoll(w)'
  BY <1>1, <1>2 DEF OnPage, OnPoll
<1>6. LoadOf(w)'
  <2>1. wk'[w].last # 0 => wk'[w].last > wk'[w].task[4]
    BY <1>1, <1>3, LastOfPage
  <2>2. RunOpen(wk[w].task)'
    BY <1>1, <1>2 DEF RunOpen
  <2> QED BY <1>1, <1>5, <2>1, <2>2 DEF LoadOf
<1>7. HandRows(w)'
  <2> SUFFICES ASSUME NEW r \in Recs
               PROVE  /\ wk'[w].rows[r] # NoRow => wk'[w].rows[r] = Current(r)'
                      /\ wk'[w].rows[r] = NoRow /\ Live(r)' => ~InPage(w, r)'
    BY <1>5 DEF HandRows
  <2>1. Current(r)' = Current(r)
    BY <1>2 DEF Current
  <2>2. ASSUME Live(r), wk'[w].rows[r] = NoRow, InPage(w, r)' PROVE FALSE
    <3>1. Current(r) # NoRow
      BY <2>2, CopyFields, <1>2 DEF Current, NoRow, Live
    <3>2. r \in asked /\ (LastId(page) = 0 \/ r[2] <= LastId(page))
      BY <1>1, <2>2 DEF InPage, Above
    <3>3. r \in page
      BY <1>3, <3>2, LastOfPage
    <3> QED BY <1>4, <2>2, <3>1, <3>3
  <2>3. Live(r)' <=> Live(r)
    BY <1>2 DEF Live
  <2> QED BY <1>4, <2>1, <2>2, <2>3
<1>8. DoneOf(w)'
  BY <1>1 DEF DoneOf
<1> QED BY <1>2, <1>6, <1>7, <1>8, LoneMoves

LEMMA PollBeginLone ==
  ASSUME BaseInv, OneWorker, LoneInv, NEW w \in Workers, PollBegin(w)
  PROVE  LoneInv'
<1>1. wk'[w].pc = "reading" /\ wk'[w].task = Poll /\ wk'[w].start = now /\ wk'[w].since = resume_cursor
  BY PollBeginBase
<1>2. UNCHANGED <<src, raw, canon, bf, cdc, queue, lost>>
  BY DEF PollBegin, copy
<1>3. resume_cursor' = resume_cursor /\ resume_cursor <= now - Overlap
  BY <1>2 DEF resume_cursor, BaseInv, TimeInv
<1>4. ~OnPage(w)' /\ ~OnPoll(w)'
  BY <1>1 DEF OnPage, OnPoll
<1>5. LoadOf(w)' /\ HandRows(w)' /\ DoneOf(w)'
  BY <1>1, <1>3, <1>4 DEF LoadOf, HandRows, DoneOf
<1> QED BY <1>2, <1>5, LoneMoves

LEMMA PollFetchLone ==
  ASSUME BaseInv, OneWorker, LoneInv, NEW w \in Workers, PollFetch(w)
  PROVE  LoneInv'
<1>1. wk'[w].pc = "fetched" /\ wk'[w].task = wk[w].task /\ wk'[w].start = wk[w].start
  BY PollFetchBase
<1>2. PICK S \in SUBSET Changed(wk[w].since) :
        wk'[w].rows = Answer(S) /\ lost' = lost \cup (Changed(wk[w].since) \ S)
  BY PollFetchBase
<1>3. /\ UNCHANGED <<src, raw, canon, bf, cdc, queue>> /\ TypeOK /\ wk[w].pc = "reading"
      /\ wk[w].task = Poll /\ Kind(wk[w].task) # "page"
  BY NoRows DEF PollFetch, BaseInv, WorkInv
<1>4. OnPoll(w)' /\ ~OnPage(w)'
  BY <1>1, <1>3 DEF OnPage, OnPoll
<1>5. wk[w].since = resume_cursor /\ resume_cursor <= wk[w].start - Overlap /\ resume_cursor' = resume_cursor
  BY <1>3 DEF LoneInv, WorkerInv, LoadOf, resume_cursor
<1>6. LoadOf(w)'
  BY <1>1, <1>4, <1>5 DEF LoadOf
<1>7. \A r \in Recs : wk'[w].rows[r] = IF r \in S THEN Current(r) ELSE NoRow
  BY <1>2, <1>3, AnswerFields
<1>8. HandRows(w)'
  <2> SUFFICES ASSUME NEW r \in Recs
               PROVE  /\ wk'[w].rows[r] # NoRow => wk'[w].rows[r] = Current(r)'
                      /\ wk'[w].rows[r] = NoRow => r \in lost' \/ Holds(r)'
    BY <1>4 DEF HandRows
  <2>1. Current(r)' = Current(r) /\ (Holds(r)' <=> Holds(r))
    BY <1>3 DEF Current, Holds, Live
  <2>2. ASSUME wk'[w].rows[r] = NoRow, r \notin lost' PROVE Holds(r)
    <3>1. src[r].ver = 0 => Holds(r)
      BY <1>3, CopyFields DEF BaseInv, SrcInv, Holds, Live
    <3>2. r \in S => Current(r) = NoRow
      BY <1>7, <2>2
    <3>3. Current(r) = NoRow => src[r].ver = 0
      BY DEF Current, NoRow
    <3>4. r \notin S /\ src[r].ver > 0 => ~(src[r].upd >= resume_cursor)
      BY <1>2, <1>5, <2>2 DEF Changed
    <3>5. src[r].ver > 0 \/ src[r].ver = 0
      BY <1>3, CopyFields
    <3> QED BY <2>2, <1>2, <3>1, <3>2, <3>3, <3>4, <3>5 DEF LoneInv, MissInv
  <2> QED BY <1>7, <2>1, <2>2
<1>9. DoneOf(w)'
  BY <1>1 DEF DoneOf
<1> QED BY <1>2, <1>3, <1>6, <1>8, <1>9, LoneMoves

LEMMA LoadLone ==
  ASSUME BaseInv, OneWorker, LoneInv, NEW w \in Workers, LoadStore(w) \/ NormalizeLoad(w)
  PROVE  LoneInv'
<1>1. /\ wk'[w].pc = "loaded" /\ wk'[w].task = wk[w].task /\ wk'[w].start = wk[w].start
      /\ wk'[w].rows = wk[w].rows /\ wk'[w].last = wk[w].last /\ wk'[w].cur = raw
      /\ LoadStore(w) => wk'[w].done = bf.done
  BY LoadBase
<1>2. UNCHANGED <<src, raw, canon, bf, cdc, queue, lost>>
  BY DEF LoadStore, NormalizeLoad, copy
<1>3. resume_cursor' = resume_cursor /\ (RunOpen(wk[w].task)' <=> RunOpen(wk[w].task))
  BY <1>1, <1>2 DEF resume_cursor, RunOpen
<1>4. LoadOf(w) /\ HandRows(w)
  BY DEF LoneInv, WorkerInv
<1>5. CASE LoadStore(w)
  <2>1. wk[w].pc = "fetched" /\ Kind(wk[w].task) # "norm"
    BY <1>5 DEF LoadStore, BaseInv, WorkInv
  <2>2. (OnPoll(w)' <=> OnPoll(w)) /\ (OnPage(w)' <=> OnPage(w))
    BY <1>1, <2>1 DEF OnPoll, OnPage
  <2>3. LoadOf(w)'
    BY <1>1, <1>2, <1>3, <1>4, <1>5, <2>1, <2>2 DEF LoadOf
  <2>4. HandRows(w)'
    <3>1. \A r \in Recs : /\ Current(r)' = Current(r) /\ (Holds(r)' <=> Holds(r)) /\ (Live(r)' <=> Live(r))
                          /\ (Covered(r)' <=> Covered(r)) /\ (InPage(w, r)' <=> InPage(w, r))
      BY <1>1, <1>2 DEF Current, Holds, Live, Covered, PageOf, InPage
    <3>2. \A r \in Recs : Late(w, r)' <=> Late(w, r)
      BY <1>1, <1>2, <1>3, <2>2, <3>1 DEF Late
    <3> QED BY <1>1, <1>2, <1>4, <2>2, <3>1, <3>2 DEF HandRows
  <2>5. DoneOf(w)'
    BY <1>1 DEF DoneOf
  <2> QED BY <1>2, <2>3, <2>4, <2>5, LoneMoves
<1>6. CASE NormalizeLoad(w)
  <2>1. Kind(wk[w].task) = "norm" /\ raw[wk[w].task[2]].n = wk[w].task[3] /\ wk[w].task # Poll
    BY <1>6, NoRows DEF NormalizeLoad
  <2>2. ~OnPoll(w)' /\ ~OnPage(w)'
    BY <1>1, <2>1 DEF OnPoll, OnPage
  <2>3. LoadOf(w)' /\ HandRows(w)' /\ DoneOf(w)'
    BY <1>1, <1>2, <2>1, <2>2 DEF LoadOf, HandRows, DoneOf
  <2> QED BY <1>2, <2>3, LoneMoves
<1> QED BY <1>5, <1>6

\* The worker gives its task up, or has nothing to do for it.
LEMMA EndLone ==
  ASSUME BaseInv, OneWorker, LoneInv, NEW w \in Workers, NEW gone,
         gone <=> \/ StoreRefused(w) \/ Fail(w),
         gone \/ PageReturns(w) \/ PageLate(w) \/ NormalizeSkip(w)
  PROVE  BaseInv' /\ LoneInv'
<1>1. /\ wk[w].pc # "idle" /\ UNCHANGED <<now, src, raw, canon, bf, cdc, queue, lost>> /\ faults' \in 0..MaxFaults
      /\ \/ gone /\ wk' = [wk EXCEPT ![w] = Idle]
         \/ ~gone /\ wk' = [wk EXCEPT ![w] = Finished(@)]
  <2>1. faults \in 0..MaxFaults
    BY DEF BaseInv, TypeOK
  <2>2. Fail(w) => faults + 1 \in 0..MaxFaults
    BY <2>1, Numbers DEF Fail
  <2> QED BY <2>1, <2>2 DEF StoreRefused, Fail, PageReturns, PageLate, NormalizeSkip, copy
<1> DEFINE k == IF gone THEN Idle ELSE Finished(wk[w])
<1>2. k \in {Idle, Finished(wk[w])} /\ wk' = [wk EXCEPT ![w] = k]
  BY <1>1
<1>3. k.pc = IF gone THEN "idle" ELSE "done"
  BY IdleFields, WorkFields DEF BaseInv
<1>4. ~gone => k.task = wk[w].task
  BY IdleFields, WorkFields DEF BaseInv
<1> HIDE DEF k
<1>5. BaseInv' /\ wk'[w] = k
  BY <1>1, <1>2, EndBase
<1>6. LoadOf(w)' /\ HandRows(w)' /\ (gone => DoneOf(w)')
  BY <1>3, <1>5, Resting
<1>7. ~gone => DoneOf(w)'
  <2>1. CASE PageReturns(w) \/ PageLate(w)
    <3>1. Kind(wk[w].task) = "page" /\ ~(bf.outcome = "open" /\ wk[w].task[2] = bf.runs)
      BY <2>1 DEF PageReturns, PageLate, RunOpen
    <3> QED BY <1>1, <1>4, <1>5, <3>1 DEF DoneOf
  <2>2. CASE NormalizeSkip(w)
    <3>1. Kind(wk[w].task) = "norm" /\ raw[wk[w].task[2]].n # wk[w].task[3]
      BY <2>2 DEF NormalizeSkip
    <3> QED BY <1>1, <1>4, <1>5, <3>1 DEF DoneOf
  <2> QED BY <2>1, <2>2
<1> QED BY <1>1, <1>5, <1>6, <1>7, LoneMoves

LEMMA ClaimLone ==
  ASSUME BaseInv, OneWorker, LoneInv, NEW w \in Workers, NEW t \in queue, Claim(w, t)
  PROVE  LoneInv'
<1>1. wk'[w].pc = "claimed" /\ UNCHANGED <<src, raw, canon, bf, cdc, queue, lost>>
  BY ClaimBase DEF Claim, copy
<1> QED BY <1>1, Resting, LoneMoves

-----------------------------------------------------------------------------
(* One worker: QuickBooks, the clock and what is queued.                     *)

LEMMA ChangeLone ==
  ASSUME BaseInv, OneWorker, LoneInv, NEW r \in Recs, NEW gone \in BOOLEAN, Change(r, gone)
  PROVE  LoneInv'
<1>1. /\ UNCHANGED <<now, raw, canon, bf, cdc, lost, queue, wk>>
      /\ src'[r].upd \in Nat /\ now - Overlap <= src'[r].upd
      /\ \A q \in Recs \ {r} : src'[q] = src[q]
  BY ChangeBase DEF copy
<1>2. /\ TypeOK /\ now \in Nat /\ resume_cursor \in Int /\ bf.since \in Nat /\ resume_cursor' = resume_cursor
      /\ resume_cursor <= now - Overlap /\ bf.since <= now - Overlap
  BY <1>1, CopyFields DEF BaseInv, TimeInv, resume_cursor
<1>3. src'[r].upd >= resume_cursor /\ src'[r].upd >= bf.since
  BY <1>1, <1>2, Numbers
<1>4. \A w \in Workers : OnPoll(w) => src'[r].upd >= wk[w].start - Overlap
  <2> SUFFICES ASSUME NEW w \in Workers, OnPoll(w) PROVE src'[r].upd >= wk[w].start - Overlap
    OBVIOUS
  <2>1. wk[w].start <= now /\ wk[w].start \in Nat
    BY <1>2, WorkFields DEF BaseInv, TimeInv, OnPoll
  <2> QED BY <1>1, <1>2, <2>1, Numbers
<1>5. \A q \in Recs \ {r} : (Live(q)' <=> Live(q)) /\ (Holds(q)' <=> Holds(q)) /\ Current(q)' = Current(q)
  BY <1>1 DEF Live, Holds, Current
<1>6. \A q \in Recs : Covered(q)' <=> Covered(q)
  BY <1>1 DEF Covered, PageOf
<1>7. MissInv'
  <2> SUFFICES ASSUME NEW q \in Recs
               PROVE  /\ q \in lost \/ Holds(q)' \/ src'[q].upd >= resume_cursor
                      /\ Covered(q) /\ Live(q)' => Holds(q)' \/ src'[q].upd >= bf.since
                      /\ bf.outcome = "open" /\ resume_cursor = NoCursor =>
                           Holds(q)' \/ Live(q)' \/ src'[q].upd >= bf.since
    BY <1>1, <1>2, <1>6 DEF MissInv
  <2>1. CASE q = r
    BY <1>3, <2>1
  <2>2. CASE q # r
    BY <1>1, <1>5, <2>2 DEF LoneInv, MissInv
  <2> QED BY <2>1, <2>2
<1>8. WorkerInv'
  <2> SUFFICES ASSUME NEW w \in Workers PROVE LoadOf(w)' /\ HandRows(w)' /\ DoneOf(w)'
    BY DEF WorkerInv
  <2>1. LoadOf(w) /\ HandRows(w) /\ DoneOf(w)
    BY DEF LoneInv, WorkerInv
  <2>2. (OnPoll(w)' <=> OnPoll(w)) /\ (OnPage(w)' <=> OnPage(w))
    BY <1>1 DEF OnPoll, OnPage
  <2>3. LoadOf(w)'
    BY <1>1, <1>2, <2>1, <2>2 DEF LoadOf, RunOpen
  <2>4. DoneOf(w)'
    BY <1>1, <2>1 DEF DoneOf, PageOf
  <2>5. Late(w, r)'
    BY <1>1, <1>2, <1>3, <1>4, <2>2 DEF Late
  <2>6. \A q \in Recs \ {r} : Late(w, q) => Late(w, q)'
    BY <1>1, <1>2, <1>6, <2>2 DEF Late
  <2>7. \A q \in Recs : InPage(w, q)' <=> InPage(w, q)
    BY <1>1 DEF InPage
  <2>8. HandRows(w)'
    <3> SUFFICES ASSUME NEW q \in Recs
                 PROVE  /\ (OnPoll(w) \/ OnPage(w)) /\ wk[w].rows[q] # NoRow =>
                             wk[w].rows[q] = Current(q)' \/ Late(w, q)'
                        /\ OnPoll(w) /\ wk[w].rows[q] = NoRow =>
                             q \in lost \/ Holds(q)' \/ src'[q].upd >= wk[w].start - Overlap
                        /\ OnPage(w) /\ wk[w].rows[q] = NoRow /\ Live(q)' /\ InPage(w, q) => src'[q].upd >= bf.since
      BY <1>1, <2>2, <2>7 DEF HandRows
    <3>1. CASE q = r
      BY <1>3, <1>4, <2>5, <3>1
    <3>2. CASE q # r
      <4>1. src'[q] = src[q] /\ (Live(q)' <=> Live(q)) /\ (Holds(q)' <=> Holds(q)) /\ Current(q)' = Current(q)
        BY <1>1, <1>5, <3>2
      <4> QED BY <2>1, <2>6, <3>2, <4>1 DEF HandRows
    <3> QED BY <3>1, <3>2
  <2> QED BY <2>3, <2>4, <2>8
<1>9. CanonFollows' /\ BackfillProgresses'
  BY <1>1 DEF LoneInv, CanonFollows, BackfillProgresses
<1> QED BY <1>7, <1>8, <1>9 DEF LoneInv

LEMMA TickLone ==
  ASSUME LoneInv, Tick
  PROVE  LoneInv'
<1>1. UNCHANGED <<src, raw, canon, bf, cdc, lost, queue, wk>>
  BY DEF Tick, copy
<1>2. resume_cursor' = resume_cursor
  BY <1>1 DEF resume_cursor
<1>3. \A r \in Recs : /\ Current(r)' = Current(r) /\ (Holds(r)' <=> Holds(r)) /\ (Live(r)' <=> Live(r))
                      /\ (Covered(r)' <=> Covered(r))
  BY <1>1 DEF Current, Holds, Live, Covered, PageOf
<1>4. MissInv'
  BY <1>1, <1>2, <1>3 DEF LoneInv, MissInv
<1>5. WorkerInv'
  <2> SUFFICES ASSUME NEW w \in Workers PROVE LoadOf(w)' /\ HandRows(w)' /\ DoneOf(w)'
    BY DEF WorkerInv
  <2>1. LoadOf(w) /\ HandRows(w) /\ DoneOf(w)
    BY DEF LoneInv, WorkerInv
  <2>2. (OnPoll(w)' <=> OnPoll(w)) /\ (OnPage(w)' <=> OnPage(w))
    BY <1>1 DEF OnPoll, OnPage
  <2>3. LoadOf(w)'
    BY <1>1, <1>2, <2>1, <2>2 DEF LoadOf, RunOpen
  <2>4. DoneOf(w)'
    BY <1>1, <2>1 DEF DoneOf, PageOf
  <2>5. \A r \in Recs : (Late(w, r)' <=> Late(w, r)) /\ (InPage(w, r)' <=> InPage(w, r))
    BY <1>1, <1>2, <1>3, <2>2 DEF Late, InPage
  <2>6. HandRows(w)'
    BY <1>1, <1>3, <2>1, <2>2, <2>5 DEF HandRows
  <2> QED BY <2>3, <2>4, <2>6
<1>6. CanonFollows' /\ BackfillProgresses'
  BY <1>1 DEF LoneInv, CanonFollows, BackfillProgresses
<1> QED BY <1>4, <1>5, <1>6 DEF LoneInv

LEMMA QueuePollLone ==
  ASSUME BaseInv, LoneInv, QueuePoll
  PROVE  LoneInv'
<1>1. UNCHANGED <<src, raw, canon, bf, cdc, lost, wk>> /\ queue' = queue \cup {Poll}
  BY DEF QueuePoll, copy
<1>2. resume_cursor' = resume_cursor
  BY <1>1 DEF resume_cursor
<1>3. \A t \in queue' : Kind(t) = "page" => t \in queue
  BY <1>1, NoRows
<1>4. \A r \in Recs : (\E t \in queue' : PageOf(t, r[1])' /\ r[2] <= t[4])
                        <=> \E t \in queue : PageOf(t, r[1]) /\ r[2] <= t[4]
  BY <1>1, <1>3 DEF PageOf
<1>5. \A r \in Recs : /\ Current(r)' = Current(r) /\ (Holds(r)' <=> Holds(r)) /\ (Live(r)' <=> Live(r))
                      /\ (Covered(r)' <=> Covered(r))
  BY <1>1, <1>4 DEF Current, Holds, Live, Covered
<1>6. MissInv'
  BY <1>1, <1>2, <1>5 DEF LoneInv, MissInv
<1>7. WorkerInv'
  <2> SUFFICES ASSUME NEW w \in Workers PROVE LoadOf(w)' /\ HandRows(w)' /\ DoneOf(w)'
    BY DEF WorkerInv
  <2>1. LoadOf(w) /\ HandRows(w) /\ DoneOf(w)
    BY DEF LoneInv, WorkerInv
  <2>2. (OnPoll(w)' <=> OnPoll(w)) /\ (OnPage(w)' <=> OnPage(w))
    BY <1>1 DEF OnPoll, OnPage
  <2>3. LoadOf(w)'
    BY <1>1, <1>2, <2>1, <2>2 DEF LoadOf, RunOpen
  <2>4. DoneOf(w)'
    <3>1. \A u \in queue, e \in Entities : u \in queue' /\ (PageOf(u, e)' <=> PageOf(u, e))
      BY <1>1 DEF PageOf
    <3>2. wk[w].task \in queue \cup {NoTask}
      BY DEF BaseInv, TypeOK
    <3> QED BY <1>1, <2>1, <3>1 DEF DoneOf, PageOf
  <2>5. \A r \in Recs : (Late(w, r)' <=> Late(w, r)) /\ (InPage(w, r)' <=> InPage(w, r))
    BY <1>1, <1>2, <1>5, <2>2 DEF Late, InPage
  <2>6. HandRows(w)'
    BY <1>1, <1>5, <2>1, <2>2, <2>5 DEF HandRows
  <2> QED BY <2>3, <2>4, <2>6
<1>8. CanonFollows' /\ BackfillProgresses'
  BY <1>1 DEF LoneInv, CanonFollows, BackfillProgresses
<1> QED BY <1>6, <1>7, <1>8 DEF LoneInv

LEMMA StartBackfillLone ==
  ASSUME BaseInv, LoneInv, StartBackfill
  PROVE  LoneInv'
<1>1. /\ UNCHANGED <<now, src, raw, canon, cdc, wk, lost>>
      /\ bf'.outcome = "open" /\ bf'.runs = bf.runs + 1 /\ bf'.since = now - Overlap
      /\ bf'.done = {} /\ bf'.cursor = bf.cursor
      /\ queue' = queue \cup {<<"page", bf.runs + 1, e, 0>> : e \in Entities}
  BY StartBackfillBase
<1>2. bf.outcome # "open" /\ TypeOK /\ bf.runs \in Nat /\ resume_cursor' = resume_cursor
  BY <1>1, CopyFields DEF StartBackfill, BaseInv, resume_cursor
<1>3. \A t \in queue : t \in Tasks /\ (Kind(t) = "page" => t[2] <= bf.runs /\ t[2] \in Nat)
  BY <1>2, TaskFields DEF BaseInv, TaskInv, TypeOK
<1>4. \A t \in queue : Kind(t) = "page" => t[2] # bf'.runs
  BY <1>1, <1>2, <1>3
<1>5. \A r \in Recs : ~Covered(r)'
  <2> SUFFICES ASSUME NEW r \in Recs, NEW t \in queue', PageOf(t, r[1])', r[2] <= t[4] PROVE FALSE
    BY <1>1 DEF Covered
  <2>1. t \notin queue
    BY <1>4 DEF PageOf
  <2>2. PICK e \in Entities : t = <<"page", bf.runs + 1, e, 0>>
    BY <1>1, <2>1
  <2>3. t[4] = 0 /\ r[2] \in Nat \ {0}
    BY <2>2, Numbers
  <2> QED BY <2>3
<1>6. \A r \in Recs : Current(r)' = Current(r) /\ (Holds(r)' <=> Holds(r)) /\ (Live(r)' <=> Live(r))
  BY <1>1 DEF Current, Holds, Live
<1>7. MissInv'
  <2>1. \A r \in Recs : resume_cursor = NoCursor => Holds(r) \/ Live(r)
    BY <1>2, CopyFields, Numbers DEF BaseInv, TaskInv, resume_cursor, Holds
  <2> QED BY <1>1, <1>2, <1>5, <1>6, <2>1 DEF LoneInv, MissInv
<1>8. WorkerInv'
  <2> SUFFICES ASSUME NEW w \in Workers PROVE LoadOf(w)' /\ HandRows(w)' /\ DoneOf(w)'
    BY DEF WorkerInv
  <2>1. LoadOf(w) /\ HandRows(w) /\ DoneOf(w)
    BY DEF LoneInv, WorkerInv
  <2>2. (OnPoll(w)' <=> OnPoll(w)) /\ ~OnPage(w) /\ ~OnPage(w)'
    BY <1>1, <1>2, <2>1 DEF OnPoll, OnPage, LoadOf, RunOpen
  <2>3. LoadOf(w)'
    <3>1. ~(wk[w].pc = "loaded" /\ Kind(wk[w].task) = "page")
      BY <2>2 DEF OnPage
    <3> QED BY <1>1, <1>2, <2>1, <2>2, <3>1 DEF LoadOf
  <2>4. DoneOf(w)'
    <3>1. Kind(wk[w].task) = "page" => wk[w].task[2] # bf'.runs
      BY <1>2, <1>4, WorkFields, NoRows
    <3> QED BY <1>1, <2>1, <3>1 DEF DoneOf
  <2>5. \A r \in Recs : Late(w, r) => Late(w, r)'
    BY <1>1, <1>2, <1>5, <2>2 DEF Late
  <2>6. HandRows(w)'
    BY <1>1, <1>6, <2>1, <2>2, <2>5 DEF HandRows
  <2> QED BY <2>3, <2>4, <2>6
<1>9. CanonFollows'
  BY <1>1 DEF LoneInv, CanonFollows
<1>10. BackfillProgresses'
  <2> SUFFICES ASSUME NEW e \in Entities
               PROVE  \E t \in queue' : Kind(t) = "page" /\ t[2] = bf'.runs /\ t[3] = e
    BY DEF BackfillProgresses
  <2> DEFINE t == <<"page", bf.runs + 1, e, 0>>
  <2>1. t \in queue' /\ Kind(t) = "page" /\ t[2] = bf'.runs /\ t[3] = e
    BY <1>1 DEF Kind
  <2> QED BY <2>1
<1> QED BY <1>7, <1>8, <1>9, <1>10 DEF LoneInv

-----------------------------------------------------------------------------
(* One worker: its commits.                                                  *)

LEMMA NormalizeCommitLone ==
  ASSUME BaseInv, OneWorker, LoneInv, NEW w \in Workers, NormalizeCommit(w)
  PROVE  LoneInv'
<1>1. PICK r \in Recs : wk[w].task[2] = r
  BY NormalizeCommitBase
<1>2. /\ wk'[w].pc = "done" /\ wk'[w].task = wk[w].task /\ UNCHANGED <<src, raw, bf, cdc, queue, lost>>
      /\ Kind(wk[w].task) = "norm" /\ wk[w].task[3] \in Nat \ {0} /\ canon' \in [Recs -> Row]
      /\ canon'[r] = Applied(canon[r], wk[w].cur[r]) /\ \A q \in Recs \ {r} : canon'[q] = canon[q]
  BY <1>1, NormalizeCommitBase
<1>3. TypeOK /\ wk[w].cur = raw /\ raw[r].n = wk[w].task[3] /\ canon[r] \in Row /\ raw[r] \in RawRow
  BY <1>1, <1>2, CopyFields DEF NormalizeCommit, LoneInv, WorkerInv, LoadOf, BaseInv
<1>4. raw[r].n > 0 /\ canon'[r] = Applied(canon'[r], raw[r])
  BY <1>2, <1>3, AppliedFields
<1>5. DoneOf(w)'
  BY <1>1, <1>2, <1>4 DEF DoneOf
<1>6. WorkerInv'
  BY <1>2, <1>5, Resting, Alone
<1>7. CanonFollows'
  <2> SUFFICES ASSUME NEW q \in Recs
               PROVE  \/ <<"norm", q, raw[q].n>> \in queue
                      \/ raw[q].n = 0 /\ canon'[q] = NoRow
                      \/ raw[q].n > 0 /\ canon'[q] = Applied(canon'[q], raw[q])
    BY <1>2 DEF CanonFollows
  <2> QED BY <1>2, <1>4 DEF LoneInv, CanonFollows
<1>8. \A q \in Recs : (Holds(q)' <=> Holds(q)) /\ (Live(q)' <=> Live(q)) /\ (Covered(q)' <=> Covered(q))
  BY <1>2 DEF Holds, Live, Covered, PageOf
<1>9. MissInv' /\ BackfillProgresses'
  BY <1>2, <1>8 DEF LoneInv, MissInv, BackfillProgresses, resume_cursor
<1> QED BY <1>6, <1>7, <1>9 DEF LoneInv

LEMMA CompleteLone ==
  ASSUME BaseInv, OneWorker, LoneInv, NEW w \in Workers, Complete(w)
  PROVE  LoneInv'
<1> DEFINE t == wk[w].task
<1>1. /\ wk'[w] = Idle /\ wk[w].pc = "done" /\ t \in Tasks
      /\ queue' = queue \ {t} /\ UNCHANGED <<src, raw, canon, bf, cdc, lost>>
  BY CompleteBase
<1>2. WorkerInv'
  <2>1. wk'[w].pc = "idle"
    BY <1>1, IdleFields
  <2> QED BY <2>1, Resting, Alone
<1>3. DoneOf(w)
  BY DEF LoneInv, WorkerInv
<1>4. MissInv'
  <2>1. \A q \in Recs : (Holds(q)' <=> Holds(q)) /\ (Live(q)' <=> Live(q)) /\ (Covered(q)' => Covered(q))
    BY <1>1 DEF Holds, Live, Covered, PageOf
  <2> QED BY <1>1, <2>1 DEF LoneInv, MissInv, resume_cursor
<1>5. CanonFollows'
  <2> SUFFICES ASSUME NEW r \in Recs, t = <<"norm", r, raw[r].n>>
               PROVE  raw[r].n > 0 /\ canon[r] = Applied(canon[r], raw[r])
    BY <1>1 DEF LoneInv, CanonFollows
  <2>1. Kind(t) = "norm" /\ t[2] = r /\ t[3] = raw[r].n
    BY DEF Kind
  <2>2. t[3] \in Nat \ {0}
    BY <1>1, <2>1, TaskFields
  <2> HIDE DEF t
  <2>3. canon[r] = Applied(canon[r], raw[r])
    BY <1>1, <1>3, <2>1 DEF DoneOf, t
  <2>4. raw[r].n \in Nat /\ raw[r].n # 0
    BY <2>1, <2>2
  <2> QED BY <2>3, <2>4
<1>6. BackfillProgresses'
  <2> SUFFICES ASSUME bf.outcome = "open", NEW e \in Entities \ bf.done
               PROVE  \E u \in queue' : Kind(u) = "page" /\ u[2] = bf.runs /\ u[3] = e
    BY <1>1 DEF BackfillProgresses
  <2>1. PICK u \in queue : Kind(u) = "page" /\ u[2] = bf.runs /\ u[3] = e
    BY DEF LoneInv, BackfillProgresses
  <2>2. CASE u = t
    <3>1. \E v \in queue : v # t /\ PageOf(v, e)
      BY <1>1, <1>3, <2>1, <2>2 DEF DoneOf
    <3> QED BY <1>1, <3>1 DEF PageOf
  <2>3. CASE u # t
    BY <1>1, <2>1, <2>3
  <2> QED BY <2>2, <2>3
<1> QED BY <1>2, <1>4, <1>5, <1>6 DEF LoneInv

\* What the worker read is stored: where QuickBooks still says it, the copy agrees.
LEMMA StoreHolds ==
  ASSUME BaseInv, LoneInv, NEW w \in Workers, wk[w].pc = "loaded", Kind(wk[w].task) \in {"page", "poll"},
         raw' = RawAfter(w), src' = src
  PROVE  /\ \A r \in Recs : /\ wk[w].rows[r] = NoRow => raw'[r] = raw[r]
                            /\ wk[w].rows[r] # NoRow /\ wk[w].rows[r] = Current(r) => Holds(r)'
                            /\ raw'[r] # raw[r] => r \in News(w)
<1>1. TypeOK /\ wk[w].cur = raw /\ \A r \in Recs : wk[w].rows[r] \in Row /\ raw[r] \in RawRow
  BY WorkFields, CopyFields DEF BaseInv, LoneInv, WorkerInv, LoadOf
<1>2. \A r \in Recs : raw'[r] = Stored(raw[r], wk[w].rows[r]) /\ (r \notin News(w) => raw'[r] = raw[r])
  BY <1>1, RawAfterFields
<1>3. ASSUME NEW r \in Recs, wk[w].rows[r] = NoRow PROVE raw'[r] = raw[r]
  BY <1>2, <1>3 DEF Stored
<1>4. ASSUME NEW r \in Recs, wk[w].rows[r] # NoRow, wk[w].rows[r] = Current(r) PROVE Holds(r)'
  <2> DEFINE row == wk[w].rows[r]
  <2>1. row.ver = src[r].ver /\ row.deleted = src[r].deleted /\ row # NoRow
    BY <1>4 DEF Current
  <2>2. src[r].ver # 0
    <3> SUFFICES ASSUME src[r].ver = 0 PROVE FALSE
      OBVIOUS
    <3>1. src[r].deleted = FALSE
      BY <1>1, CopyFields DEF BaseInv, SrcInv
    <3> QED BY <1>4, <3>1 DEF Current, NoRow
  <2>3. /\ src[r].ver \in Nat /\ raw[r].n \in Nat /\ src[r].deleted \in BOOLEAN /\ raw[r].ver \in Nat
        /\ raw[r].deleted \in BOOLEAN
    BY <1>1, CopyFields
  <2> HIDE DEF row
  <2>4. raw'[r] = Stored(raw[r], row)
    BY <1>2 DEF row
  <2>5. CASE Same(raw[r], row)
    <3>1. raw'[r] = raw[r]
      BY <2>4, <2>5 DEF Stored
    <3> QED BY <2>1, <2>2, <2>3, <2>5, <3>1 DEF Same, Holds, Live
  <2>6. CASE ~Same(raw[r], row)
    <3>1. raw'[r] = [n |-> raw[r].n + 1, deleted |-> row.deleted,
                     ver |-> IF row.deleted THEN raw[r].ver ELSE row.ver]
      BY <2>1, <2>4, <2>6 DEF Stored
    <3> QED BY <2>1, <2>2, <2>3, <3>1 DEF Holds, Live
  <2> QED BY <2>5, <2>6
<1> QED BY <1>2, <1>3, <1>4

LEMMA CanonAfterStore ==
  ASSUME BaseInv, LoneInv, NEW w \in Workers, wk[w].pc = "loaded", Kind(wk[w].task) \in {"page", "poll"},
         raw' = RawAfter(w), UNCHANGED <<src, canon>>,
         queue \subseteq queue', NormalizeTasks(w) \subseteq queue'
  PROVE  CanonFollows'
<1> SUFFICES ASSUME NEW r \in Recs
             PROVE  \/ <<"norm", r, raw'[r].n>> \in queue'
                    \/ raw'[r].n = 0 /\ canon[r] = NoRow
                    \/ raw'[r].n > 0 /\ canon[r] = Applied(canon[r], raw'[r])
  BY DEF CanonFollows
<1>1. CASE r \in News(w)
  BY <1>1 DEF NormalizeTasks
<1>2. CASE r \notin News(w)
  BY <1>2, StoreHolds DEF LoneInv, CanonFollows
<1> QED BY <1>1, <1>2

LEMMA PollCommitLone ==
  ASSUME BaseInv, OneWorker, LoneInv, NEW w \in Workers, PollCommit(w)
  PROVE  LoneInv'
<1>1. /\ wk'[w].pc = "done" /\ wk'[w].task = wk[w].task
      /\ cdc' = wk[w].start - Overlap /\ cdc' \in Nat /\ UNCHANGED <<src, canon, bf, lost>>
  BY PollCommitBase
<1>2. /\ wk[w].pc = "loaded" /\ wk[w].task = Poll /\ Kind(wk[w].task) = "poll" /\ raw' = RawAfter(w)
      /\ queue' = queue \cup NormalizeTasks(w) /\ TypeOK
  BY NoRows DEF PollCommit, BaseInv
<1>3. OnPoll(w) /\ LoadOf(w) /\ HandRows(w)
  BY <1>2 DEF OnPoll, LoneInv, WorkerInv
<1>4. resume_cursor' = wk[w].start - Overlap /\ resume_cursor' # NoCursor
  BY <1>1, Numbers DEF resume_cursor
<1>5. DoneOf(w)'
  BY <1>1, <1>2 DEF DoneOf
<1>6. WorkerInv'
  BY <1>1, <1>5, Resting, Alone
<1>7. CanonFollows'
  BY <1>1, <1>2, CanonAfterStore
<1>8. BackfillProgresses'
  BY <1>1, <1>2 DEF LoneInv, BackfillProgresses
<1>9. \A t \in queue' : Kind(t) = "page" => t \in queue
  BY <1>2, NormFields
<1>10. \A r \in Recs : Covered(r)' => Covered(r)
  BY <1>1, <1>9 DEF Covered, PageOf
<1>11. MissInv'
  <2> SUFFICES ASSUME NEW r \in Recs
               PROVE  /\ r \in lost \/ Holds(r)' \/ src[r].upd >= wk[w].start - Overlap
                      /\ Covered(r) /\ Live(r) => Holds(r)' \/ src[r].upd >= bf.since
    BY <1>1, <1>4, <1>10 DEF MissInv, Live
  <2>1. CASE wk[w].rows[r] = NoRow
    <3>1. Holds(r)' <=> Holds(r)
      BY <1>1, <1>2, <2>1, StoreHolds DEF Holds, Live
    <3> QED BY <1>3, <2>1, <3>1 DEF HandRows, LoneInv, MissInv
  <2>2. CASE wk[w].rows[r] # NoRow
    <3>1. wk[w].rows[r] = Current(r) => Holds(r)'
      BY <1>1, <1>2, <2>2, StoreHolds
    <3> QED BY <1>3, <2>2, <3>1 DEF HandRows, Late
  <2> QED BY <2>1, <2>2
<1> QED BY <1>6, <1>7, <1>8, <1>11 DEF LoneInv

LEMMA PageCommitLone ==
  ASSUME BaseInv, OneWorker, LoneInv, NEW w \in Workers, PageCommit(w)
  PROVE  LoneInv'
<1> DEFINE t == wk[w].task
<1>1. /\ wk'[w].pc = "done" /\ wk'[w].task = t
      /\ UNCHANGED <<src, canon, cdc>>
      /\ bf'.runs = bf.runs /\ bf'.since = bf.since
      /\ Finishes(w) => bf'.outcome = "succeeded" /\ bf'.cursor = bf.since /\ bf'.done = Entities
      /\ ~Finishes(w) => /\ bf'.outcome = bf.outcome /\ bf'.cursor = bf.cursor /\ UNCHANGED lost
                         /\ bf'.done = IF bf.runs = t[2] THEN DoneAfter(w) ELSE bf.done
  BY PageCommitBase
<1>2. /\ wk[w].pc = "loaded" /\ Kind(t) = "page" /\ raw' = RawAfter(w)
      /\ queue' = queue \cup NormalizeTasks(w) \cup NextPage(w) /\ TypeOK
      /\ Finishes(w) => lost' = lost \cup Unasked
  BY DEF PageCommit, BaseInv
<1>3. OnPage(w) /\ ~OnPoll(w) /\ LoadOf(w) /\ HandRows(w)
  BY <1>2, NoRows DEF OnPage, OnPoll, LoneInv, WorkerInv
<1>4. /\ bf.outcome = "open" /\ bf.runs = t[2] /\ wk[w].done = bf.done
      /\ (wk[w].last # 0 => wk[w].last > t[4])
  BY <1>2, <1>3 DEF LoadOf, RunOpen
<1>5. /\ t \in queue /\ t \in Tasks /\ t[2] \in 1..MaxRuns /\ t[3] \in Entities /\ t[4] \in Nat
      /\ wk[w].last \in Nat /\ wk[w].last \in Ids
  BY <1>2, WorkFields, NoRows, TaskFields, Numbers DEF TypeOK
<1>6. DoneAfter(w) = IF wk[w].last = 0 THEN bf.done \cup {t[3]} ELSE bf.done
  BY <1>4 DEF DoneAfter
<1>7. \A u \in NextPage(w) : wk[w].last # 0 /\ Kind(u) = "page" /\ u[2] = t[2] /\ u[3] = t[3] /\ u[4] = wk[w].last
  BY DEF NextPage, Kind
<1>8. wk[w].last # 0 => \E u \in NextPage(w) : u # t /\ Kind(u) = "page" /\ u[2] = t[2] /\ u[3] = t[3]
  <2> SUFFICES ASSUME wk[w].last # 0
               PROVE  \E u \in NextPage(w) : u # t /\ Kind(u) = "page" /\ u[2] = t[2] /\ u[3] = t[3]
    OBVIOUS
  <2> DEFINE u == <<"page", t[2], t[3], wk[w].last>>
  <2>1. u \in NextPage(w) /\ Kind(u) = "page" /\ u[2] = t[2] /\ u[3] = t[3] /\ u[4] = wk[w].last
    BY DEF NextPage, Kind
  <2>2. u[4] # t[4]
    BY <1>4, <1>5, <2>1
  <2> QED BY <2>1, <2>2
<1>9. /\ queue \subseteq queue' /\ NormalizeTasks(w) \subseteq queue' /\ NextPage(w) \subseteq queue'
      /\ \A u \in queue' : Kind(u) = "page" => u \in queue \/ u \in NextPage(w)
  BY <1>2, NormFields
<1> HIDE DEF t
<1>10. CanonFollows'
  BY <1>1, <1>2, <1>9, CanonAfterStore DEF t
<1>11. BackfillProgresses'
  <2> SUFFICES ASSUME bf'.outcome = "open", NEW e \in Entities \ bf'.done
               PROVE  \E u \in queue' : Kind(u) = "page" /\ u[2] = bf'.runs /\ u[3] = e
    BY DEF BackfillProgresses
  <2>1. ~Finishes(w) /\ e \notin bf.done
    BY <1>1, <1>4, <1>6
  <2>2. \E u \in queue : Kind(u) = "page" /\ u[2] = bf.runs /\ u[3] = e
    BY <1>4, <2>1 DEF LoneInv, BackfillProgresses
  <2> QED BY <1>1, <1>9, <2>2
<1>12. DoneOf(w)'
  <2> SUFFICES ASSUME bf'.outcome = "open", t[3] \notin bf'.done
               PROVE  \E u \in queue' : u # t /\ Kind(u) = "page" /\ u[2] = bf'.runs /\ u[3] = t[3]
    BY <1>1, <1>2 DEF DoneOf, PageOf, t
  <2>1. ~Finishes(w) /\ wk[w].last # 0
    BY <1>1, <1>4, <1>6
  <2> QED BY <1>1, <1>4, <1>8, <1>9, <2>1
<1>13. WorkerInv'
  BY <1>1, <1>12, Resting, Alone
\* What was read holds now, or changed after it was read.
<1>14. \A r \in Recs : Live(r)' <=> Live(r)
  BY <1>1 DEF Live
<1>15. \A r \in Recs : /\ wk[w].rows[r] = NoRow => (Holds(r)' <=> Holds(r))
                       /\ wk[w].rows[r] # NoRow => \/ Holds(r)'
                                                   \/ src[r].upd >= resume_cursor /\ src[r].upd >= bf.since
  <2> SUFFICES ASSUME NEW r \in Recs
               PROVE  /\ wk[w].rows[r] = NoRow => (Holds(r)' <=> Holds(r))
                      /\ wk[w].rows[r] # NoRow => \/ Holds(r)'
                                                  \/ src[r].upd >= resume_cursor /\ src[r].upd >= bf.since
    OBVIOUS
  <2>1. /\ wk[w].rows[r] = NoRow => raw'[r] = raw[r]
        /\ wk[w].rows[r] # NoRow /\ wk[w].rows[r] = Current(r) => Holds(r)'
    BY <1>1, <1>2, StoreHolds DEF t
  <2>2. wk[w].rows[r] # NoRow => wk[w].rows[r] = Current(r) \/ Late(w, r)
    BY <1>3 DEF HandRows
  <2>3. Late(w, r) => src[r].upd >= resume_cursor /\ src[r].upd >= bf.since
    BY <1>3 DEF Late
  <2> QED BY <1>1, <1>14, <2>1, <2>2, <2>3 DEF Holds
\* This page and the earlier ones of its entity have been over these records.
<1>16. ASSUME NEW r \in Recs, Live(r),
              Covered(r) \/ (r[1] = t[3] /\ (wk[w].last = 0 \/ r[2] <= wk[w].last))
       PROVE  Holds(r)' \/ src[r].upd >= bf.since
  <2>1. CASE Covered(r)
    BY <1>15, <1>16, <2>1 DEF LoneInv, MissInv
  <2>2. CASE ~Covered(r)
    <3>1. r[2] > t[4]
      BY <1>2, <1>4, <1>5, <1>16, <2>2, Numbers DEF Covered, PageOf
    <3>2. InPage(w, r)
      BY <1>16, <2>2, <3>1 DEF InPage, t
    <3>3. wk[w].rows[r] = NoRow => src[r].upd >= bf.since
      BY <1>3, <1>16, <3>2 DEF HandRows
    <3> QED BY <1>15, <3>3
  <2> QED BY <2>1, <2>2
<1>17. ASSUME NEW r \in Recs, resume_cursor = NoCursor PROVE Holds(r)' \/ Live(r) \/ src[r].upd >= bf.since
  BY <1>4, <1>15, <1>17 DEF LoneInv, MissInv
<1>18. CASE ~Finishes(w)
  <2>1. resume_cursor' = resume_cursor /\ bf'.outcome = "open" /\ lost' = lost /\ bf'.done = DoneAfter(w)
    BY <1>1, <1>4, <1>18 DEF resume_cursor
  <2>2. ASSUME NEW r \in Recs, Covered(r)'
        PROVE  Covered(r) \/ (r[1] = t[3] /\ (wk[w].last = 0 \/ r[2] <= wk[w].last))
    <3>1. CASE r[1] \in bf'.done
      BY <1>4, <1>6, <2>1, <3>1 DEF Covered
    <3>2. CASE r[1] \notin bf'.done
      <4>1. PICK u \in queue' : Kind(u) = "page" /\ u[2] = bf.runs /\ u[3] = r[1] /\ r[2] <= u[4]
        BY <1>1, <2>2, <3>2 DEF Covered, PageOf
      <4> QED BY <1>4, <1>7, <1>9, <4>1 DEF Covered, PageOf
    <3> QED BY <3>1, <3>2
  <2>3. ASSUME NEW r \in Recs PROVE r \in lost \/ Holds(r)' \/ src[r].upd >= resume_cursor
    BY <1>15 DEF LoneInv, MissInv
  <2>4. MissInv'
    BY <1>1, <1>14, <1>16, <1>17, <2>1, <2>2, <2>3 DEF MissInv
  <2> QED BY <1>10, <1>11, <1>13, <2>4 DEF LoneInv
<1>19. CASE Finishes(w)
  <2>1. bf'.outcome = "succeeded" /\ DoneAfter(w) = Entities /\ lost' = lost \cup Unasked
    BY <1>1, <1>2, <1>19 DEF Finishes
  <2>2. \A r \in Recs : Live(r) => Holds(r)' \/ src[r].upd >= bf.since
    <3> SUFFICES ASSUME NEW r \in Recs, Live(r) PROVE Holds(r)' \/ src[r].upd >= bf.since
      OBVIOUS
    <3>1. r[1] \in bf.done \/ (r[1] = t[3] /\ wk[w].last = 0)
      BY <1>6, <2>1, Numbers
    <3> QED BY <1>4, <1>16, <3>1 DEF Covered
  <2>3. ASSUME NEW r \in Recs PROVE r \in lost' \/ Holds(r)' \/ src[r].upd >= resume_cursor'
    <3>1. CASE cdc # NoCursor
      <4>1. resume_cursor' = resume_cursor
        BY <1>1, <3>1 DEF resume_cursor
      <4>2. r \in lost \/ Holds(r)' \/ src[r].upd >= resume_cursor
        BY <1>15 DEF LoneInv, MissInv
      <4> QED BY <2>1, <4>1, <4>2
    <3>2. CASE cdc = NoCursor
      <4>1. resume_cursor' = bf.since /\ resume_cursor = bf.cursor
        BY <1>1, <1>19, <3>2 DEF resume_cursor
      <4>2. CASE Live(r) \/ bf.cursor = NoCursor
        BY <1>17, <2>2, <4>1, <4>2
      <4>3. CASE ~Live(r) /\ bf.cursor # NoCursor
        <5>1. /\ src[r].upd \in Nat /\ bf.since \in Nat /\ raw[r].n \in Nat /\ src[r].ver \in Nat
              /\ src[r].deleted \in BOOLEAN
          BY <1>2, CopyFields
        <5>2. SUFFICES ASSUME ~Holds(r), src[r].upd < bf.since PROVE r \in Unasked
          BY <1>15, <2>1, <4>1, <5>1
        <5>3. raw[r].n > 0 /\ ~raw[r].deleted
          BY <4>3, <5>1, <5>2 DEF Holds
        <5>4. src[r].deleted
          BY <4>3, <5>1, <5>3 DEF Live, BaseInv, SrcInv
        <5> QED BY <3>2, <4>3, <5>2, <5>3, <5>4 DEF Unasked
      <4> QED BY <4>2, <4>3
    <3> QED BY <3>1, <3>2
  <2>4. \A r \in Recs : ~Covered(r)'
    BY <2>1 DEF Covered
  <2>5. MissInv'
    BY <1>1, <2>1, <2>3, <2>4 DEF MissInv
  <2> QED BY <1>10, <1>11, <1>13, <2>5 DEF LoneInv
<1> QED BY <1>18, <1>19

-----------------------------------------------------------------------------
(* The theorems.                                                             *)

LEMMA InitInv ==
  ASSUME Init
  PROVE  IInv
<1>1. /\ now = Overlap /\ raw = [r \in Recs |-> NoRaw] /\ canon = [r \in Recs |-> NoRow]
      /\ bf = [outcome |-> "none", runs |-> 0, since |-> 0, done |-> {}, cursor |-> NoCursor]
      /\ cdc = NoCursor /\ queue = {} /\ wk = [w \in Workers |-> Idle] /\ lost = {} /\ faults = 0
  BY DEF Init
<1>2. src \in [Recs -> [ver : 0..MaxVersion, deleted : BOOLEAN, upd : Nat]] /\ \A r \in Recs : src[r].deleted = FALSE
  <2> DEFINE S == [ver : 0..MaxVersion, deleted : BOOLEAN, upd : Nat]
             first == {[ver |-> v, deleted |-> FALSE, upd |-> 0] : v \in {0, 1}}
  <2>1. 0 \in 0..MaxVersion /\ 1 \in 0..MaxVersion
    BY BoundsAssumption
  <2>2. [ver |-> 0, deleted |-> FALSE, upd |-> 0] \in S /\ [ver |-> 1, deleted |-> FALSE, upd |-> 0] \in S
    BY <2>1
  <2>3. first = {[ver |-> 0, deleted |-> FALSE, upd |-> 0], [ver |-> 1, deleted |-> FALSE, upd |-> 0]}
    BY Zenon
  <2>4. first \subseteq S /\ \A s \in first : s.deleted = FALSE
    BY <2>2, <2>3
  <2>5. src \in [Recs -> first]
    BY DEF Init
  <2> HIDE DEF S, first
  <2> QED BY <2>4, <2>5 DEF S
<1>3. \A w \in Workers : wk[w] = Idle /\ wk[w].pc = "idle" /\ wk[w].task = NoTask
  BY <1>1, IdleFields
<1>4. \A r \in Recs : raw[r].n = 0
  BY <1>1 DEF NoRaw
<1>5. TypeOK
  <2>1. bf \in [outcome : {"none", "open", "succeeded"}, runs : 0..MaxRuns, since : Nat,
                done : SUBSET Entities, cursor : Nat \cup {NoCursor}]
    BY <1>1, Numbers
  <2>2. wk \in [Workers -> Work]
    BY <1>1, IdleFields
  <2>3. now \in Overlap..MaxClock /\ faults \in 0..MaxFaults /\ cdc \in Nat \cup {NoCursor}
    BY <1>1, Numbers
  <2> QED BY <1>1, <1>2, <1>3, <2>1, <2>2, <2>3, NoRows DEF TypeOK
<1>6. SrcInv
  BY <1>1, <1>2, <1>3, <1>4 DEF SrcInv, OnPoll, OnPage
<1>7. TimeInv
  BY <1>1, <1>3, Numbers, NoRows DEF TimeInv
<1>8. TaskInv
  BY <1>1, <1>4 DEF TaskInv, resume_cursor
<1>9. WorkInv
  BY <1>3, NoRows DEF WorkInv
<1>10. WorkerInv
  BY <1>3 DEF WorkerInv, LoadOf, HandRows, DoneOf, OnPoll, OnPage
<1>11. MissInv
  <2> SUFFICES ASSUME NEW r \in Recs PROVE src[r].upd >= NoCursor
    BY <1>1 DEF MissInv, resume_cursor, Covered
  <2> QED BY <1>2, Numbers
<1>12. CanonFollows /\ BackfillProgresses
  BY <1>1, <1>4 DEF CanonFollows, BackfillProgresses
<1> QED BY <1>5, <1>6, <1>7, <1>8, <1>9, <1>10, <1>11, <1>12 DEF IInv, BaseInv, LoneInv

LEMMA StepBase ==
  ASSUME BaseInv, Next
  PROVE  BaseInv'
<1>1. CASE Tick \/ StartBackfill \/ QueuePoll
  BY <1>1, TickBase, StartBackfillBase, QueuePollBase
<1>2. ASSUME NEW r \in Recs, NEW gone \in BOOLEAN, Change(r, gone) PROVE BaseInv'
  BY <1>2, ChangeBase
<1>3. ASSUME NEW w \in Workers, NEW t \in queue, Claim(w, t) PROVE BaseInv'
  BY <1>3, ClaimBase
<1>4. ASSUME NEW w \in Workers, PageReturns(w) \/ PageLate(w) \/ NormalizeSkip(w) \/ StoreRefused(w) \/ Fail(w)
      PROVE  BaseInv'
  <2>1. /\ wk[w].pc # "idle" /\ UNCHANGED <<now, src, raw, canon, bf, cdc, queue, lost>> /\ faults' \in 0..MaxFaults
        /\ \E k \in {Idle, Finished(wk[w])} : wk' = [wk EXCEPT ![w] = k]
    <3>1. faults \in 0..MaxFaults
      BY DEF BaseInv, TypeOK
    <3>2. Fail(w) => faults + 1 \in 0..MaxFaults
      BY <3>1, Numbers DEF Fail
    <3> QED BY <1>4, <3>1, <3>2 DEF StoreRefused, Fail, PageReturns, PageLate, NormalizeSkip, copy
  <2> QED BY <2>1, EndBase
<1>5. ASSUME NEW w \in Workers, Step(w) PROVE BaseInv'
  BY <1>4, <1>5, PageFetchBase, PollBeginBase, PollFetchBase, LoadBase, PageCommitBase, PollCommitBase,
     NormalizeCommitBase, CompleteBase DEF Step
<1> QED BY <1>1, <1>2, <1>3, <1>4, <1>5 DEF Next

LEMMA StepLone ==
  ASSUME BaseInv, OneWorker, LoneInv, Next
  PROVE  LoneInv'
<1>1. CASE Tick \/ StartBackfill \/ QueuePoll
  BY <1>1, TickLone, StartBackfillLone, QueuePollLone
<1>2. ASSUME NEW r \in Recs, NEW gone \in BOOLEAN, Change(r, gone) PROVE LoneInv'
  BY <1>2, ChangeLone
<1>3. ASSUME NEW w \in Workers, NEW t \in queue, Claim(w, t) PROVE LoneInv'
  BY <1>3, ClaimLone
<1>4. ASSUME NEW w \in Workers, PageReturns(w) \/ PageLate(w) \/ NormalizeSkip(w) \/ StoreRefused(w) \/ Fail(w)
      PROVE  LoneInv'
  <2> DEFINE gone == StoreRefused(w) \/ Fail(w)
  <2>1. gone <=> StoreRefused(w) \/ Fail(w)
    OBVIOUS
  <2>2. gone \/ PageReturns(w) \/ PageLate(w) \/ NormalizeSkip(w)
    BY <1>4
  <2> HIDE DEF gone
  <2> QED BY <2>1, <2>2, EndLone
<1>5. ASSUME NEW w \in Workers, Step(w) PROVE LoneInv'
  BY <1>4, <1>5, PageFetchLone, PollBeginLone, PollFetchLone, LoadLone, PageCommitLone, PollCommitLone,
     NormalizeCommitLone, CompleteLone DEF Step
<1> QED BY <1>1, <1>2, <1>3, <1>4, <1>5 DEF Next

LEMMA Stutters ==
  ASSUME IInv, UNCHANGED vars
  PROVE  IInv'
<1>1. UNCHANGED <<now, src, raw, canon, bf, cdc, queue, wk, lost, faults>>
  BY DEF vars
<1>2. resume_cursor' = resume_cursor
  BY <1>1 DEF resume_cursor
<1>3. BaseInv'
  BY <1>1, <1>2 DEF IInv, BaseInv, TypeOK, SrcInv, TimeInv, TaskInv, WorkInv, OnPoll, OnPage
<1>4. ASSUME OneWorker PROVE LoneInv'
  <2>1. LoneInv
    BY <1>4 DEF IInv
  <2>2. ASSUME NEW w \in Workers PROVE LoadOf(w)' /\ HandRows(w)' /\ DoneOf(w)'
    <3>1. LoadOf(w) /\ HandRows(w) /\ DoneOf(w)
      BY <2>1 DEF LoneInv, WorkerInv
    <3>2. /\ OnPoll(w)' <=> OnPoll(w)
          /\ OnPage(w)' <=> OnPage(w)
      BY <1>1 DEF OnPoll, OnPage
    <3>3. LoadOf(w)'
      BY <1>1, <1>2, <3>1, <3>2 DEF LoadOf, RunOpen
    <3>4. DoneOf(w)'
      BY <1>1, <3>1 DEF DoneOf, PageOf
    <3>5. \A r \in Recs : /\ Current(r)' = Current(r) /\ (Holds(r)' <=> Holds(r)) /\ (Live(r)' <=> Live(r))
                          /\ (Late(w, r)' <=> Late(w, r)) /\ (InPage(w, r)' <=> InPage(w, r))
      BY <1>1, <1>2, <3>2 DEF Current, Holds, Live, Late, InPage, Covered, PageOf
    <3>6. HandRows(w)'
      BY <1>1, <3>1, <3>2, <3>5 DEF HandRows
    <3> QED BY <3>3, <3>4, <3>6
  <2>3. WorkerInv'
    BY <2>2 DEF WorkerInv
  <2>4. \A r \in Recs : (Holds(r)' <=> Holds(r)) /\ (Live(r)' <=> Live(r)) /\ (Covered(r)' <=> Covered(r))
    BY <1>1 DEF Holds, Live, Covered, PageOf
  <2>5. MissInv' /\ CanonFollows' /\ BackfillProgresses'
    BY <1>1, <1>2, <2>1, <2>4 DEF LoneInv, MissInv, CanonFollows, BackfillProgresses
  <2> QED BY <2>3, <2>5 DEF LoneInv
<1> QED BY <1>3, <1>4 DEF IInv

LEMMA Inductive == Spec => []IInv
<1>1. Init => IInv
  BY InitInv
<1>2. IInv /\ [Next]_vars => IInv'
  <2> SUFFICES ASSUME IInv, [Next]_vars PROVE IInv'
    OBVIOUS
  <2>1. CASE Next
    BY <2>1, StepBase, StepLone DEF IInv, OneWorker
  <2>2. CASE UNCHANGED vars
    BY <2>2, Stutters
  <2> QED BY <2>1, <2>2
<1> QED BY <1>1, <1>2, PTL DEF Spec

\* One worker process drains the queue (deploy/systemd/wip-worker.service: "One instance"):
\* then, whatever is queued, fails or changes in between, every record the copy does not
\* hold lies after the cursor of the next poll, a deleted one too unless it was lost to
\* an overflowing answer or to two backfills, no raw version waits without its task, and
\* an open backfill has a page for every entity it is not done with.
THEOREM OneWorkerCopies == Spec => [](OneWorker => CopyHolds)
<1>1. IInv => (OneWorker => CopyHolds)
  <2> SUFFICES ASSUME IInv, OneWorker PROVE CopyHolds
    OBVIOUS
  <2>1. TypeOK /\ MissInv /\ CanonFollows /\ BackfillProgresses
    BY DEF IInv, BaseInv, LoneInv
  <2>2. NothingMissed
    <3> SUFFICES ASSUME NEW r \in Recs, Live(r) PROVE Holds(r) \/ src[r].upd >= resume_cursor
      BY DEF NothingMissed
    <3>1. r \notin lost
      BY DEF IInv, BaseInv, SrcInv, Live
    <3> QED BY <2>1, <3>1 DEF MissInv
  <2>3. DeletesArrive
    BY <2>1 DEF DeletesArrive, MissInv
  <2> QED BY <2>1, <2>2, <2>3 DEF CopyHolds
<1> QED BY <1>1, Inductive, PTL

\* store_raw, store_delete and uq_raw_record_key_version, with any number of workers: a
\* change of the raw copy is one new version of the record, numbered after the last.
THEOREM RawVersionsAppend == Spec => RawAppends
<1>1. IInv /\ [Next]_vars => [\A r \in Recs : raw'[r] # raw[r] => raw'[r].n = raw[r].n + 1]_vars
  <2> SUFFICES ASSUME IInv, Next, NEW r \in Recs, raw'[r] # raw[r] PROVE raw'[r].n = raw[r].n + 1
    BY DEF vars
  <2>1. TypeOK
    BY DEF IInv, BaseInv
  <2>2. ASSUME NEW w \in Workers, Insertable(w), raw' = RawAfter(w) PROVE raw'[r].n = raw[r].n + 1
    <3>1. r \in News(w)
      BY <2>1, <2>2, RawAfterFields
    <3>2. raw[r].n = wk[w].cur[r].n
      BY <2>2, <3>1 DEF Insertable
    <3> QED BY <2>1, <2>2, <3>1, <3>2, RawAfterFields
  <2>3. ASSUME NEW w \in Workers, Step(w) PROVE raw'[r].n = raw[r].n + 1
    <3>1. PageCommit(w) \/ PollCommit(w)
      BY <2>3 DEF Step, PageFetch, PageReturns, PollBegin, PollFetch, LoadStore, PageLate, StoreRefused,
                  NormalizeSkip, NormalizeLoad, NormalizeCommit, Complete, copy
    <3> QED BY <2>2, <3>1 DEF PageCommit, PollCommit
  <2> QED BY <2>3 DEF Next, Change, Tick, StartBackfill, QueuePoll, Claim, Fail, copy
<1> QED BY <1>1, Inductive, PTL DEF RawAppends, Spec

-------------------------------------------------------------------------
(* The cost ledger.                                                          *)

RowMaps == [CostLineId -> LedgerLine \cup {Nothing}]
JobFor(c, links) == IF c = Nothing THEN Nothing ELSE links[c]

\* What is said of the rows ls of every document, and of the rows of one.
MonthsIn(rows) == \A l \in CostLineId : rows[l] # Nothing => rows[l].month \in CostMonths
JobsIn(rows, links) ==
  \A l \in CostLineId : rows[l] # Nothing => rows[l].job = JobFor(rows[l].customer, links)
NoneIn(rows) == \A l \in CostLineId : rows[l] = Nothing

\* The rows r and q say the same but for the job.
SameCost(r, q) ==
  /\ r.month = q.month /\ r.account = q.account /\ r.customer = q.customer
  /\ r.amount = q.amount /\ r.deleted = q.deleted
SameCosts(rows, olds) ==
  \A l \in CostLineId : /\ rows[l] = Nothing <=> olds[l] = Nothing
                        /\ rows[l] # Nothing => SameCost(rows[l], olds[l])

Readable(p) == p.readable /\ ~p.gone /\ p.month # 0
Withdrawn(p) == p.gone \/ p.month = 0

\* The row r says of the line l what the payload p does, under the lookup k.
RowSays(r, p, l, k) ==
  /\ r # Nothing /\ r.month = p.month /\ r.account = AccountRef(p.lines[l], k)
  /\ r.amount = p.sign * p.lines[l].amount /\ (r.deleted <=> VoidedDoc(p, k))

\* The rows of a document whose newest payload is p show it.
ShownAs(rows, p, k) ==
  /\ Withdrawn(p) => \A l \in CostLineId : rows[l] # Nothing => rows[l].deleted = TRUE
  /\ Readable(p) => \A l \in CostLineId : /\ l \in CostLines(p, k) => RowSays(rows[l], p, l, k)
                                          /\ l \notin CostLines(p, k) => rows[l] = Nothing

-----------------------------------------------------------------------------

LEMMA PayloadFits ==
  ASSUME NEW p \in CostPayload
  PROVE  /\ p.gone \in BOOLEAN /\ p.readable \in BOOLEAN /\ p.month \in Nat
         /\ p.sign \in {-1, 1} /\ p.note \in BOOLEAN
         /\ \A l \in DOMAIN p.lines :
              /\ l \in CostLineId
              /\ p.lines[l].customer \in Coded \cup {Nothing}
              /\ p.lines[l].amount \in Int /\ p.sign * p.lines[l].amount \in Int
              /\ \A k \in CostLookup : AccountRef(p.lines[l], k) \in CostAccount \cup {Nothing}
<1>1. /\ p.gone \in BOOLEAN /\ p.readable \in BOOLEAN /\ p.month \in Nat
      /\ p.sign \in {-1, 1} /\ p.note \in BOOLEAN
      /\ \A l \in DOMAIN p.lines : l \in CostLineId /\ p.lines[l] \in PayloadLine
  BY CostAssumption
<1>2. ASSUME NEW l \in DOMAIN p.lines
      PROVE  /\ p.lines[l].customer \in Coded \cup {Nothing}
             /\ p.lines[l].amount \in Int /\ p.sign * p.lines[l].amount \in Int
             /\ \A k \in CostLookup : AccountRef(p.lines[l], k) \in CostAccount \cup {Nothing}
  <2>1. PICK x \in PayloadLine : x = p.lines[l]
    BY <1>1
  <2>2. x.customer \in Coded \cup {Nothing} /\ x.amount \in Int
    BY DEF PayloadLine
  <2>3. ASSUME NEW k \in CostLookup PROVE AccountRef(x, k) \in CostAccount \cup {Nothing}
    <3>1. CASE x.by = "item"
      <4>1. x.of \in CostItem
        BY <3>1 DEF PayloadLine
      <4> QED BY <3>1, <4>1 DEF AccountRef, CostLookup
    <3>2. CASE x.by # "item"
      <4>1. x.of \in CostAccount
        BY <3>2 DEF PayloadLine
      <4> QED BY <3>2, <4>1 DEF AccountRef
    <3> QED BY <3>1, <3>2
  <2>4. p.sign * x.amount \in Int
    <3>1. PICK a \in Int : a = x.amount
      BY <2>2
    <3>2. p.sign = 1 \/ p.sign = -1
      BY <1>1
    <3> QED BY <3>1, <3>2
  <2> QED BY <2>1, <2>2, <2>3, <2>4
<1> QED BY <1>1, <1>2

LEMMA LedgerRowUpdates ==
  ASSUME NEW r \in LedgerLine
  PROVE  /\ \A j \in CostSite \cup {Nothing} :
              /\ [r EXCEPT !.job = j] \in LedgerLine
              /\ [r EXCEPT !.job = j].job = j /\ SameCost([r EXCEPT !.job = j], r)
         /\ [r EXCEPT !.deleted = TRUE] \in LedgerLine
         /\ [r EXCEPT !.deleted = TRUE].deleted = TRUE
         /\ [r EXCEPT !.deleted = TRUE].month = r.month
         /\ [r EXCEPT !.deleted = TRUE].customer = r.customer
         /\ [r EXCEPT !.deleted = TRUE].job = r.job
<1>1. ASSUME NEW j \in CostSite \cup {Nothing}
      PROVE  /\ [r EXCEPT !.job = j] \in LedgerLine
             /\ [r EXCEPT !.job = j].job = j /\ SameCost([r EXCEPT !.job = j], r)
  BY DEF LedgerLine, SameCost
<1>2. /\ [r EXCEPT !.deleted = TRUE] \in LedgerLine
      /\ [r EXCEPT !.deleted = TRUE].deleted = TRUE
      /\ [r EXCEPT !.deleted = TRUE].month = r.month
      /\ [r EXCEPT !.deleted = TRUE].customer = r.customer
      /\ [r EXCEPT !.deleted = TRUE].job = r.job
  BY DEF LedgerLine
<1> QED BY <1>1, <1>2

LEMMA RowThere ==
  ASSUME NEW rows \in RowMaps, NEW l \in CostLineId, rows[l] # Nothing
  PROVE  rows[l] \in LedgerLine
BY DEF RowMaps

LEMMA LedgerRowIs == \A r \in LedgerLine : r # Nothing
BY CostAssumption

\* Rows written from a payload that can be read show it.
LEMMA WrittenShows ==
  ASSUME NEW p \in CostPayload, Readable(p), NEW k \in CostLookup
  PROVE  /\ Written(p, k) \in RowMaps /\ MonthsIn(Written(p, k))
         /\ JobsIn(Written(p, k), k.alias) /\ ShownAs(Written(p, k), p, k)
<1> DEFINE row(l) == [month |-> p.month, account |-> AccountRef(p.lines[l], k),
                      customer |-> p.lines[l].customer,
                      job |-> IF p.lines[l].customer = Nothing THEN Nothing ELSE k.alias[p.lines[l].customer],
                      amount |-> p.sign * p.lines[l].amount, deleted |-> VoidedDoc(p, k)]
<1>1. PICK w : w = Written(p, k)
  OBVIOUS
<1>2. CostLines(p, k) \subseteq CostLineId /\ CostLines(p, k) \subseteq DOMAIN p.lines
  BY PayloadFits DEF CostLines
<1>3. w = [l \in CostLineId |-> IF l \notin CostLines(p, k) THEN Nothing ELSE row(l)]
  BY <1>1 DEF Written
<1>4. VoidedDoc(p, k) \in BOOLEAN
  BY DEF VoidedDoc
<1>5. p.month \in CostMonths /\ p.month \in Nat
  BY PayloadFits DEF CostMonths, Readable
<1>6. ASSUME NEW l \in CostLines(p, k)
      PROVE  /\ row(l) \in LedgerLine /\ row(l) # Nothing /\ row(l).month \in CostMonths
             /\ row(l).job = JobFor(row(l).customer, k.alias) /\ RowSays(row(l), p, l, k)
  <2>1. l \in DOMAIN p.lines
    BY <1>2
  <2>2. PICK c \in Coded \cup {Nothing} : c = p.lines[l].customer
    BY <2>1, PayloadFits
  <2>3. PICK a \in Int : a = p.sign * p.lines[l].amount
    BY <2>1, PayloadFits
  <2>4. PICK g \in CostAccount \cup {Nothing} : g = AccountRef(p.lines[l], k)
    BY <2>1, PayloadFits
  <2>5. PICK j \in CostSite \cup {Nothing} : j = IF c = Nothing THEN Nothing ELSE k.alias[c]
    BY DEF CostLookup
  <2>6. PICK q : q = row(l)
    OBVIOUS
  <2>7. q = [month |-> p.month, account |-> g, customer |-> c, job |-> j, amount |-> a,
             deleted |-> VoidedDoc(p, k)]
    BY <2>2, <2>3, <2>4, <2>5, <2>6
  <2>8. q \in LedgerLine
    BY <2>7, <1>4, <1>5 DEF LedgerLine
  <2>9. q # Nothing
    BY <2>8, LedgerRowIs
  <2>10. q.month \in CostMonths /\ q.job = JobFor(q.customer, k.alias)
    BY <2>7, <2>5, <1>5 DEF JobFor
  <2>11. RowSays(q, p, l, k)
    BY <2>7, <2>9, <2>3, <2>4 DEF RowSays
  <2> HIDE DEF row
  <2> QED BY <2>6, <2>8, <2>9, <2>10, <2>11
<1> HIDE DEF row
<1>7. w \in RowMaps
  BY <1>3, <1>6 DEF RowMaps
<1>8. MonthsIn(w) /\ JobsIn(w, k.alias)
  BY <1>3, <1>6 DEF MonthsIn, JobsIn
<1>9. ShownAs(w, p, k)
  BY <1>3, <1>6 DEF ShownAs, Readable, Withdrawn
<1> QED BY <1>1, <1>7, <1>8, <1>9

LEMMA ApplyShows ==
  ASSUME NEW d \in CostDoc, line[d] \in RowMaps, MonthsIn(line[d]),
         NEW p \in CostPayload, NEW k \in CostLookup
  PROVE  /\ ApplyCost(d, p, k) \in RowMaps /\ MonthsIn(ApplyCost(d, p, k))
         /\ JobsIn(line[d], k.alias) => JobsIn(ApplyCost(d, p, k), k.alias)
         /\ ShownAs(ApplyCost(d, p, k), p, k)
<1>0. p.gone \in BOOLEAN /\ p.readable \in BOOLEAN
  BY PayloadFits
<1>1. CASE Withdrawn(p)
  <2>1. PICK m : m = MarkDeleted(d)
    OBVIOUS
  <2>2. ApplyCost(d, p, k) = m
    BY <1>1, <2>1 DEF ApplyCost, Withdrawn
  <2>3. m = [l \in CostLineId |-> IF line[d][l] = Nothing THEN Nothing
                                  ELSE [line[d][l] EXCEPT !.deleted = TRUE]]
    BY <2>1 DEF MarkDeleted
  <2>4. ASSUME NEW l \in CostLineId
        PROVE  /\ m[l] \in LedgerLine \cup {Nothing}
               /\ m[l] # Nothing => /\ m[l].deleted = TRUE /\ m[l].month \in CostMonths
                                    /\ line[d][l] # Nothing
                                    /\ m[l].customer = line[d][l].customer /\ m[l].job = line[d][l].job
    <3>1. CASE line[d][l] = Nothing
      BY <2>3, <3>1
    <3>2. CASE line[d][l] # Nothing
      <4>1. PICK r \in LedgerLine : r = line[d][l]
        BY <3>2, RowThere
      <4>2. r.month \in CostMonths
        BY <4>1, <3>2 DEF MonthsIn
      <4>3. m[l] = [r EXCEPT !.deleted = TRUE]
        BY <2>3, <3>2, <4>1
      <4> QED BY <4>1, <4>2, <4>3, <3>2, LedgerRowUpdates
    <3> QED BY <3>1, <3>2
  <2>5. m \in RowMaps
    BY <2>3, <2>4 DEF RowMaps
  <2>6. MonthsIn(m) /\ (JobsIn(line[d], k.alias) => JobsIn(m, k.alias))
    BY <2>4 DEF MonthsIn, JobsIn
  <2>7. ShownAs(m, p, k)
    BY <1>1, <2>4 DEF ShownAs, Readable, Withdrawn
  <2> QED BY <2>2, <2>5, <2>6, <2>7
<1>2. CASE Readable(p)
  <2>1. ApplyCost(d, p, k) = Written(p, k)
    BY <1>0, <1>2 DEF ApplyCost, Readable
  <2> QED BY <2>1, <1>2, WrittenShows
<1>3. CASE ~Withdrawn(p) /\ ~Readable(p)
  <2>1. ApplyCost(d, p, k) = line[d]
    BY <1>0, <1>3 DEF ApplyCost, Readable, Withdrawn
  <2>2. ShownAs(line[d], p, k)
    BY <1>3 DEF ShownAs
  <2> QED BY <2>1, <2>2
<1> QED BY <1>1, <1>2, <1>3

\* What the job-ids run makes of the rows of all documents.
LEMMA RefillShows ==
  ASSUME NEW ls \in [CostDoc -> RowMaps], alias \in [Coded -> CostSite \cup {Nothing}]
  PROVE  /\ Refill(ls) \in [CostDoc -> RowMaps]
         /\ \A d \in CostDoc : JobsIn(Refill(ls)[d], alias) /\ SameCosts(Refill(ls)[d], ls[d])
<1>1. PICK w : w = Refill(ls)
  OBVIOUS
<1>2. w = [d \in CostDoc |-> [l \in CostLineId |->
             IF ls[d][l] = Nothing THEN Nothing
             ELSE [ls[d][l] EXCEPT !.job = IF ls[d][l].customer = Nothing THEN Nothing
                                           ELSE alias[ls[d][l].customer]]]]
  BY <1>1 DEF Refill
<1>3. ASSUME NEW d \in CostDoc, NEW l \in CostLineId
      PROVE  /\ w[d][l] \in LedgerLine \cup {Nothing}
             /\ w[d][l] = Nothing <=> ls[d][l] = Nothing
             /\ w[d][l] # Nothing => /\ SameCost(w[d][l], ls[d][l])
                                     /\ w[d][l].job = JobFor(w[d][l].customer, alias)
  <2>1. CASE ls[d][l] = Nothing
    BY <1>2, <2>1
  <2>2. CASE ls[d][l] # Nothing
    <3>1. PICK r \in LedgerLine : r = ls[d][l]
      BY <2>2, RowThere
    <3>2. r.customer \in Coded \cup {Nothing}
      BY DEF LedgerLine
    <3>3. PICK j \in CostSite \cup {Nothing} : j = JobFor(r.customer, alias)
      BY <3>2 DEF JobFor
    <3>4. w[d][l] = [r EXCEPT !.job = j]
      BY <1>2, <2>2, <3>1, <3>3 DEF JobFor
    <3>5. [r EXCEPT !.job = j] \in LedgerLine /\ [r EXCEPT !.job = j].job = j /\ SameCost([r EXCEPT !.job = j], r)
      BY LedgerRowUpdates
    <3>6. w[d][l] # Nothing
      BY <3>4, <3>5, LedgerRowIs
    <3> QED BY <3>1, <3>3, <3>4, <3>5, <3>6, <2>2 DEF SameCost
  <2> QED BY <2>1, <2>2
<1>4. w \in [CostDoc -> RowMaps]
  BY <1>2, <1>3 DEF RowMaps
<1>5. \A d \in CostDoc : JobsIn(w[d], alias) /\ SameCosts(w[d], ls[d])
  BY <1>3 DEF JobsIn, SameCosts
<1> QED BY <1>1, <1>4, <1>5

LEMMA SameShown ==
  ASSUME NEW rows, NEW olds, SameCosts(rows, olds)
  PROVE  /\ MonthsIn(olds) => MonthsIn(rows)
         /\ NoneIn(olds) => NoneIn(rows)
         /\ \A p, k : ShownAs(olds, p, k) => ShownAs(rows, p, k)
<1>1. ASSUME NEW p, NEW k, ShownAs(olds, p, k) PROVE ShownAs(rows, p, k)
  <2>1. ASSUME Withdrawn(p), NEW l \in CostLineId, rows[l] # Nothing PROVE rows[l].deleted = TRUE
    BY <1>1, <2>1 DEF ShownAs, SameCosts, SameCost
  <2>2. ASSUME Readable(p), NEW l \in CostLineId
        PROVE  /\ l \in CostLines(p, k) => RowSays(rows[l], p, l, k)
               /\ l \notin CostLines(p, k) => rows[l] = Nothing
    <3>1. CASE l \in CostLines(p, k)
      <4>1. RowSays(olds[l], p, l, k)
        BY <1>1, <2>2, <3>1 DEF ShownAs
      <4> QED BY <4>1, <3>1 DEF RowSays, SameCosts, SameCost
    <3>2. CASE l \notin CostLines(p, k)
      BY <1>1, <2>2, <3>2 DEF ShownAs, SameCosts
    <3> QED BY <3>1, <3>2
  <2> QED BY <2>1, <2>2 DEF ShownAs
<1>2. (MonthsIn(olds) => MonthsIn(rows)) /\ (NoneIn(olds) => NoneIn(rows))
  BY DEF SameCosts, SameCost, MonthsIn, NoneIn
<1> QED BY <1>1, <1>2

\* Of a lookup, the expense side and the items decide the lines.
LEMMA LookupMatters ==
  ASSUME NEW k, NEW j, k.side = j.side, k.items = j.items, NEW p
  PROVE  /\ CostLines(p, k) = CostLines(p, j)
         /\ VoidedDoc(p, k) <=> VoidedDoc(p, j)
         /\ \A x : AccountRef(x, k) = AccountRef(x, j)
         /\ \A rows : ShownAs(rows, p, k) <=> ShownAs(rows, p, j)
<1>1. \A x : AccountRef(x, k) = AccountRef(x, j)
  BY DEF AccountRef
<1>2. CostLines(p, k) = CostLines(p, j)
  BY <1>1 DEF CostLines
<1>3. VoidedDoc(p, k) <=> VoidedDoc(p, j)
  BY <1>2 DEF VoidedDoc
<1>4. ASSUME NEW r, NEW l PROVE RowSays(r, p, l, k) <=> RowSays(r, p, l, j)
  BY <1>1, <1>3 DEF RowSays
<1>5. ASSUME NEW rows PROVE ShownAs(rows, p, k) <=> ShownAs(rows, p, j)
  BY <1>2, <1>4 DEF ShownAs
<1> QED BY <1>1, <1>2, <1>3, <1>5

-----------------------------------------------------------------------------
(* The invariant.                                                            *)

Versions == {t \in CostDoc \X Nat : 1 <= t[2] /\ t[2] <= Len(sent[t[1]])}

CostShaped ==
  /\ CostTypeOK /\ remapped \in BOOLEAN
  /\ sent \in [CostDoc -> Seq(CostPayload)]
  /\ itemOf \in [CostItem -> CostAccount \cup {Nothing}]
  /\ alias \in [Coded -> CostSite \cup {Nothing}]
  /\ todo \subseteq Versions
  /\ busy # Nothing => busy \in CostTask /\ busy.task \in Versions \cup {FullRun}

\* Rows are of months documents are of; a document never sent has none.
RowsKnown ==
  \A d \in CostDoc : MonthsIn(line[d]) /\ (sent[d] = << >> => NoneIn(line[d]))

\* With no job-ids run queued the rows, and what the worker read, have the links.
JobsFit ==
  "jobs" \notin runs =>
    /\ \A d \in CostDoc : JobsIn(line[d], alias)
    /\ busy # Nothing => busy.look.alias = alias

\* Items change between tasks; mappings at any time, which remapped notes.
LookFits ==
  busy # Nothing => busy.look.items = itemOf /\ (~remapped => busy.look.side = ExpenseSide)

\* A document shows its newest version, or that version has its task.
ShownNow(d) == sent[d] # << >> => ShownAs(line[d], Newest(d), LoadLookup)
Waits(d) ==
  \/ <<d, Len(sent[d])>> \in todo
  \/ busy # Nothing /\ busy.task = <<d, Len(sent[d])>>
FullAhead == remapped \/ "full" \in runs \/ (busy # Nothing /\ busy.task = FullRun)
ShownFits == ~FullAhead => \A d \in CostDoc : ShownNow(d) \/ Waits(d)

LedgerInv == CostShaped /\ RowsKnown /\ JobsFit /\ LookFits /\ ShownFits

-----------------------------------------------------------------------------

LEMMA CostStart == CostInit => LedgerInv
<1> SUFFICES ASSUME CostInit PROVE LedgerInv
  OBVIOUS
<1>1. CostShaped
  <2>1. line \in [CostDoc -> [CostLineId -> LedgerLine \cup {Nothing}]]
    BY DEF CostInit
  <2>2. sent \in [CostDoc -> Seq(CostPayload)]
    <3>1. << >> \in Seq(CostPayload)
      OBVIOUS
    <3> QED BY <3>1 DEF CostInit
  <2> QED BY <2>1, <2>2 DEF CostInit, CostShaped, CostTypeOK
<1>2. RowsKnown
  BY DEF CostInit, RowsKnown, MonthsIn, NoneIn
<1>3. JobsFit
  BY DEF CostInit, JobsFit, JobsIn
<1>4. LookFits
  BY DEF CostInit, LookFits
<1>5. ShownFits
  BY DEF CostInit, ShownFits, ShownNow
<1> QED BY <1>1, <1>2, <1>3, <1>4, <1>5 DEF LedgerInv

LEMMA LookupFits ==
  ASSUME CostShaped
  PROVE  /\ LoadLookup \in CostLookup
         /\ LoadLookup.items = itemOf /\ LoadLookup.alias = alias /\ LoadLookup.side = ExpenseSide
<1>1. PICK e \in SUBSET CostAccount : e = ExpenseSide
  BY CostAssumption DEF ExpenseSide
<1>2. LoadLookup = [side |-> e, items |-> itemOf, alias |-> alias]
  BY <1>1 DEF LoadLookup
<1>3. [side |-> e, items |-> itemOf, alias |-> alias] \in CostLookup
  BY DEF CostLookup, CostShaped
<1> QED BY <1>1, <1>2, <1>3

LEMMA TasksAre ==
  ASSUME NEW t, NEW k \in CostLookup, t \in (CostDoc \X Nat) \cup {FullRun}
  PROVE  /\ [task |-> t, look |-> k] \in CostTask /\ [task |-> t, look |-> k] # Nothing
<1>1. [task |-> t, look |-> k] \in CostTask
  BY DEF CostTask
<1> QED BY <1>1, CostAssumption

LEMMA VersionIsTask == \A t \in Versions : t \in CostDoc \X Nat /\ t # FullRun
<1>1. ASSUME NEW t \in Versions PROVE t \in CostDoc \X Nat /\ t # FullRun
  <2>1. t \in CostDoc \X Nat /\ 1 <= t[2]
    BY DEF Versions
  <2>2. FullRun[2] = 0
    BY DEF FullRun
  <2> QED BY <2>1, <2>2
<1> QED BY <1>1

LEMMA NewestIs ==
  ASSUME CostShaped, NEW d \in CostDoc
  PROVE  /\ Len(sent[d]) \in Nat
         /\ sent[d] # << >> => Newest(d) \in CostPayload /\ <<d, Len(sent[d])>> \in Versions
<1>1. PICK s \in Seq(CostPayload) : s = sent[d]
  BY DEF CostShaped
<1>2. Len(s) \in Nat
  OBVIOUS
<1>3. s # << >> => Len(s) >= 1 /\ s[Len(s)] \in CostPayload
  BY <1>2, EmptySeq, ElementOfSeq
<1> QED BY <1>1, <1>2, <1>3 DEF Newest, Versions

\* What a document shows depends on its rows, its versions, the items and the side.
LEMMA StillShown ==
  ASSUME CostShaped, CostShaped', NEW d \in CostDoc, itemOf' = itemOf, ExpenseSide' = ExpenseSide,
         sent'[d] = sent[d], line'[d] = line[d], ShownNow(d)
  PROVE  ShownNow(d)'
<1>1. /\ LoadLookup.items = LoadLookup'.items /\ LoadLookup.side = LoadLookup'.side
  <2>1. LoadLookup.items = itemOf /\ LoadLookup.side = ExpenseSide
    BY LookupFits
  <2>2. LoadLookup'.items = itemOf' /\ LoadLookup'.side = ExpenseSide'
    BY DEF LoadLookup
  <2> QED BY <2>1, <2>2
<1>2. PICK k : k = LoadLookup
  OBVIOUS
<1>3. PICK j : j = LoadLookup'
  OBVIOUS
<1>4. Newest(d)' = Newest(d)
  BY DEF Newest
<1>5. ShownAs(line[d], Newest(d), k) <=> ShownAs(line[d], Newest(d), j)
  BY <1>1, <1>2, <1>3, LookupMatters
<1> QED BY <1>2, <1>3, <1>4, <1>5 DEF ShownNow

LEMMA SideKept == mapping' = mapping => ExpenseSide' = ExpenseSide
BY DEF ExpenseSide

-----------------------------------------------------------------------------
(* One lemma per action.                                                     *)

LEMMA FetchInv ==
  ASSUME LedgerInv, NEW d \in CostDoc, NEW p \in CostPayload, Fetch(d, p)
  PROVE  LedgerInv'
<1> USE DEF LedgerInv
<1>1. /\ busy = Nothing /\ sent' = [sent EXCEPT ![d] = Append(@, p)]
      /\ todo' = todo \cup {<<d, Len(sent[d]) + 1>>}
      /\ itemOf' = itemOf /\ mapping' = mapping /\ alias' = alias /\ line' = line
      /\ runs' = runs /\ busy' = busy /\ remapped' = remapped
  BY DEF Fetch, settings
<1>2. PICK s \in Seq(CostPayload) : s = sent[d]
  BY DEF CostShaped
<1>3. Append(s, p) \in Seq(CostPayload) /\ Len(Append(s, p)) = Len(s) + 1 /\ Len(s) \in Nat
      /\ Append(s, p) # << >>
  BY AppendProperties, LenProperties
<1>4. sent' \in [CostDoc -> Seq(CostPayload)] /\ sent'[d] = Append(s, p)
      /\ \A e \in CostDoc : e # d => sent'[e] = sent[e]
  BY <1>1, <1>2, <1>3 DEF CostShaped
<1>5. todo' \subseteq Versions'
  <2>1. ASSUME NEW t \in todo PROVE t \in Versions'
    <3>1. t \in CostDoc \X Nat /\ 1 <= t[2] /\ t[2] <= Len(sent[t[1]])
      BY DEF CostShaped, Versions
    <3>2. t[2] <= Len(sent'[t[1]])
      BY <3>1, <1>2, <1>3, <1>4
    <3> QED BY <3>1, <3>2 DEF Versions
  <2>2. <<d, Len(s) + 1>> \in Versions'
    BY <1>3, <1>4 DEF Versions
  <2> QED BY <2>1, <2>2, <1>1, <1>2
<1>6. CostShaped'
  BY <1>1, <1>4, <1>5 DEF CostShaped, CostTypeOK
<1>7. RowsKnown'
  <2>1. ASSUME NEW e \in CostDoc PROVE MonthsIn(line'[e]) /\ (sent'[e] = << >> => NoneIn(line'[e]))
    BY <1>1, <1>3, <1>4 DEF RowsKnown
  <2> QED BY <2>1 DEF RowsKnown
<1>8. JobsFit'
  BY <1>1 DEF JobsFit
<1>9. LookFits'
  BY <1>1 DEF LookFits
<1>10. ShownFits'
  <2>1. SUFFICES ASSUME ~FullAhead', NEW e \in CostDoc PROVE ShownNow(e)' \/ Waits(e)'
    BY DEF ShownFits
  <2>2. CASE e = d
    <3>1. <<e, Len(sent'[e])>> \in todo'
      BY <2>2, <1>1, <1>2, <1>3, <1>4
    <3> QED BY <3>1 DEF Waits
  <2>3. CASE e # d
    <3>1. ~FullAhead
      BY <2>1, <1>1 DEF FullAhead
    <3>2. ShownNow(e) \/ Waits(e)
      BY <3>1 DEF ShownFits
    <3>3. Waits(e) => Waits(e)'
      BY <1>1, <1>4, <2>3 DEF Waits
    <3>4. ShownNow(e) => ShownNow(e)'
      BY <1>1, <1>4, <1>6, <2>3, SideKept, StillShown
    <3> QED BY <3>2, <3>3, <3>4
  <2> QED BY <2>2, <2>3
<1> QED BY <1>6, <1>7, <1>8, <1>9, <1>10

LEMMA FetchItemInv ==
  ASSUME LedgerInv, NEW i \in CostItem, NEW a \in CostAccount \cup {Nothing}, FetchItem(i, a)
  PROVE  LedgerInv'
<1> USE DEF LedgerInv
<1>1. /\ busy = Nothing /\ itemOf' = [itemOf EXCEPT ![i] = a] /\ runs' = runs \cup {"full"}
      /\ sent' = sent /\ todo' = todo /\ mapping' = mapping /\ alias' = alias /\ line' = line
      /\ busy' = busy /\ remapped' = remapped
  BY DEF FetchItem, settings
<1>2. CostShaped'
  <2>1. itemOf' \in [CostItem -> CostAccount \cup {Nothing}]
    BY <1>1 DEF CostShaped
  <2>2. Versions' = Versions
    BY <1>1 DEF Versions
  <2> QED BY <1>1, <2>1, <2>2 DEF CostShaped, CostTypeOK
<1>3. RowsKnown'
  BY <1>1 DEF RowsKnown
<1>4. JobsFit'
  BY <1>1 DEF JobsFit
<1>5. LookFits'
  BY <1>1 DEF LookFits
<1>6. ShownFits'
  BY <1>1 DEF ShownFits, FullAhead
<1> QED BY <1>2, <1>3, <1>4, <1>5, <1>6

\* A task is taken with the lookup of the moment.
LEMMA TaskBegins ==
  ASSUME LedgerInv, NEW t \in Versions \cup {FullRun},
         busy' = [task |-> t, look |-> LoadLookup],
         sent' = sent, itemOf' = itemOf, mapping' = mapping, alias' = alias, line' = line,
         todo' \subseteq todo, runs' \subseteq runs, "jobs" \in runs <=> "jobs" \in runs',
         remapped' \in BOOLEAN
  PROVE  /\ CostShaped' /\ RowsKnown' /\ JobsFit' /\ LookFits'
         /\ busy' # Nothing /\ busy'.task = t
<1> USE DEF LedgerInv
<1>1. t \in (CostDoc \X Nat) \cup {FullRun}
  BY VersionIsTask
<1>2. PICK k \in CostLookup : k = LoadLookup
  BY LookupFits
<1>3. /\ busy' = [task |-> t, look |-> k] /\ busy' \in CostTask /\ busy' # Nothing
      /\ busy'.task = t /\ busy'.look = k
  BY <1>1, <1>2, TasksAre
<1>4. k.items = itemOf /\ k.alias = alias /\ k.side = ExpenseSide
  BY <1>2, LookupFits
<1>5. CostShaped'
  <2>1. Versions' = Versions
    BY DEF Versions
  <2> QED BY <1>3, <2>1 DEF CostShaped, CostTypeOK
<1>6. RowsKnown'
  BY DEF RowsKnown
<1>7. JobsFit'
  BY <1>3, <1>4 DEF JobsFit
<1>8. LookFits'
  BY <1>3, <1>4, SideKept DEF LookFits
<1> QED BY <1>3, <1>5, <1>6, <1>7, <1>8

LEMMA BeginNormalizeInv ==
  ASSUME LedgerInv, NEW t \in todo, BeginNormalize(t)
  PROVE  LedgerInv'
<1> USE DEF LedgerInv
<1>1. /\ busy = Nothing /\ busy' = [task |-> t, look |-> LoadLookup] /\ todo' = todo \ {t}
      /\ sent' = sent /\ itemOf' = itemOf /\ mapping' = mapping /\ alias' = alias /\ line' = line
      /\ runs' = runs /\ remapped' = remapped
  BY DEF BeginNormalize, settings
<1>2. t \in Versions /\ remapped' \in BOOLEAN
  BY <1>1 DEF CostShaped
<1>3. /\ CostShaped' /\ RowsKnown' /\ JobsFit' /\ LookFits'
      /\ busy' # Nothing /\ busy'.task = t
  BY <1>1, <1>2, TaskBegins
<1>4. ShownFits'
  <2>1. SUFFICES ASSUME ~FullAhead', NEW e \in CostDoc PROVE ShownNow(e)' \/ Waits(e)'
    BY DEF ShownFits
  <2>2. ~FullAhead
    BY <2>1, <1>1 DEF FullAhead
  <2>3. ShownNow(e) \/ Waits(e)
    BY <2>2 DEF ShownFits
  <2>4. Waits(e) => Waits(e)'
    BY <1>1, <1>3 DEF Waits
  <2>5. ShownNow(e) => ShownNow(e)'
    BY <1>1, <1>3, SideKept, StillShown
  <2> QED BY <2>3, <2>4, <2>5
<1> QED BY <1>3, <1>4

LEMMA BeginFullRunInv ==
  ASSUME LedgerInv, BeginFullRun
  PROVE  LedgerInv'
<1> USE DEF LedgerInv
<1>1. /\ busy' = [task |-> FullRun, look |-> LoadLookup] /\ runs' = runs \ {"full"} /\ remapped' = FALSE
      /\ sent' = sent /\ itemOf' = itemOf /\ mapping' = mapping /\ alias' = alias /\ line' = line
      /\ todo' = todo
  BY DEF BeginFullRun, settings
<1>2. /\ CostShaped' /\ RowsKnown' /\ JobsFit' /\ LookFits'
      /\ busy' # Nothing /\ busy'.task = FullRun
  BY <1>1, TaskBegins
<1>3. ShownFits'
  BY <1>2 DEF ShownFits, FullAhead
<1> QED BY <1>2, <1>3

LEMMA EndNormalizeInv ==
  ASSUME LedgerInv, EndNormalize
  PROVE  LedgerInv'
<1> USE DEF LedgerInv
<1>1. /\ busy # Nothing /\ busy.task # FullRun /\ busy' = Nothing
      /\ sent' = sent /\ itemOf' = itemOf /\ mapping' = mapping /\ alias' = alias
      /\ todo' = todo /\ runs' = runs /\ remapped' = remapped
  BY DEF EndNormalize, settings
<1>2. busy.task \in Versions /\ busy \in CostTask
  BY <1>1 DEF CostShaped
<1>3. PICK k \in CostLookup : k = busy.look
  BY <1>2 DEF CostTask
<1>4. PICK d \in CostDoc, n \in Nat : busy.task = <<d, n>>
  BY <1>2 DEF Versions
<1>5. line' = IF n = Len(sent[d]) THEN [line EXCEPT ![d] = ApplyCost(d, sent[d][n], k)] ELSE line
  BY <1>3, <1>4 DEF EndNormalize
<1>6. line \in [CostDoc -> RowMaps] /\ \A e \in CostDoc : MonthsIn(line[e])
  BY DEF CostShaped, CostTypeOK, RowMaps, RowsKnown
<1>7. k.items = itemOf /\ (~remapped => k.side = ExpenseSide)
  BY <1>1, <1>3 DEF LookFits
<1>8. "jobs" \notin runs => k.alias = alias /\ \A e \in CostDoc : JobsIn(line[e], alias)
  BY <1>1, <1>3 DEF JobsFit
<1>9. sent[d] # << >>
  <2>1. 1 <= n /\ n <= Len(sent[d])
    BY <1>2, <1>4 DEF Versions
  <2> QED BY <2>1
<1>10. PICK p \in CostPayload : p = Newest(d)
  BY <1>9, NewestIs
<1>11. PICK w : w = ApplyCost(d, p, k)
  OBVIOUS
<1>12. /\ w \in RowMaps /\ MonthsIn(w) /\ ShownAs(w, p, k)
       /\ JobsIn(line[d], k.alias) => JobsIn(w, k.alias)
  BY <1>6, <1>11, ApplyShows
<1>13. /\ line' \in [CostDoc -> RowMaps]
       /\ n = Len(sent[d]) => line'[d] = w
       /\ n # Len(sent[d]) => line' = line
       /\ \A e \in CostDoc : e # d => line'[e] = line[e]
  <2>1. CASE n = Len(sent[d])
    <3>1. line' = [line EXCEPT ![d] = w]
      BY <2>1, <1>5, <1>10, <1>11 DEF Newest
    <3> QED BY <3>1, <2>1, <1>6, <1>12
  <2>2. CASE n # Len(sent[d])
    BY <2>2, <1>5, <1>6
  <2> QED BY <2>1, <2>2
<1>14. CostShaped'
  <2>1. Versions' = Versions
    BY <1>1 DEF Versions
  <2> QED BY <2>1, <1>1, <1>13 DEF CostShaped, CostTypeOK, RowMaps
<1>15. RowsKnown'
  <2>1. ASSUME NEW e \in CostDoc PROVE MonthsIn(line'[e]) /\ (sent'[e] = << >> => NoneIn(line'[e]))
    BY <1>1, <1>9, <1>12, <1>13 DEF RowsKnown
  <2> QED BY <2>1 DEF RowsKnown
<1>16. JobsFit'
  <2>1. ASSUME "jobs" \notin runs, NEW e \in CostDoc PROVE JobsIn(line'[e], alias)
    BY <2>1, <1>8, <1>12, <1>13
  <2> QED BY <2>1, <1>1 DEF JobsFit
<1>17. LookFits'
  BY <1>1 DEF LookFits
<1>18. ShownFits'
  <2>1. SUFFICES ASSUME ~FullAhead', NEW e \in CostDoc PROVE ShownNow(e)' \/ Waits(e)'
    BY DEF ShownFits
  <2>2. ~FullAhead
    BY <2>1, <1>1 DEF FullAhead
  <2>3. ~remapped
    BY <2>2 DEF FullAhead
  <2>4. CASE e = d /\ n = Len(sent[d])
    <3>1. PICK j : j = LoadLookup'
      OBVIOUS
    <3>2. j.items = itemOf /\ j.side = ExpenseSide
      BY <3>1, <1>1, SideKept DEF LoadLookup
    <3>3. ShownAs(w, p, j)
      BY <3>2, <2>3, <1>7, <1>12, LookupMatters
    <3>4. Newest(d)' = p /\ line'[d] = w
      BY <1>1, <1>10, <1>13, <2>4 DEF Newest
    <3> QED BY <3>1, <3>3, <3>4, <2>4 DEF ShownNow
  <2>5. CASE ~(e = d /\ n = Len(sent[d]))
    <3>1. ShownNow(e) \/ Waits(e)
      BY <2>2 DEF ShownFits
    <3>2. Waits(e) => Waits(e)'
      BY <2>5, <1>1, <1>4 DEF Waits
    <3>3. line'[e] = line[e]
      BY <2>5, <1>13
    <3>4. ShownNow(e) => ShownNow(e)'
      BY <3>3, <1>1, <1>14, SideKept, StillShown
    <3> QED BY <3>1, <3>2, <3>4
  <2> QED BY <2>4, <2>5
<1> QED BY <1>14, <1>15, <1>16, <1>17, <1>18

LEMMA EndFullRunInv ==
  ASSUME LedgerInv, EndFullRun
  PROVE  LedgerInv'
<1> USE DEF LedgerInv
<1>1. /\ busy # Nothing /\ busy' = Nothing
      /\ sent' = sent /\ itemOf' = itemOf /\ mapping' = mapping /\ alias' = alias
      /\ todo' = todo /\ runs' = runs /\ remapped' = remapped
  BY DEF EndFullRun, settings
<1>2. PICK k \in CostLookup : k = busy.look
  BY <1>1 DEF CostShaped, CostTask
<1>3. PICK ls : ls = [d \in CostDoc |-> IF sent[d] = << >> THEN line[d] ELSE ApplyCost(d, Newest(d), k)]
  OBVIOUS
<1>4. PICK nl : nl = Refill(ls)
  OBVIOUS
<1>5. line' = nl
  BY <1>2, <1>3, <1>4 DEF EndFullRun, Newest
<1>6. line \in [CostDoc -> RowMaps] /\ \A e \in CostDoc : MonthsIn(line[e])
  BY DEF CostShaped, CostTypeOK, RowMaps, RowsKnown
<1>7. ASSUME NEW d \in CostDoc
      PROVE  /\ ls[d] \in RowMaps /\ MonthsIn(ls[d])
             /\ sent[d] # << >> => ShownAs(ls[d], Newest(d), k)
             /\ sent[d] = << >> => NoneIn(ls[d])
  <2>1. CASE sent[d] = << >>
    BY <2>1, <1>3, <1>6 DEF RowsKnown
  <2>2. CASE sent[d] # << >>
    <3>1. PICK p \in CostPayload : p = Newest(d)
      BY <2>2, NewestIs
    <3>2. ls[d] = ApplyCost(d, p, k)
      BY <2>2, <3>1, <1>3
    <3> QED BY <2>2, <3>1, <3>2, <1>6, ApplyShows
  <2> QED BY <2>1, <2>2
<1>8. ls \in [CostDoc -> RowMaps]
  BY <1>3, <1>7
<1>9. /\ nl \in [CostDoc -> RowMaps]
      /\ \A d \in CostDoc : JobsIn(nl[d], alias) /\ SameCosts(nl[d], ls[d])
  BY <1>4, <1>8, RefillShows DEF CostShaped
<1>10. ASSUME NEW d \in CostDoc
       PROVE  /\ MonthsIn(nl[d]) /\ (sent[d] = << >> => NoneIn(nl[d]))
              /\ sent[d] # << >> => ShownAs(nl[d], Newest(d), k)
  BY <1>7, <1>9, SameShown
<1>11. CostShaped'
  <2>1. Versions' = Versions
    BY <1>1 DEF Versions
  <2> QED BY <2>1, <1>1, <1>5, <1>9 DEF CostShaped, CostTypeOK, RowMaps
<1>12. RowsKnown'
  BY <1>1, <1>5, <1>10 DEF RowsKnown
<1>13. JobsFit'
  BY <1>1, <1>5, <1>9 DEF JobsFit
<1>14. LookFits'
  BY <1>1 DEF LookFits
<1>15. ShownFits'
  <2>1. SUFFICES ASSUME ~FullAhead', NEW e \in CostDoc, sent'[e] # << >>
                 PROVE  ShownAs(line'[e], Newest(e)', LoadLookup')
    BY DEF ShownFits, ShownNow
  <2>2. ~remapped
    BY <2>1, <1>1 DEF FullAhead
  <2>3. k.items = itemOf /\ k.side = ExpenseSide
    BY <2>2, <1>1, <1>2 DEF LookFits
  <2>4. PICK j : j = LoadLookup'
    OBVIOUS
  <2>5. j.items = itemOf /\ j.side = ExpenseSide
    BY <2>4, <1>1, SideKept DEF LoadLookup
  <2>6. PICK p : p = Newest(e)
    OBVIOUS
  <2>7. p = Newest(e)' /\ line'[e] = nl[e] /\ ShownAs(nl[e], p, k)
    BY <2>1, <2>6, <1>1, <1>5, <1>10 DEF Newest
  <2>8. ShownAs(nl[e], p, j)
    BY <2>3, <2>5, <2>7, LookupMatters
  <2> QED BY <2>4, <2>7, <2>8
<1> QED BY <1>11, <1>12, <1>13, <1>14, <1>15

LEMMA JobsRunInv ==
  ASSUME LedgerInv, JobsRun
  PROVE  LedgerInv'
<1> USE DEF LedgerInv
<1>1. /\ busy = Nothing /\ busy' = busy /\ runs' = runs \ {"jobs"}
      /\ sent' = sent /\ itemOf' = itemOf /\ mapping' = mapping /\ alias' = alias
      /\ todo' = todo /\ remapped' = remapped
  BY DEF JobsRun, settings
<1>2. PICK nl : nl = Refill(line)
  OBVIOUS
<1>3. line' = nl
  BY <1>2 DEF JobsRun
<1>4. line \in [CostDoc -> RowMaps]
  BY DEF CostShaped, CostTypeOK, RowMaps
<1>5. /\ nl \in [CostDoc -> RowMaps]
      /\ \A d \in CostDoc : JobsIn(nl[d], alias) /\ SameCosts(nl[d], line[d])
  BY <1>2, <1>4, RefillShows DEF CostShaped
<1>6. CostShaped'
  <2>1. Versions' = Versions
    BY <1>1 DEF Versions
  <2> QED BY <2>1, <1>1, <1>3, <1>5 DEF CostShaped, CostTypeOK, RowMaps
<1>7. RowsKnown'
  <2>1. ASSUME NEW d \in CostDoc PROVE MonthsIn(nl[d]) /\ (sent[d] = << >> => NoneIn(nl[d]))
    BY <1>5, SameShown DEF RowsKnown
  <2> QED BY <2>1, <1>1, <1>3 DEF RowsKnown
<1>8. JobsFit'
  BY <1>1, <1>3, <1>5 DEF JobsFit
<1>9. LookFits'
  BY <1>1 DEF LookFits
<1>10. ShownFits'
  <2>1. SUFFICES ASSUME ~FullAhead', NEW e \in CostDoc PROVE ShownNow(e)' \/ Waits(e)'
    BY DEF ShownFits
  <2>2. ~FullAhead
    BY <2>1, <1>1 DEF FullAhead
  <2>3. ShownNow(e) \/ Waits(e)
    BY <2>2 DEF ShownFits
  <2>4. Waits(e) => Waits(e)'
    BY <1>1 DEF Waits
  <2>5. ASSUME ShownNow(e) PROVE ShownNow(e)'
    <3>1. SUFFICES ASSUME sent[e] # << >> PROVE ShownAs(line'[e], Newest(e)', LoadLookup')
      BY <1>1 DEF ShownNow
    <3>2. PICK k : k = LoadLookup
      OBVIOUS
    <3>3. PICK j : j = LoadLookup'
      OBVIOUS
    <3>4. PICK p : p = Newest(e)
      OBVIOUS
    <3>5. k.items = j.items /\ k.side = j.side
      BY <3>2, <3>3, <1>1, SideKept, LookupFits DEF LoadLookup
    <3>6. ShownAs(line[e], p, k)
      BY <2>5, <3>1, <3>2, <3>4 DEF ShownNow
    <3>7. ShownAs(nl[e], p, k)
      BY <3>6, <1>5, SameShown
    <3>8. ShownAs(nl[e], p, j)
      BY <3>5, <3>7, LookupMatters
    <3> QED BY <3>3, <3>4, <3>8, <1>1, <1>3 DEF Newest
  <2> QED BY <2>3, <2>4, <2>5
<1> QED BY <1>6, <1>7, <1>8, <1>9, <1>10

LEMMA CostWorkerDiesInv ==
  ASSUME LedgerInv, CostWorkerDies
  PROVE  LedgerInv'
<1> USE DEF LedgerInv
<1>1. /\ busy # Nothing /\ busy' = Nothing /\ runs' = runs \cup {"full"}
      /\ todo' = IF busy.task = FullRun THEN todo ELSE todo \cup {busy.task}
      /\ sent' = sent /\ itemOf' = itemOf /\ mapping' = mapping /\ alias' = alias
      /\ line' = line /\ remapped' = remapped
  BY DEF CostWorkerDies, settings
<1>2. CostShaped'
  <2>1. Versions' = Versions
    BY <1>1 DEF Versions
  <2>2. busy.task \in Versions \cup {FullRun} /\ todo \subseteq Versions
    BY <1>1 DEF CostShaped
  <2>3. todo' \subseteq Versions
    BY <2>2, <1>1
  <2> QED BY <1>1, <2>1, <2>3 DEF CostShaped, CostTypeOK
<1>3. RowsKnown'
  BY <1>1 DEF RowsKnown
<1>4. JobsFit'
  BY <1>1 DEF JobsFit
<1>5. LookFits'
  BY <1>1 DEF LookFits
<1>6. ShownFits'
  BY <1>1 DEF ShownFits, FullAhead
<1> QED BY <1>2, <1>3, <1>4, <1>5, <1>6

LEMMA SetLinkInv ==
  ASSUME LedgerInv, NEW c \in Coded, NEW j \in CostSite \cup {Nothing}, SetLink(c, j)
  PROVE  LedgerInv'
<1> USE DEF LedgerInv
<1>1. /\ alias' = [alias EXCEPT ![c] = j] /\ runs' = runs \cup {"jobs"}
      /\ sent' = sent /\ itemOf' = itemOf /\ mapping' = mapping /\ line' = line
      /\ todo' = todo /\ busy' = busy /\ remapped' = remapped
  BY DEF SetLink, Edit
<1>2. CostShaped'
  <2>1. Versions' = Versions
    BY <1>1 DEF Versions
  <2>2. alias' \in [Coded -> CostSite \cup {Nothing}]
    BY <1>1 DEF CostShaped
  <2> QED BY <1>1, <2>1, <2>2 DEF CostShaped, CostTypeOK
<1>3. RowsKnown'
  BY <1>1 DEF RowsKnown
<1>4. JobsFit'
  BY <1>1 DEF JobsFit
<1>5. LookFits'
  BY <1>1, SideKept DEF LookFits
<1>6. ShownFits'
  <2>1. SUFFICES ASSUME ~FullAhead', NEW e \in CostDoc PROVE ShownNow(e)' \/ Waits(e)'
    BY DEF ShownFits
  <2>2. ~FullAhead
    BY <2>1, <1>1 DEF FullAhead
  <2>3. ShownNow(e) \/ Waits(e)
    BY <2>2 DEF ShownFits
  <2>4. Waits(e) => Waits(e)'
    BY <1>1 DEF Waits
  <2>5. ShownNow(e) => ShownNow(e)'
    BY <1>1, <1>2, SideKept, StillShown
  <2> QED BY <2>3, <2>4, <2>5
<1> QED BY <1>2, <1>3, <1>4, <1>5, <1>6

LEMMA ConfirmMappingInv ==
  ASSUME LedgerInv, NEW a \in CostAccount, NEW r \in MapChoice, ConfirmMapping(a, r)
  PROVE  LedgerInv'
<1> USE DEF LedgerInv
<1>1. /\ mapping' = [mapping EXCEPT ![a] = r] /\ runs' = runs
      /\ sent' = sent /\ itemOf' = itemOf /\ alias' = alias /\ line' = line
      /\ todo' = todo /\ busy' = busy
      /\ remapped' = (remapped \/ ExpenseSide' # ExpenseSide)
  BY DEF ConfirmMapping, Edit
<1>2. remapped' \in BOOLEAN /\ (~remapped' => ~remapped /\ ExpenseSide' = ExpenseSide)
  BY <1>1 DEF CostShaped
<1>3. CostShaped'
  <2>1. Versions' = Versions
    BY <1>1 DEF Versions
  <2>2. mapping' \in [CostAccount -> MappingRow \cup {Nothing}]
    BY <1>1, CostAssumption DEF CostShaped, CostTypeOK
  <2> QED BY <1>1, <1>2, <2>1, <2>2 DEF CostShaped, CostTypeOK
<1>4. RowsKnown'
  BY <1>1 DEF RowsKnown
<1>5. JobsFit'
  BY <1>1 DEF JobsFit
<1>6. LookFits'
  BY <1>1, <1>2 DEF LookFits
<1>7. ShownFits'
  <2>1. SUFFICES ASSUME ~FullAhead', NEW e \in CostDoc PROVE ShownNow(e)' \/ Waits(e)'
    BY DEF ShownFits
  <2>2. ~FullAhead /\ ExpenseSide' = ExpenseSide
    BY <2>1, <1>1, <1>2 DEF FullAhead
  <2>3. ShownNow(e) \/ Waits(e)
    BY <2>2 DEF ShownFits
  <2>4. Waits(e) => Waits(e)'
    BY <1>1 DEF Waits
  <2>5. ShownNow(e) => ShownNow(e)'
    BY <1>1, <1>3, <2>2, StillShown
  <2> QED BY <2>3, <2>4, <2>5
<1> QED BY <1>3, <1>4, <1>5, <1>6, <1>7

LEMMA CostStep == LedgerInv /\ [CostNext]_costVars => LedgerInv'
<1> SUFFICES ASSUME LedgerInv, [CostNext]_costVars PROVE LedgerInv'
  OBVIOUS
<1>1. ASSUME NEW d \in CostDoc, NEW p \in CostPayload, Fetch(d, p) PROVE LedgerInv'
  BY <1>1, FetchInv
<1>2. ASSUME NEW i \in CostItem, NEW a \in CostAccount \cup {Nothing}, FetchItem(i, a) PROVE LedgerInv'
  BY <1>2, FetchItemInv
<1>3. ASSUME NEW t \in todo, BeginNormalize(t) PROVE LedgerInv'
  BY <1>3, BeginNormalizeInv
<1>4. CASE EndNormalize
  BY <1>4, EndNormalizeInv
<1>5. CASE BeginFullRun
  BY <1>5, BeginFullRunInv
<1>6. CASE EndFullRun
  BY <1>6, EndFullRunInv
<1>7. CASE JobsRun
  BY <1>7, JobsRunInv
<1>8. CASE CostWorkerDies
  BY <1>8, CostWorkerDiesInv
<1>9. ASSUME NEW c \in Coded, NEW j \in CostSite \cup {Nothing}, SetLink(c, j) PROVE LedgerInv'
  BY <1>9, SetLinkInv
<1>10. ASSUME NEW a \in CostAccount, NEW r \in MapChoice, ConfirmMapping(a, r) PROVE LedgerInv'
  BY <1>10, ConfirmMappingInv
<1>11. CASE UNCHANGED costVars
  <2>1. /\ sent' = sent /\ itemOf' = itemOf /\ mapping' = mapping /\ alias' = alias /\ line' = line
        /\ todo' = todo /\ runs' = runs /\ busy' = busy /\ edits' = edits /\ remapped' = remapped
    BY <1>11 DEF costVars
  <2>2. Versions' = Versions
    BY <2>1 DEF Versions
  <2>3. CostShaped'
    BY <2>1, <2>2 DEF LedgerInv, CostShaped, CostTypeOK
  <2>4. RowsKnown' /\ JobsFit'
    BY <2>1 DEF LedgerInv, RowsKnown, JobsFit
  <2>5. LookFits'
    BY <2>1, SideKept DEF LedgerInv, LookFits
  <2>6. ShownFits'
    <3>1. \A d \in CostDoc : (ShownNow(d) => ShownNow(d)') /\ (Waits(d) => Waits(d)')
      BY <2>1, <2>3, SideKept, StillShown DEF LedgerInv, Waits
    <3>2. FullAhead => FullAhead'
      BY <2>1 DEF FullAhead
    <3> QED BY <3>1, <3>2 DEF LedgerInv, ShownFits
  <2> QED BY <2>3, <2>4, <2>5, <2>6 DEF LedgerInv
<1> QED BY <1>1, <1>2, <1>3, <1>4, <1>5, <1>6, <1>7, <1>8, <1>9, <1>10, <1>11 DEF CostNext

-----------------------------------------------------------------------------
(* Drift.                                                                    *)

Amounts == [x \in RowsOf |-> CostRow(x).amount]

LEMMA RowsFinite ==
  ASSUME CostShaped
  PROVE  /\ IsFiniteSet(RowsOf) /\ Addable(Amounts, RowsOf)
         /\ \A x \in RowsOf : /\ x = <<x[1], x[2]>> /\ x[1] \in CostDoc /\ x[2] \in CostLineId
                              /\ CostRow(x) = line[x[1]][x[2]] /\ CostRow(x) \in LedgerLine
<1>1. IsFiniteSet(CostDoc \X CostLineId)
  BY CostAssumption, FS_Product
<1>2. RowsOf \subseteq CostDoc \X CostLineId
  BY DEF RowsOf
<1>3. IsFiniteSet(RowsOf)
  BY <1>1, <1>2, FS_Subset
<1>4. ASSUME NEW x \in RowsOf
      PROVE  /\ x = <<x[1], x[2]>> /\ x[1] \in CostDoc /\ x[2] \in CostLineId
             /\ CostRow(x) = line[x[1]][x[2]] /\ CostRow(x) \in LedgerLine
             /\ CostRow(x).amount \in Int
  <2>1. x = <<x[1], x[2]>> /\ x[1] \in CostDoc /\ x[2] \in CostLineId
    BY <1>2
  <2>2. line[x[1]] \in RowMaps /\ line[x[1]][x[2]] # Nothing
    BY <2>1 DEF RowsOf, CostShaped, CostTypeOK, RowMaps
  <2>3. PICK r \in LedgerLine : r = line[x[1]][x[2]]
    BY <2>1, <2>2, RowThere
  <2>4. r.amount \in Int
    BY DEF LedgerLine
  <2> QED BY <2>1, <2>3, <2>4 DEF CostRow
<1>5. Addable(Amounts, RowsOf)
  BY <1>4 DEF Addable, Amounts
<1> QED BY <1>3, <1>4, <1>5

LEMMA TotalIs ==
  ASSUME CostShaped, NEW S \in SUBSET RowsOf
  PROVE  /\ IsFiniteSet(S) /\ Addable(Amounts, S)
         /\ Total(S) = SumFunctionOnSet(Amounts, S)
<1>1. IsFiniteSet(S) /\ Addable(Amounts, S)
  BY RowsFinite, FS_Subset DEF Addable
<1>2. PICK g : g = [x \in S |-> CostRow(x).amount]
  OBVIOUS
<1>3. DOMAIN g = S /\ \A x \in S : g[x] = Amounts[x]
  BY <1>2 DEF Amounts
<1>4. SumFunction(g) = SumFunctionOnSet(Amounts, S)
  BY <1>1, <1>3, SumOverDomain
<1> QED BY <1>1, <1>2, <1>4 DEF Total

\* The rows a month and an account are summed from, of all documents and of one.
Posted(m, a) == {x \in LiveRows : CostRow(x).month = m /\ CostRow(x).account = a}
PostedBy(d, m, a) == {x \in Posted(m, a) : x[1] = d}
Counted(m) == {d \in CostDoc : Counts(d) /\ Newest(d).month = m /\ ~VoidedDoc(Newest(d), LoadLookup)}

LEMMA PostedRows ==
  ASSUME CostShaped, NEW m, NEW a
  PROVE  /\ Posted(m, a) \in SUBSET RowsOf
         /\ \A x \in RowsOf : x \in Posted(m, a) <=>
              ~CostRow(x).deleted /\ CostRow(x).month = m /\ CostRow(x).account = a
BY DEF Posted, LiveRows

\* A document's rows add up to its newest payload.
LEMMA RawIsPosted ==
  ASSUME CostShaped, NEW m, NEW a, NEW d \in Counted(m),
         ShownAs(line[d], Newest(d), LoadLookup)
  PROVE  /\ RawOf(Newest(d), a) = SumFunctionOnSet(Amounts, PostedBy(d, m, a))
         /\ RawOf(Newest(d), a) \in Int
<1>1. sent[d] # << >> /\ Readable(Newest(d)) /\ Newest(d).month = m /\ ~VoidedDoc(Newest(d), LoadLookup)
      /\ d \in CostDoc
  BY DEF Counted, Counts, Readable
<1>2. PICK p \in CostPayload : p = Newest(d)
  BY <1>1, NewestIs
<1>3. PICK k \in CostLookup : k = LoadLookup
  BY LookupFits
<1>4. CostLines(p, k) \subseteq CostLineId /\ CostLines(p, k) \subseteq DOMAIN p.lines
  BY PayloadFits DEF CostLines
<1>5. PICK ls : ls = {l \in CostLines(p, k) : AccountRef(p.lines[l], k) = a}
  OBVIOUS
<1>6. PICK g : g = [l \in ls |-> p.sign * p.lines[l].amount]
  OBVIOUS
<1>7. RawOf(p, a) = SumFunction(g)
  BY <1>3, <1>5, <1>6 DEF RawOf
<1>8. IsFiniteSet(ls) /\ ls \subseteq CostLines(p, k)
  <2>1. ls \subseteq CostLineId
    BY <1>4, <1>5
  <2> QED BY <2>1, <1>5, CostAssumption, FS_Subset
<1>9. \A l \in ls : g[l] \in Int
  BY <1>4, <1>6, <1>8, PayloadFits
<1>10. Addable(g, ls)
  BY <1>9 DEF Addable
<1>11. SumFunction(g) = SumFunctionOnSet(g, ls)
  BY <1>6, <1>8, <1>10, SumOverDomain
<1>12. ASSUME NEW l \in CostLines(p, k)
       PROVE  /\ <<d, l>> \in RowsOf /\ RowSays(CostRow(<<d, l>>), p, l, k)
              /\ CostRow(<<d, l>>).deleted = FALSE
  <2>1. RowSays(line[d][l], p, l, k) /\ l \in CostLineId
    BY <1>1, <1>2, <1>3, <1>4 DEF ShownAs
  <2>2. <<d, l>> \in RowsOf
    BY <2>1, <1>1 DEF RowsOf, RowSays
  <2>3. CostRow(<<d, l>>) = line[d][l] /\ CostRow(<<d, l>>) \in LedgerLine
    BY <2>2, RowsFinite DEF CostRow
  <2>4. CostRow(<<d, l>>).deleted \in BOOLEAN
    BY <2>3 DEF LedgerLine
  <2>5. ~VoidedDoc(p, k)
    BY <1>1, <1>2, <1>3
  <2> QED BY <2>1, <2>2, <2>3, <2>4, <2>5 DEF RowSays
<1>13. PICK name : name = [l \in ls |-> <<d, l>>]
  OBVIOUS
<1>14. PICK T : T = PostedBy(d, m, a)
  OBVIOUS
<1>15. \A l \in ls : name[l] \in T
  <2>1. ASSUME NEW l \in ls PROVE <<d, l>> \in T
    <3>1. l \in CostLines(p, k) /\ AccountRef(p.lines[l], k) = a
      BY <1>5
    <3>2. <<d, l>> \in Posted(m, a)
      BY <3>1, <1>12, <1>1, <1>2, PostedRows DEF RowSays
    <3> QED BY <3>2, <1>14 DEF PostedBy
  <2> QED BY <2>1, <1>13
<1>16. \A y \in T : \E l \in ls : name[l] = y
  <2>1. ASSUME NEW y \in T PROVE \E l \in ls : <<d, l>> = y
    <3>1. y \in Posted(m, a) /\ y[1] = d
      BY <1>14 DEF PostedBy
    <3>2. y \in RowsOf /\ CostRow(y).account = a
      BY <3>1, PostedRows
    <3>3. y = <<d, y[2]>> /\ y[2] \in CostLineId /\ line[d][y[2]] # Nothing
      BY <3>1, <3>2, RowsFinite DEF RowsOf
    <3>4. y[2] \in CostLines(p, k)
      BY <3>3, <1>1, <1>2, <1>3 DEF ShownAs
    <3>5. AccountRef(p.lines[y[2]], k) = a
      BY <3>2, <3>3, <3>4, <1>12 DEF RowSays
    <3> QED BY <3>3, <3>4, <3>5, <1>5
  <2> QED BY <2>1, <1>13
<1>17. \A l \in ls : g[l] = Amounts[name[l]]
  <2>1. ASSUME NEW l \in ls PROVE p.sign * p.lines[l].amount = Amounts[<<d, l>>]
    BY <1>8, <1>12 DEF RowSays, Amounts
  <2> QED BY <2>1, <1>6, <1>13
<1>18. T \in SUBSET RowsOf
  BY <1>14, PostedRows DEF PostedBy
<1>19. IsFiniteSet(T) /\ Addable(Amounts, T)
  BY <1>18, TotalIs
<1>20. \A x, y \in ls : name[x] = name[y] => x = y
  BY <1>13
<1>21. SumFunctionOnSet(g, ls) = SumFunctionOnSet(Amounts, T)
  BY <1>8, <1>19, <1>15, <1>16, <1>17, <1>20, SumRenamed
<1>22. SumFunctionOnSet(g, ls) \in Int
  BY <1>8, <1>10, SumIsWhole
<1> QED BY <1>2, <1>7, <1>11, <1>14, <1>21, <1>22

LEMMA NothingPosted ==
  ASSUME CostShaped, RowsKnown, NEW m, NEW a, NEW d \in CostDoc \ Counted(m),
         sent[d] # << >> => Newest(d).readable, ShownNow(d)
  PROVE  PostedBy(d, m, a) = {}
<1>1. SUFFICES ASSUME NEW x \in PostedBy(d, m, a) PROVE FALSE
  OBVIOUS
<1>2. x \in Posted(m, a) /\ x[1] = d
  BY <1>1 DEF PostedBy
<1>3. x \in RowsOf /\ ~CostRow(x).deleted /\ CostRow(x).month = m
  BY <1>2, PostedRows
<1>4. PICK l \in CostLineId : l = x[2]
  BY <1>3, RowsFinite
<1>5. PICK r \in LedgerLine : r = line[d][l]
  BY <1>2, <1>3, <1>4, RowsFinite
<1>6. r # Nothing /\ ~r.deleted /\ r.month = m
  BY <1>2, <1>3, <1>4, <1>5, RowsFinite, LedgerRowIs
<1>7. sent[d] # << >>
  BY <1>5, <1>6 DEF RowsKnown, NoneIn
<1>8. PICK p \in CostPayload : p = Newest(d)
  BY <1>7, NewestIs
<1>9. PICK k : k = LoadLookup
  OBVIOUS
<1>10. p.readable /\ ShownAs(line[d], p, k)
  BY <1>7, <1>8, <1>9 DEF ShownNow
<1>11. ~Withdrawn(p)
  BY <1>5, <1>6, <1>10 DEF ShownAs
<1>12. Readable(p)
  BY <1>10, <1>11 DEF Readable, Withdrawn
<1>13. RowSays(r, p, l, k)
  BY <1>5, <1>6, <1>10, <1>12 DEF ShownAs
<1>14. ~VoidedDoc(p, k) /\ p.month = m
  BY <1>6, <1>13 DEF RowSays
<1> QED BY <1>7, <1>8, <1>9, <1>12, <1>14 DEF Counted, Counts, Readable

LEMMA NoDrift == LedgerInv => NoFalseDrift
<1>1. SUFFICES ASSUME LedgerInv, CostQuiet, ~remapped,
                      \A d \in CostDoc : sent[d] # << >> => Newest(d).readable
               PROVE  CostDifferences = {}
  BY DEF NoFalseDrift
<1>2. CostShaped /\ RowsKnown
  BY <1>1 DEF LedgerInv
<1>3. \A d \in CostDoc : ShownNow(d)
  BY <1>1 DEF LedgerInv, ShownFits, FullAhead, Waits, CostQuiet
<1>4. ASSUME NEW m \in CostMonths, NEW a \in CostAccount \cup {Nothing}
      PROVE  LedgerSum(m, a) = RawSum(m, a)
  <2>1. PICK T \in SUBSET RowsOf : T = Posted(m, a)
    BY <1>2, PostedRows
  <2>2. IsFiniteSet(T) /\ Addable(Amounts, T) /\ LedgerSum(m, a) = SumFunctionOnSet(Amounts, T)
    BY <1>2, <2>1, TotalIs DEF LedgerSum, Posted
  <2>3. PICK key : key = [x \in T |-> x[1]]
    OBVIOUS
  <2>4. PICK G : G = [d \in CostDoc |-> SumFunctionOnSet(Amounts, PostedBy(d, m, a))]
    OBVIOUS
  <2>5. \A d \in CostDoc : {x \in T : key[x] = d} = PostedBy(d, m, a)
    BY <2>1, <2>3 DEF PostedBy
  <2>6. \A x \in T : key[x] \in CostDoc
    BY <1>2, <2>3, RowsFinite
  <2>7. Grouped(G, CostDoc, Amounts, T, key)
    BY <2>4, <2>5, <2>6 DEF Grouped
  <2>8. SumFunctionOnSet(G, CostDoc) = SumFunctionOnSet(Amounts, T)
    BY <2>2, <2>7, CostAssumption, SumBy
  <2>9. PICK D \in SUBSET CostDoc : D = Counted(m)
    BY DEF Counted
  <2>10. PICK h : h = [d \in D |-> RawOf(Newest(d), a)]
    OBVIOUS
  <2>11. ASSUME NEW d \in D PROVE h[d] = G[d] /\ h[d] \in Int
    <3>1. ShownAs(line[d], Newest(d), LoadLookup)
      BY <1>3, <2>9 DEF ShownNow, Counted, Counts
    <3>2. /\ RawOf(Newest(d), a) = SumFunctionOnSet(Amounts, PostedBy(d, m, a))
          /\ RawOf(Newest(d), a) \in Int
      BY <3>1, <1>2, <2>9, RawIsPosted
    <3> QED BY <3>2, <2>4, <2>10
  <2>12. ASSUME NEW d \in CostDoc, d \notin D PROVE G[d] = 0
    <3>1. PostedBy(d, m, a) = {}
      BY <1>1, <1>2, <1>3, <2>9, <2>12, NothingPosted
    <3> QED BY <3>1, <2>4, SumOfNone
  <2>13. Addable(h, D) /\ IsFiniteSet(D) /\ DOMAIN h = D
    BY <2>10, <2>11, CostAssumption, FS_Subset DEF Addable
  <2>14. \A d \in CostDoc : G[d] = IF d \in D THEN h[d] ELSE 0
    BY <2>11, <2>12
  <2>15. SumFunctionOnSet(h, D) = SumFunctionOnSet(G, CostDoc)
    BY <2>13, <2>14, CostAssumption, SumWithin
  <2>16. SumFunction(h) = SumFunctionOnSet(h, D)
    BY <2>13, SumOverDomain
  <2>17. RawSum(m, a) = SumFunction(h)
    BY <2>9, <2>10 DEF RawSum, Counted
  <2> QED BY <2>2, <2>8, <2>15, <2>16, <2>17
<1> QED BY <1>4 DEF CostDifferences

-----------------------------------------------------------------------------
(* Figures.                                                                  *)

\* What figures say of a row.
LEMMA PartIs ==
  ASSUME CostShaped, NEW pol, NEW x \in RowsOf
  PROVE  /\ JobCostLine(x) \in BOOLEAN
         /\ JobCostLine(x) => CostRow(x).account # Nothing /\ mapping[CostRow(x).account] # Nothing
                              /\ mapping[CostRow(x).account].jobCost /\ CostRow(x).account \in CostAccount
                              /\ SlotOf(x) = mapping[CostRow(x).account].slot
         /\ PartOf(x, pol) = "unassigned" <=> JobCostLine(x) /\ CostRow(x).job = Nothing
         /\ PartOf(x, pol) = "on_jobs" <=> /\ JobCostLine(x) /\ CostRow(x).job # Nothing
                                           /\ pol.basis = Nothing \/ SlotOf(x) \in pol.basis
         /\ PartOf(x, pol) = "memo" <=> /\ JobCostLine(x) /\ CostRow(x).job # Nothing
                                        /\ ~(pol.basis = Nothing \/ SlotOf(x) \in pol.basis)
<1>1. PICK r \in LedgerLine : r = CostRow(x)
  BY RowsFinite
<1>2. r.account \in CostAccount \cup {Nothing}
  BY DEF LedgerLine
<1>3. ASSUME MapOf(x) # Nothing
      PROVE  /\ r.account # Nothing /\ r.account \in CostAccount /\ MapOf(x) = mapping[r.account]
             /\ MapOf(x) \in MappingRow
  <2>1. r.account # Nothing /\ MapOf(x) = mapping[r.account] /\ r.account \in CostAccount
    BY <1>1, <1>2, <1>3 DEF MapOf
  <2>2. mapping[r.account] \in MappingRow \cup {Nothing}
    BY <2>1 DEF CostShaped, CostTypeOK
  <2> QED BY <2>1, <2>2, <1>3
<1>4. Labor(x) \in BOOLEAN
  BY DEF Labor
<1>5. JobCostLine(x) \in BOOLEAN
  <2>1. CASE MapOf(x) # Nothing
    <3>1. MapOf(x).jobCost \in BOOLEAN
      BY <2>1, <1>3 DEF MappingRow
    <3> QED BY <3>1 DEF JobCostLine
  <2>2. CASE MapOf(x) = Nothing
    BY <2>2 DEF JobCostLine
  <2> QED BY <2>1, <2>2
<1>6. JobCostLine(x) => ~Labor(x) /\ MapOf(x) # Nothing /\ MapOf(x).jobCost
  BY DEF JobCostLine
<1>7. JobCostLine(x) => CostRow(x).account # Nothing /\ mapping[CostRow(x).account] # Nothing
                        /\ mapping[CostRow(x).account].jobCost /\ CostRow(x).account \in CostAccount
                        /\ SlotOf(x) = mapping[CostRow(x).account].slot
  BY <1>1, <1>3, <1>6 DEF SlotOf
<1>8. CASE Labor(x)
  <2>1. PartOf(x, pol) = "labor" /\ ~JobCostLine(x)
    BY <1>8, <1>6 DEF PartOf
  <2> QED BY <2>1, <1>5, <1>7
<1>9. CASE ~Labor(x) /\ ~JobCostLine(x)
  <2>1. PartOf(x, pol) = "outside"
    BY <1>9 DEF PartOf
  <2> QED BY <2>1, <1>5, <1>7, <1>9
<1>10. CASE JobCostLine(x) /\ CostRow(x).job = Nothing
  <2>1. PartOf(x, pol) = "unassigned"
    BY <1>6, <1>10 DEF PartOf
  <2> QED BY <2>1, <1>5, <1>7, <1>10
<1>11. CASE JobCostLine(x) /\ CostRow(x).job # Nothing
  <2>1. PartOf(x, pol) = IF pol.basis = Nothing \/ SlotOf(x) \in pol.basis THEN "on_jobs" ELSE "memo"
    BY <1>6, <1>11 DEF PartOf
  <2> QED BY <2>1, <1>5, <1>7, <1>11
<1> QED BY <1>4, <1>5, <1>8, <1>9, <1>10, <1>11

\* The job-cost lines on jobs that are read.
Working == {x \in LiveRows : JobCostLine(x) /\ CostRow(x).job # Nothing /\ CostRow(x).month <= AsOf}
JobKey == [x \in Working |-> CostRow(x).job]
SlotKey == [x \in Working |-> SlotOf(x)]

LEMMA WorkingRows ==
  ASSUME CostShaped
  PROVE  /\ Working \in SUBSET RowsOf
         /\ IsFiniteSet(Working) /\ Addable(Amounts, Working)
         /\ \A x \in Working : JobKey[x] = CostRow(x).job /\ JobKey[x] \in CostSite /\ SlotKey[x] = SlotOf(x)
<1>1. Working \in SUBSET RowsOf
  BY DEF Working, LiveRows
<1>2. ASSUME NEW x \in Working PROVE CostRow(x).job \in CostSite
  <2>1. CostRow(x) \in LedgerLine /\ CostRow(x).job # Nothing
    BY <1>1, RowsFinite DEF Working
  <2> QED BY <2>1 DEF LedgerLine
<1>3. IsFiniteSet(Working) /\ Addable(Amounts, Working)
  BY <1>1, TotalIs
<1> QED BY <1>1, <1>2, <1>3 DEF JobKey, SlotKey

\* What the jobs show for the categories C is what the lines of C come to.
LEMMA JobsShow ==
  ASSUME CostShaped, NEW C \in SUBSET CostSlot
  PROVE  SumFunction([j \in CostSite |-> JobCost(j, C)])
           = SumFunctionOnSet(Amounts, Among(Working, JobKey, CostSite, SlotKey, C))
<1>1. PICK S \in SUBSET RowsOf : S = Working
  BY WorkingRows
<1>2. PICK kj : kj = JobKey
  OBVIOUS
<1>3. PICK ks : ks = SlotKey
  OBVIOUS
<1>4. /\ IsFiniteSet(S) /\ Addable(Amounts, S)
      /\ \A x \in S : kj[x] = CostRow(x).job /\ kj[x] \in CostSite /\ ks[x] = SlotOf(x)
  BY <1>1, <1>2, <1>3, WorkingRows
<1>5. IsFiniteSet(CostSite) /\ IsFiniteSet(C)
  BY CostAssumption, FS_Subset
<1>6. ASSUME NEW j \in CostSite
      PROVE  /\ JobCost(j, C) = SumFunctionOnSet(Amounts, Among(S, kj, {j}, ks, C))
             /\ JobCost(j, C) \in Int
  <2>1. PICK g : g = [s \in C |-> CategoryCost(j, s)]
    OBVIOUS
  <2>2. ASSUME NEW s \in C PROVE g[s] = SumFunctionOnSet(Amounts, Among(S, kj, {j}, ks, {s})) /\ g[s] \in Int
    <3>1. PICK T : T = {x \in LiveRows : /\ CostRow(x).job = j /\ JobCostLine(x)
                                         /\ CostRow(x).month <= AsOf /\ SlotOf(x) = s}
      OBVIOUS
    <3>2. T \in SUBSET RowsOf
      BY <3>1 DEF LiveRows
    <3>3. j # Nothing
      BY CostAssumption
    <3>4. T = Among(S, kj, {j}, ks, {s})
      <4>1. \A x \in T : x \in S
        BY <1>1, <3>1, <3>3 DEF Working
      <4>2. \A x \in T : kj[x] = j /\ ks[x] = s
        BY <4>1, <1>4, <3>1
      <4>3. \A x \in S : kj[x] = j /\ ks[x] = s => x \in T
        BY <1>1, <1>4, <3>1 DEF Working
      <4> QED BY <4>1, <4>2, <4>3 DEF Among
    <3>5. CategoryCost(j, s) = Total(T)
      BY <3>1 DEF CategoryCost
    <3>6. IsFiniteSet(T) /\ Addable(Amounts, T) /\ Total(T) = SumFunctionOnSet(Amounts, T)
      BY <3>2, TotalIs
    <3> QED BY <2>1, <3>4, <3>5, <3>6, SumIsWhole
  <2>3. DOMAIN g = C /\ Addable(g, C)
    BY <2>1, <2>2 DEF Addable
  <2>4. SumFunction(g) = SumFunctionOnSet(g, C) /\ SumFunctionOnSet(g, C) \in Int
    BY <1>5, <2>3, SumOverDomain, SumIsWhole
  <2>5. SecondGrouped(g, C, Amounts, S, kj, ks, {j})
    BY <2>2 DEF SecondGrouped
  <2>6. SumFunctionOnSet(g, C) = SumFunctionOnSet(Amounts, Among(S, kj, {j}, ks, C))
    BY <2>5, <1>4, <1>5, SumBySecond
  <2> QED BY <2>1, <2>4, <2>6 DEF JobCost
<1>7. PICK h : h = [j \in CostSite |-> JobCost(j, C)]
  OBVIOUS
<1>8. DOMAIN h = CostSite /\ Addable(h, CostSite) /\ FirstGrouped(h, CostSite, Amounts, S, kj, ks, C)
  BY <1>6, <1>7 DEF Addable, FirstGrouped
<1>9. SumFunction(h) = SumFunctionOnSet(h, CostSite)
  BY <1>5, <1>8, SumOverDomain
<1>10. SumFunctionOnSet(h, CostSite) = SumFunctionOnSet(Amounts, Among(S, kj, CostSite, ks, C))
  BY <1>4, <1>5, <1>8, SumByFirst
<1> QED BY <1>1, <1>2, <1>3, <1>7, <1>9, <1>10

PartRows(p, pol, m) == {x \in LiveRows : PartOf(x, pol) = p /\ CostRow(x).month <= m}

LEMMA TieOutIs ==
  ASSUME CostShaped, NEW p, NEW pol, NEW m
  PROVE  /\ PartRows(p, pol, m) \in SUBSET RowsOf
         /\ IsFiniteSet(PartRows(p, pol, m)) /\ Addable(Amounts, PartRows(p, pol, m))
         /\ TieOut(p, pol, m) = SumFunctionOnSet(Amounts, PartRows(p, pol, m))
<1>1. PICK T : T = PartRows(p, pol, m)
  OBVIOUS
<1>2. T \in SUBSET RowsOf
  BY <1>1 DEF PartRows, LiveRows
<1>3. TieOut(p, pol, m) = Total(T)
  BY <1>1 DEF TieOut, PartRows
<1> QED BY <1>1, <1>2, <1>3, TotalIs

\* On jobs and in memo are the two parts of what the jobs show.
LEMMA WorkingParts ==
  ASSUME CostShaped, NEW pol
  PROVE  /\ PartRows("on_jobs", pol, AsOf) \cup PartRows("memo", pol, AsOf) = Working
         /\ PartRows("on_jobs", pol, AsOf) \cap PartRows("memo", pol, AsOf) = {}
         /\ pol.basis # Nothing =>
              PartRows("on_jobs", pol, AsOf) = {x \in Working : SlotOf(x) \in pol.basis}
<1>1. LiveRows \subseteq RowsOf
  BY DEF LiveRows
<1>2. \A x \in LiveRows :
        /\ PartOf(x, pol) = "on_jobs" <=> /\ JobCostLine(x) /\ CostRow(x).job # Nothing
                                          /\ pol.basis = Nothing \/ SlotOf(x) \in pol.basis
        /\ PartOf(x, pol) = "memo" <=> /\ JobCostLine(x) /\ CostRow(x).job # Nothing
                                       /\ ~(pol.basis = Nothing \/ SlotOf(x) \in pol.basis)
  BY <1>1, PartIs
<1>3. PartRows("on_jobs", pol, AsOf) \cup PartRows("memo", pol, AsOf) = Working
  BY <1>2 DEF PartRows, Working
<1>4. PartRows("on_jobs", pol, AsOf) \cap PartRows("memo", pol, AsOf) = {}
  BY <1>2 DEF PartRows
<1>5. ASSUME pol.basis # Nothing
      PROVE  PartRows("on_jobs", pol, AsOf) = {x \in Working : SlotOf(x) \in pol.basis}
  BY <1>2, <1>5 DEF PartRows, Working
<1> QED BY <1>3, <1>4, <1>5

Waiting == {x \in LiveRows : JobCostLine(x) /\ CostRow(x).job = Nothing}

\* The unassigned documents are what the lines on no job are grouped by.
LEMMA UnassignedShow ==
  ASSUME CostShaped
  PROVE  /\ Waiting \in SUBSET RowsOf
         /\ SumFunction([u \in UnassignedDocs |-> UnassignedAmount(u)])
              = SumFunctionOnSet(Amounts, Waiting)
<1>1. PICK S \in SUBSET RowsOf : S = Waiting
  BY DEF Waiting, LiveRows
<1>2. IsFiniteSet(S) /\ Addable(Amounts, S)
  BY TotalIs
<1>3. PICK key : key = [x \in S |-> <<x[1], CostRow(x).customer>>]
  OBVIOUS
<1>4. ASSUME NEW x \in S PROVE key[x] \in UnassignedDocs
  <2>1. PICK c \in Coded \cup {Nothing} : c = CostRow(x).customer
    BY RowsFinite DEF LedgerLine
  <2>2. x[1] \in CostDoc
    BY RowsFinite
  <2>3. x \in LiveRows /\ JobCostLine(x) /\ CostRow(x).job = Nothing
    BY <1>1 DEF Waiting
  <2>4. <<x[1], c>> \in UnassignedDocs
    BY <2>1, <2>2, <2>3 DEF UnassignedDocs
  <2> QED BY <1>3, <2>1, <2>4
<1>5. ASSUME NEW u \in UnassignedDocs PROVE \E x \in S : key[x] = u
  <2>1. u \in CostDoc \X (Coded \cup {Nothing})
    BY DEF UnassignedDocs
  <2>2. PICK x \in LiveRows : x[1] = u[1] /\ CostRow(x).customer = u[2] /\ JobCostLine(x) /\ CostRow(x).job = Nothing
    BY DEF UnassignedDocs
  <2>3. x \in S
    BY <1>1, <2>2 DEF Waiting
  <2>4. key[x] = <<u[1], u[2]>>
    BY <1>3, <2>2, <2>3
  <2> QED BY <2>1, <2>3, <2>4
<1>6. UnassignedDocs = {key[x] : x \in DOMAIN key}
  BY <1>3, <1>4, <1>5
<1>7. IsFiniteSet(UnassignedDocs)
  <2>1. IsFiniteSet(DOMAIN key)
    BY <1>2, <1>3
  <2> QED BY <2>1, <1>6, ImageFinite
<1>8. PICK h : h = [u \in UnassignedDocs |-> UnassignedAmount(u)]
  OBVIOUS
<1>9. ASSUME NEW u \in UnassignedDocs
      PROVE  h[u] = SumFunctionOnSet(Amounts, {x \in S : key[x] = u}) /\ h[u] \in Int
  <2>1. PICK T : T = {x \in LiveRows : /\ x[1] = u[1] /\ CostRow(x).customer = u[2]
                                       /\ JobCostLine(x) /\ CostRow(x).job = Nothing}
    OBVIOUS
  <2>2. T \in SUBSET RowsOf
    BY <2>1 DEF LiveRows
  <2>3. u = <<u[1], u[2]>>
    BY DEF UnassignedDocs
  <2>4. \A x \in S : key[x] = u <=> x[1] = u[1] /\ CostRow(x).customer = u[2]
    <3>1. ASSUME NEW x \in S PROVE key[x] = u <=> x[1] = u[1] /\ CostRow(x).customer = u[2]
      <4>1. key[x] = <<x[1], CostRow(x).customer>>
        BY <1>3
      <4> QED BY <4>1, <2>3
    <3> QED BY <3>1
  <2>5. T = {x \in S : key[x] = u}
    BY <1>1, <2>1, <2>4 DEF Waiting
  <2>6. UnassignedAmount(u) = Total(T)
    BY <2>1 DEF UnassignedAmount
  <2>7. IsFiniteSet(T) /\ Addable(Amounts, T) /\ Total(T) = SumFunctionOnSet(Amounts, T)
    BY <2>2, TotalIs
  <2> QED BY <1>8, <2>5, <2>6, <2>7, SumIsWhole
<1>10. DOMAIN h = UnassignedDocs /\ Addable(h, UnassignedDocs) /\ Grouped(h, UnassignedDocs, Amounts, S, key)
  BY <1>4, <1>8, <1>9 DEF Addable, Grouped
<1>11. SumFunction(h) = SumFunctionOnSet(h, UnassignedDocs)
  BY <1>7, <1>10, SumOverDomain
<1>12. SumFunctionOnSet(h, UnassignedDocs) = SumFunctionOnSet(Amounts, S)
  BY <1>2, <1>7, <1>10, SumBy
<1> QED BY <1>1, <1>8, <1>11, <1>12

\* Finitely many months have a last one.
LEMMA MaxIsLast ==
  ASSUME NEW T, IsFiniteSet(T), T \subseteq Nat, NEW x \in T
  PROVE  x <= Max(T)
<1>1. \E h \in T : \A y \in T : h >= y
  BY HasLast
<1>2. \A y \in T : Max(T) >= y /\ Max(T) \in T
  BY <1>1 DEF Max
<1> QED BY <1>2

\* Every row is of a month up to the last one.
LEMMA WithinMonths ==
  ASSUME CostShaped, RowsKnown, NEW x \in RowsOf
  PROVE  CostRow(x).month <= Max(CostMonths)
<1>1. CostRow(x).month \in CostMonths
  BY RowsFinite, LedgerRowIs DEF RowsKnown, MonthsIn
<1>2. IsFiniteSet(CostMonths) /\ CostMonths \subseteq Nat
  <2>1. CostMonths \subseteq {p.month : p \in CostPayload}
    BY DEF CostMonths
  <2>2. {p.month : p \in CostPayload} \subseteq Nat
    BY PayloadFits
  <2> QED BY <2>1, <2>2, CostAssumption, FS_Subset
<1> QED BY <1>1, <1>2, MaxIsLast

LEMMA FiguresFit == LedgerInv => FiguresTie
<1> SUFFICES ASSUME CostShaped, RowsKnown, NEW pol \in CostPolicy
      PROVE
        /\ (\A a \in CostAccount : mapping[a] # Nothing /\ mapping[a].jobCost
                => mapping[a].slot \in pol.categories) =>
             /\ SumFunction([j \in CostSite |-> JobCost(j, pol.categories)])
                  = TieOut("on_jobs", pol, AsOf) + TieOut("memo", pol, AsOf)
             /\ pol.basis # Nothing =>
                  SumFunction([j \in CostSite |-> JobCost(j, pol.categories \cap pol.basis)])
                    = TieOut("on_jobs", pol, AsOf)
        /\ SumFunction([u \in UnassignedDocs |-> UnassignedAmount(u)]) = TieOut("unassigned", pol, Max(CostMonths))
  BY DEF LedgerInv, FiguresTie
<1>2. PICK O \in SUBSET RowsOf : O = PartRows("on_jobs", pol, AsOf)
  BY TieOutIs
<1>3. PICK M \in SUBSET RowsOf : M = PartRows("memo", pol, AsOf)
  BY TieOutIs
<1>4. /\ IsFiniteSet(O) /\ Addable(Amounts, O) /\ TieOut("on_jobs", pol, AsOf) = SumFunctionOnSet(Amounts, O)
      /\ IsFiniteSet(M) /\ Addable(Amounts, M) /\ TieOut("memo", pol, AsOf) = SumFunctionOnSet(Amounts, M)
  BY <1>2, <1>3, TieOutIs
<1>5. ASSUME \A a \in CostAccount : mapping[a] # Nothing /\ mapping[a].jobCost
                => mapping[a].slot \in pol.categories
      PROVE  /\ SumFunction([j \in CostSite |-> JobCost(j, pol.categories)])
                  = TieOut("on_jobs", pol, AsOf) + TieOut("memo", pol, AsOf)
             /\ pol.basis # Nothing =>
                  SumFunction([j \in CostSite |-> JobCost(j, pol.categories \cap pol.basis)])
                    = TieOut("on_jobs", pol, AsOf)
  <2>1. \A x \in Working : SlotOf(x) \in pol.categories
    BY <1>5, PartIs, WorkingRows DEF Working
  <2>2. pol.categories \in SUBSET CostSlot
    BY CostAssumption
  <2>3. SumFunction([j \in CostSite |-> JobCost(j, pol.categories)])
          = TieOut("on_jobs", pol, AsOf) + TieOut("memo", pol, AsOf)
    <3>1. Among(Working, JobKey, CostSite, SlotKey, pol.categories) = Working
      BY <2>1, WorkingRows DEF Among
    <3>2. SumFunction([j \in CostSite |-> JobCost(j, pol.categories)]) = SumFunctionOnSet(Amounts, Working)
      BY <2>2, <3>1, JobsShow
    <3>3. O \cup M = Working /\ O \cap M = {}
      BY <1>2, <1>3, WorkingParts
    <3>4. SumFunctionOnSet(Amounts, O \cup M) = SumFunctionOnSet(Amounts, O) + SumFunctionOnSet(Amounts, M)
      BY <1>4, <3>3, SumUnion
    <3> QED BY <1>4, <3>2, <3>3, <3>4
  <2>4. ASSUME pol.basis # Nothing
        PROVE  SumFunction([j \in CostSite |-> JobCost(j, pol.categories \cap pol.basis)])
                 = TieOut("on_jobs", pol, AsOf)
    <3>1. Among(Working, JobKey, CostSite, SlotKey, pol.categories \cap pol.basis) = O
      <4>1. O = {x \in Working : SlotOf(x) \in pol.basis}
        BY <1>2, <2>4, WorkingParts
      <4> QED BY <2>1, <4>1, WorkingRows DEF Among
    <3>2. pol.categories \cap pol.basis \in SUBSET CostSlot
      BY <2>2
    <3> QED BY <3>1, <3>2, <1>4, JobsShow
  <2> QED BY <2>3, <2>4
<1>6. SumFunction([u \in UnassignedDocs |-> UnassignedAmount(u)]) = TieOut("unassigned", pol, Max(CostMonths))
  <2>1. PartRows("unassigned", pol, Max(CostMonths)) = Waiting
    <3>1. LiveRows \subseteq RowsOf
      BY DEF LiveRows
    <3>2. \A x \in LiveRows : /\ CostRow(x).month <= Max(CostMonths)
                              /\ PartOf(x, pol) = "unassigned" <=> JobCostLine(x) /\ CostRow(x).job = Nothing
      BY <3>1, WithinMonths, PartIs
    <3> QED BY <3>2 DEF PartRows, Waiting
  <2> QED BY <2>1, TieOutIs, UnassignedShow
<1> QED BY <1>5, <1>6

LEMMA OnTheirJob == LedgerInv => LinesOnTheirJob
<1>1. SUFFICES ASSUME LedgerInv, CostQuiet, NEW x \in RowsOf
               PROVE  CostRow(x).job = IF CostRow(x).customer = Nothing THEN Nothing ELSE alias[CostRow(x).customer]
  BY DEF LinesOnTheirJob
<1>2. CostShaped /\ \A d \in CostDoc : JobsIn(line[d], alias)
  BY <1>1 DEF LedgerInv, JobsFit, CostQuiet
<1>3. x[1] \in CostDoc /\ x[2] \in CostLineId /\ line[x[1]][x[2]] # Nothing
  BY <1>2, RowsFinite, LedgerRowIs
<1> QED BY <1>2, <1>3 DEF JobsIn, JobFor, CostRow

\* With nothing queued every line is on the job its customer is linked to now and
\* the nightly check finds no difference it should not, and at every moment the
\* figures of the pages are one another's sums, whatever documents, items, links
\* and mappings come in between a task's reads and its writes and whenever the
\* worker dies (cost/sync.py, cost/run.py, cost/figures.py, cost/report.py).
THEOREM CostsKeepAgreeing == CostSpec => []CostAgrees
<1>1. LedgerInv => CostAgrees
  BY OnTheirJob, NoDrift, FiguresFit DEF CostAgrees, LedgerInv, CostShaped
<1> QED BY <1>1, CostStart, CostStep, PTL DEF CostSpec
================================================================================
