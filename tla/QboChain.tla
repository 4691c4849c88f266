------------------------------- MODULE QboChain -------------------------------
(***************************************************************************)
(* The recurring QuickBooks work of one company: the chain of change       *)
(* polls, the backfill runs and what starts, stops and restarts them       *)
(* (backend/app/integrations/qbo/schedule.py, tasks.py and the routes that *)
(* call them).  Which records travel is QboCopy's subject; here a poll or  *)
(* a page only succeeds or fails.  One worker process, which may crash.    *)
(*                                                                         *)
(* now   : the clock, SlotTicks ticks to a poll slot                       *)
(* connection : connection.status                                          *)
(* hist  : the history start is decided                                    *)
(* cdc   : changed_since of the latest successful poll, or NoCursor        *)
(* bf    : the backfill runs in the order they were started: outcome,      *)
(*         the watermark taken at the start, the entities that are done    *)
(* task  : the queue, one row per dedupe key                               *)
(* wk    : the worker: pc down, idle, claimed, reading (first transaction  *)
(*         committed, asking Intuit), fetched (answered), done (last       *)
(*         transaction committed); the task; the moment the poll took   *)
(*         as now; whether its first transaction stopped it                *)
(* seeded: ensure_scheduled has run since the chain was last ended         *)
(* faults, changes : how often something failed, the connection changed    *)
(***************************************************************************)
EXTENDS QueueOps, Integers, FiniteSets

CONSTANTS Entities,     \* the entities a backfill pages through
          Pages,        \* full and partial pages of one entity
          SlotTicks,    \* ticks from one poll slot to the next
          MaxAge,       \* CDC_MAX_AGE
          MaxClock, MaxRuns, MaxAttempts, MaxFaults, MaxChanges,
          MaxTrouble    \* bound: changes and, each counted twice, faults together

ASSUME BoundsAssumption ==
  /\ Pages \in Nat \ {0} /\ SlotTicks \in Nat \ {0} /\ MaxAge \in Nat
  /\ MaxClock \in Nat /\ MaxRuns \in Nat /\ MaxAttempts \in Nat \ {0}
  /\ MaxFaults \in Nat /\ MaxChanges \in Nat /\ MaxTrouble \in Nat

VARIABLES now, connection, hist, cdc, bf, task, wk, seeded, faults, changes

vars == <<now, connection, hist, cdc, bf, task, wk, seeded, faults, changes>>

Company == "tenant"
NoCursor == -1

NowPoll == <<"now">>
SlotPolls == {<<"slot", s>> : s \in 1..(MaxClock + SlotTicks)}
PagesOf(r) == {<<"page", r, e, p>> : e \in Entities, p \in 1..Pages}
PageTasks == UNION {PagesOf(r) : r \in 1..MaxRuns}
Ids == {NowPoll} \cup SlotPolls \cup PageTasks

IsPoll(i) == i[1] \in {"now", "slot"}

NoTask == <<"none">>
WorkerDown == [pc |-> "down", task |-> NoTask, start |-> 0, stops |-> FALSE]
WorkerIdle == [WorkerDown EXCEPT !.pc = "idle"]

NoRun == [outcome |-> "none", start |-> 0, done |-> {}]

\* A company not connected yet, or one connected before the history start existed.
Init ==
  /\ now = 0
  /\ \/ connection = "disconnected" /\ hist = TRUE
     \/ connection = "connected" /\ hist = FALSE
  /\ cdc = NoCursor
  /\ bf = [r \in 1..MaxRuns |-> NoRun]
  /\ task = [i \in Ids |-> AbsentRow]
  /\ wk = WorkerDown
  /\ seeded = FALSE
  /\ faults = 0
  /\ changes = 0

\* The bounds on what goes wrong.
MayFail == faults < MaxFaults /\ changes + 2 * (faults + 1) <= MaxTrouble
MayChange == changes < MaxChanges /\ changes + 1 + 2 * faults <= MaxTrouble

-----------------------------------------------------------------------------
(* schedule.py *)

\* enqueue: the ids of the model are the dedupe keys.
enqueue(tbl, i, prompt) ==
  IF IsOpen(tbl[i]) THEN tbl ELSE [tbl EXCEPT ![i] = QueuedRow(Company, "own", prompt)]

\* Faulty: a slot counted from the moment instead of the slot grid.
NextSlotUnaligned(t) == t + SlotTicks

next_cdc_slot(t) == (t - (t % SlotTicks)) + SlotTicks

OpenIn(tbl, ids) == {i \in ids : IsOpen(tbl[i])}

\* _open_task with the prefix cdc:{connection}: any open poll, "now" too.
OpenPolls(tbl) == OpenIn(tbl, SlotPolls \cup {NowPoll})

\* ensure_scheduled's poll chain, for a connected company.
Scheduled(tbl) ==
  IF OpenPolls(tbl) = {} THEN enqueue(tbl, <<"slot", next_cdc_slot(now)>>, FALSE) ELSE tbl

Succeeded == {r \in 1..MaxRuns : bf[r].outcome = "succeeded"}
OpenRuns == {r \in 1..MaxRuns : bf[r].outcome = "open"}

\* resume_cursor: the latest successful poll, else the finished backfill.
resume_cursor ==
  IF cdc # NoCursor THEN cdc
  ELSE IF Succeeded # {} THEN bf[CHOOSE r \in Succeeded : \A q \in Succeeded : q <= r].start
  ELSE NoCursor

cursor_too_old(c) == now - c > MaxAge

Usable == resume_cursor # NoCursor /\ ~cursor_too_old(resume_cursor)

Unstarted == {r \in 1..MaxRuns : bf[r].outcome = "none"}
NextRun == CHOOSE r \in Unstarted : \A q \in Unstarted : r <= q

\* start_backfill: nothing while a run is open, else a run and a task per entity.
StartBackfill ==
  IF OpenRuns # {}
  THEN UNCHANGED <<bf, task>>
  ELSE /\ Unstarted # {}
       /\ bf' = [bf EXCEPT ![NextRun] = [outcome |-> "open", start |-> now, done |-> {}]]
       /\ task' = [i \in Ids |-> IF i \in {<<"page", NextRun, e, 1>> : e \in Entities}
                                 THEN enqueue(task, i, TRUE)[i] ELSE task[i]]

-----------------------------------------------------------------------------
(* The routes. *)

\* complete_connect's last transaction with after_connect: a first connection, or a
\* reconnection to the same company.
Connect ==
  /\ MayChange
  /\ changes' = changes + 1
  /\ hist
  /\ connection' = "connected"
  /\ CASE resume_cursor = NoCursor -> StartBackfill /\ UNCHANGED seeded
       [] resume_cursor # NoCursor /\ ~Usable -> UNCHANGED <<bf, task, seeded>>
       [] OTHER -> task' = Scheduled(task) /\ seeded' = TRUE /\ UNCHANGED bf
  /\ UNCHANGED <<now, hist, cdc, wk, faults>>

DisconnectCompany ==
  /\ MayChange
  /\ changes' = changes + 1
  /\ connection # "disconnected"
  /\ connection' = "disconnected"
  /\ seeded' = FALSE
  /\ UNCHANGED <<now, hist, cdc, bf, task, wk, faults>>

\* "Sync now" (which asks for the history start too) and a webhook both queue the
\* poll keyed "now".
RequestPoll ==
  /\ connection = "connected"
  /\ task' = enqueue(task, NowPoll, TRUE)
  /\ UNCHANGED <<now, connection, hist, cdc, bf, wk, seeded, faults, changes>>

RequestBackfill ==
  /\ connection = "connected"
  /\ hist
  /\ OpenRuns = {}
  /\ StartBackfill
  /\ UNCHANGED <<now, connection, hist, cdc, wk, seeded, faults, changes>>

\* The policy key is decided; refused once a backfill has completed.
SetHistoryStart ==
  /\ ~hist
  /\ Succeeded = {}
  /\ hist' = TRUE
  /\ UNCHANGED <<now, connection, cdc, bf, task, wk, seeded, faults, changes>>

-----------------------------------------------------------------------------
(* The worker. *)

\* run_startup_hooks: ensure_scheduled.
Startup ==
  /\ wk.pc = "down"
  /\ wk' = WorkerIdle
  /\ IF connection = "connected" THEN task' = Scheduled(task) /\ seeded' = TRUE
                           ELSE UNCHANGED <<task, seeded>>
  /\ UNCHANGED <<now, connection, hist, cdc, bf, faults, changes>>

Claim(i) ==
  LET swept == Swept(task, Company, MaxAttempts)
  IN /\ wk.pc = "idle"
     /\ i \in Claimable(swept, Company, MaxAttempts)
     /\ task' = Claimed(swept, i, "worker")
     /\ wk' = [WorkerIdle EXCEPT !.pc = "claimed", !.task = i]
     /\ UNCHANGED <<now, connection, hist, cdc, bf, seeded, faults, changes>>

\* A pass that finds no task to take has swept.
Sweep ==
  LET swept == Swept(task, Company, MaxAttempts)
  IN /\ wk.pc = "idle"
     /\ Claimable(swept, Company, MaxAttempts) = {} /\ swept # task
     /\ task' = swept
     /\ UNCHANGED <<now, connection, hist, cdc, bf, wk, seeded, faults, changes>>

CanPoll == connection = "connected" /\ hist /\ Usable

Later(a, b) == IF a < b THEN b ELSE a

\* Faulty: the successor is not queued before the poll asks Intuit.
NoRearm(tbl, i) == tbl

\* A scheduled poll queues its successor before anything else.
Rearmed(tbl, i) ==
  IF i = NowPoll THEN tbl
  ELSE enqueue(tbl, <<"slot", next_cdc_slot(Later(now, i[2]))>>, FALSE)

\* cdc_poll's first transaction, when it goes on ...
PollBegin ==
  /\ wk.pc = "claimed" /\ IsPoll(wk.task)
  /\ CanPoll
  /\ task' = Rearmed(task, wk.task)
  /\ wk' = [wk EXCEPT !.pc = "reading", !.start = now]
  /\ UNCHANGED <<now, connection, hist, cdc, bf, seeded, faults, changes>>

\* ... and when it returns: not connected, no history start, no usable cursor.
PollStops ==
  /\ wk.pc = "claimed" /\ IsPoll(wk.task)
  /\ ~CanPoll
  /\ wk' = [wk EXCEPT !.pc = "done", !.stops = TRUE]
  /\ seeded' = FALSE
  /\ UNCHANGED <<now, connection, hist, cdc, bf, task, faults, changes>>

\* Intuit answers a connected company.
ReadOk ==
  /\ wk.pc = "reading"
  /\ connection = "connected"
  /\ wk' = [wk EXCEPT !.pc = "fetched"]
  /\ UNCHANGED <<now, connection, hist, cdc, bf, task, seeded, faults, changes>>

\* cdc_poll's last transaction: the cursor is the poll's own now.
PollStores ==
  /\ wk.pc = "fetched" /\ IsPoll(wk.task)
  /\ cdc' = wk.start
  /\ wk' = [wk EXCEPT !.pc = "done"]
  /\ UNCHANGED <<now, connection, hist, bf, task, seeded, faults, changes>>

RunOf(i) == i[2]

\* backfill_page's first transaction: the run ended elsewhere, the connection is
\* gone (permanent, the run stays as it is), or it goes on.
PageReturns ==
  /\ wk.pc = "claimed" /\ ~IsPoll(wk.task)
  /\ bf[RunOf(wk.task)].outcome # "open"
  /\ wk' = [wk EXCEPT !.pc = "done"]
  /\ UNCHANGED <<now, connection, hist, cdc, bf, task, seeded, faults, changes>>

PageRefused ==
  /\ wk.pc = "claimed" /\ ~IsPoll(wk.task)
  /\ bf[RunOf(wk.task)].outcome = "open"
  /\ connection # "connected"
  /\ task' = Failed(task, wk.task, "worker", TRUE, MaxAttempts)
  /\ wk' = WorkerIdle
  /\ UNCHANGED <<now, connection, hist, cdc, bf, seeded, faults, changes>>

PageBegin ==
  /\ wk.pc = "claimed" /\ ~IsPoll(wk.task)
  /\ bf[RunOf(wk.task)].outcome = "open"
  /\ connection = "connected"
  /\ wk' = [wk EXCEPT !.pc = "reading"]
  /\ UNCHANGED <<now, connection, hist, cdc, bf, task, seeded, faults, changes>>

\* A full page: there is another one.
More(i) == i[4] < Pages

\* Faulty: the state of the entity just paged replaces that of the others.
DoneAlone(i) == IF More(i) THEN {} ELSE {i[3]}

\* run.detail["entities"] after the page: an entity without a full page is done.
DoneAfter(i) == IF More(i) THEN bf[RunOf(i)].done ELSE bf[RunOf(i)].done \cup {i[3]}

\* backfill_page's last transaction: the next page or the entity done; the run
\* finishes with the last entity and seeds the chain.  (With one worker nobody ended
\* the run since the first transaction found it open.)
PageStores ==
  LET i == wk.task
      r == RunOf(i)
      finished == DoneAfter(i) = Entities
      queued == IF More(i) THEN enqueue(task, <<"page", r, i[3], i[4] + 1>>, TRUE) ELSE task
  IN /\ wk.pc = "fetched" /\ ~IsPoll(i)
     /\ bf[r].outcome = "open"
     /\ bf' = [bf EXCEPT ![r].done = DoneAfter(i),
                         ![r].outcome = IF finished THEN "succeeded" ELSE @]
     /\ task' = IF finished /\ connection = "connected" THEN Scheduled(queued) ELSE queued
     /\ seeded' = (seeded \/ (finished /\ connection = "connected"))
     /\ wk' = [wk EXCEPT !.pc = "done"]
     /\ UNCHANGED <<now, connection, hist, cdc, faults, changes>>

\* NeedsReconnect: the connection is gone or Intuit refuses its token.  The page's
\* run is closed as failed, the task ends without retries.
ReadRefused ==
  /\ wk.pc = "reading"
  /\ \/ connection # "connected" /\ UNCHANGED <<connection, seeded, changes>>
     \/ /\ connection = "connected" /\ MayChange
        /\ connection' = "needs_reconnect" /\ seeded' = FALSE
        /\ changes' = changes + 1
  /\ bf' = IF IsPoll(wk.task) \/ bf[RunOf(wk.task)].outcome # "open" THEN bf
           ELSE [bf EXCEPT ![RunOf(wk.task)].outcome = "failed"]
  /\ task' = Failed(task, wk.task, "worker", TRUE, MaxAttempts)
  /\ wk' = WorkerIdle
  /\ UNCHANGED <<now, hist, cdc, faults>>

\* Any other failure (QboError, the database) before the last commit: retried.
TaskFails ==
  /\ wk.pc \in {"claimed", "reading", "fetched"}
  /\ MayFail
  /\ faults' = faults + 1
  /\ task' = Failed(task, wk.task, "worker", FALSE, MaxAttempts)
  /\ wk' = WorkerIdle
  /\ UNCHANGED <<now, connection, hist, cdc, bf, seeded, changes>>

Complete ==
  /\ wk.pc = "done"
  /\ task' = Completed(task, wk.task, "worker")
  /\ wk' = WorkerIdle
  /\ UNCHANGED <<now, connection, hist, cdc, bf, seeded, faults, changes>>

Crash ==
  /\ wk.pc # "down"
  /\ MayFail
  /\ faults' = faults + 1
  /\ wk' = WorkerDown
  /\ UNCHANGED <<now, connection, hist, cdc, bf, task, seeded, changes>>

-----------------------------------------------------------------------------
(* Time. *)

Tick ==
  /\ now < MaxClock
  /\ now' = now + 1
  /\ UNCHANGED <<connection, hist, cdc, bf, task, wk, seeded, faults, changes>>

\* A slot comes or a backoff passes; the lease of a crashed worker expires.
Passes(i) ==
  /\ \/ /\ task[i].status = "queued" /\ ~task[i].due
        /\ i \in SlotPolls => i[2] <= now
        /\ task' = [task EXCEPT ![i].due = TRUE]
     \/ /\ task[i].status = "running" /\ ~task[i].expired
        /\ wk.task # i
        /\ task' = [task EXCEPT ![i].expired = TRUE]
  /\ UNCHANGED <<now, connection, hist, cdc, bf, wk, seeded, faults, changes>>

-----------------------------------------------------------------------------
WorkerStep ==
  \/ Startup \/ (\E i \in Ids : Claim(i)) \/ Sweep \/ PollBegin \/ PollStops \/ ReadOk \/ PollStores
  \/ PageReturns \/ PageRefused \/ PageBegin \/ PageStores
  \/ (connection # "connected" /\ ReadRefused) \/ Complete

Next ==
  \/ Connect \/ DisconnectCompany \/ RequestPoll \/ RequestBackfill \/ SetHistoryStart
  \/ WorkerStep \/ ReadRefused \/ TaskFails \/ Crash
  \/ Tick \/ \E i \in Ids : Passes(i)

Spec == Init /\ [][Next]_vars

\* systemd keeps the worker running, requests to Intuit end, clocks advance;
\* claim_one takes the row that is due longest, so pages do not wait for ever behind polls.
FairSpec ==
  /\ Spec
  /\ WF_vars(WorkerStep)
  /\ WF_vars(\E i \in Ids : Passes(i))
  /\ SF_vars(\E i \in PageTasks : Claim(i))

-----------------------------------------------------------------------------
(* Properties. *)

Row == [status : TaskStatus, tenant : {Company, NoKey}, key : {"own", NoKey},
        attempts : 0..MaxAttempts, prompt : BOOLEAN, due : BOOLEAN,
        lockedBy : {"worker", NoWorker}, expired : BOOLEAN]

\* Shapes; and the worker inside a task is the one its row names.
TypeOK ==
  /\ now \in 0..MaxClock
  /\ connection \in {"disconnected", "connected", "needs_reconnect"}
  /\ hist \in BOOLEAN /\ seeded \in BOOLEAN
  /\ cdc \in 0..MaxClock \cup {NoCursor}
  /\ bf \in [1..MaxRuns -> [outcome : {"none", "open", "succeeded", "failed"},
                            start : 0..MaxClock, done : SUBSET Entities]]
  /\ task \in [Ids -> Row]
  /\ wk \in [pc : {"down", "idle", "claimed", "reading", "fetched", "done"},
             task : Ids \cup {NoTask}, start : 0..MaxClock, stops : BOOLEAN]
  /\ faults \in 0..MaxFaults /\ changes \in 0..MaxChanges
  /\ wk.task \in Ids => task[wk.task].status = "running"

Future(i) == i[2] > now

\* However polls are retried, delayed or seeded again, their successors meet on the
\* slot grid: at most one poll waits for a slot to come.
OneFuturePoll == Cardinality({i \in OpenIn(task, SlotPolls) : Future(i)}) <= 1

\* The chain through retries, crashes and connection changes: the worker's task is a
\* running row, and successors never fork (poll_once, ensure_scheduled).
ChainHolds == TypeOK /\ OneFuturePoll

\* The last attempt of a poll is lost: it failed before its first transaction had
\* committed, or its worker died and the sweep ends it.
OutOfAttempts(i) ==
  /\ task[i].attempts >= MaxAttempts
  /\ wk.pc = "idle" \/ (wk.pc = "claimed" /\ wk.task = i)

\* "a poll that fails cannot end the chain": the last scheduled poll ends without a
\* successor only when its first transaction found the company disconnected, without
\* a history start or without a usable cursor, or when it is out of attempts, after as
\* many failures as a task has attempts: the successor is queued by that first
\* transaction (tasks.py cdc_poll).
FailureKeepsChain ==
  [][OpenIn(task, SlotPolls) # {} /\ OpenIn(task', SlotPolls) = {} =>
       \/ wk.stops
       \/ faults' >= MaxAttempts /\ \E i \in OpenIn(task, SlotPolls) : OutOfAttempts(i)]_vars

\* Through pages of several entities, retries, crashes and polls in between, a
\* backfill ends, unless a page of it was refused for good (OpenRunHasPage is about
\* what is left then).
BackfillEnds ==
  \A r \in 1..MaxRuns :
    bf[r].outcome = "open" ~>
      (bf[r].outcome # "open" \/ \E i \in PagesOf(r) : task[i].status = "failed")

\* schedule.py, ensure_scheduled: "Seed the poll and drift chains of a connected
\* company that has none open": once it has run, and until a poll ends the chain, a
\* company that can be polled has a scheduled poll open.
ChainSeeded == seeded /\ CanPoll => OpenIn(task, SlotPolls) # {}

\* api/qbo.py: "A backfill is already running." answers for an open run: some page of
\* it is queued or running.
OpenRunHasPage == \A r \in OpenRuns : OpenIn(task, PagesOf(r)) # {}

\* docs/OPERATIONS.md: "the last successful run is more than 29 days old ... Press
\* Start fresh backfill": a finished backfill that is not too old gives a cursor that
\* is not too old.
FreshBackfillHelps ==
  (\E r \in Succeeded : ~cursor_too_old(bf[r].start)) => Usable
===============================================================================
