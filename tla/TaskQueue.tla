------------------------------ MODULE TaskQueue ------------------------------
(***************************************************************************)
(* The Postgres task queue and the worker loop (backend/app/worker).       *)
(*                                                                         *)
(* task : the task table, one row per task id (QueueOps).                  *)
(* wk   : one record per worker process:                                   *)
(*   pc    down  - no process;  pass - inside run_once, between tenants;   *)
(*         run   - inside the task function;  wait - inside _wait          *)
(*   cur   the task being run (NoTask otherwise)                           *)
(*   todo  the tenants run_once has still to visit                         *)
(*   ran   run_once has run a task in this pass                            *)
(*   sock  the LISTEN connection: none, live, or dead (the peer is gone    *)
(*         and notifies() has not raised yet)                              *)
(*   note  a NOTIFY is buffered on it                                      *)
(*   heard the pass began with LISTEN registered and raised nothing        *)
(*   stop  stop_event is set                                               *)
(* faults: how many faults (crash, database error, lost socket, refused    *)
(*         connection, SIGTERM) have happened; bounded by MaxFaults.       *)
(***************************************************************************)
EXTENDS QueueOps, FiniteSets

CONSTANTS Workers, Tenants, TaskId, Keys, NoTask, MaxAttempts,
          FaultKinds,   \* the faults the environment may produce
          MaxFaults     \* how many of them, in all

ASSUME WorkersAssumption == NoWorker \notin Workers
ASSUME TaskIdAssumption == NoTask \notin TaskId
ASSUME KeysAssumption == NoKey \notin Keys /\ NoKey \notin Tenants
ASSUME BoundsAssumption == MaxAttempts \in Nat \ {0} /\ MaxFaults \in Nat

VARIABLES task, wk, faults

vars == <<task, wk, faults>>

WorkerDown == [pc |-> "down", cur |-> NoTask, todo |-> {}, ran |-> FALSE,
               sock |-> "none", note |-> FALSE, heard |-> FALSE, stop |-> FALSE]

Init ==
  /\ task = [i \in TaskId |-> AbsentRow]
  /\ wk = [w \in Workers |-> WorkerDown]
  /\ faults = 0

Fault(kind) ==
  /\ kind \in FaultKinds
  /\ faults < MaxFaults
  /\ faults' = faults + 1

\* A worker's record as it enters a pass, a task, and leaves the task.
BeginPass(r) == [r EXCEPT !.pc = "pass", !.cur = NoTask, !.todo = Tenants,
                          !.ran = FALSE, !.heard = (r.sock = "live")]

BeginTask(r, i, n) == [r EXCEPT !.pc = "run", !.cur = i, !.todo = @ \ {n}, !.ran = TRUE]

EndTask(r) == [r EXCEPT !.pc = "pass", !.cur = NoTask]

-----------------------------------------------------------------------------
(* The callers of enqueue: the API's request transactions and the tasks.    *)

\* pg_notify is delivered with the commit to every session that LISTENs.
notify(ws) ==
  [w \in Workers |-> IF ws[w].sock = "live" THEN [ws[w] EXCEPT !.note = TRUE] ELSE ws[w]]

enqueue(i, n, k, prompt) ==
  /\ task[i].status = "absent"
  /\ task' = Enqueued(task, i, n, k, prompt)
  /\ wk' = IF Conflicts(task, n, k) THEN wk ELSE notify(wk)
  /\ UNCHANGED faults

-----------------------------------------------------------------------------
(* The worker loop. *)

\* run_forever up to its first pass.  LISTEN is registered before the first
\* pass; a refused connection is logged and polling covers it.
Start(w) ==
  /\ wk[w].pc = "down"
  /\ \/ /\ wk' = [wk EXCEPT ![w] = BeginPass([WorkerDown EXCEPT !.sock = "live"])]
        /\ UNCHANGED faults
     \/ /\ Fault("listen")
        /\ wk' = [wk EXCEPT ![w] = BeginPass(WorkerDown)]
  /\ UNCHANGED task

\* One tenant of run_once: sweep_expired and claim_one in one transaction.
ClaimTenant(w, n) ==
  LET swept == Swept(task, n, MaxAttempts)
      due == Claimable(swept, n, MaxAttempts)
  IN /\ wk[w].pc = "pass"
     /\ n \in wk[w].todo
     /\ \/ /\ due = {}
           /\ task' = swept
           /\ wk' = [wk EXCEPT ![w].todo = @ \ {n}]
        \/ \E i \in due :
             /\ task' = Claimed(swept, i, w)
             /\ wk' = [wk EXCEPT ![w] = BeginTask(@, i, n)]
     /\ UNCHANGED faults

\* The task function returned and the finish transaction committed.
FinishOk(w) ==
  /\ wk[w].pc = "run"
  /\ task' = Completed(task, wk[w].cur, w)
  /\ wk' = [wk EXCEPT ![w] = EndTask(@)]
  /\ UNCHANGED faults

\* The task function raised (PermanentTaskError or anything else).
FinishFail(w, permanent) ==
  /\ wk[w].pc = "run"
  /\ task' = Failed(task, wk[w].cur, w, permanent, MaxAttempts)
  /\ wk' = [wk EXCEPT ![w] = EndTask(@)]
  /\ UNCHANGED faults

\* Faulty: _wait drains what was buffered during the pass before it waits.
AfterPassDrains(r, ran, heard) ==
  IF r.stop THEN WorkerDown
  ELSE IF ran THEN BeginPass(r)
  ELSE [r EXCEPT !.pc = "wait", !.cur = NoTask, !.heard = heard, !.note = FALSE,
                 !.sock = IF @ = "none" THEN "live" ELSE @]

\* What run_forever does after run_once: leave on stop, else another pass when
\* something ran, else _wait, which opens the listener when there is none.
AfterPass(r, ran, heard) ==
  IF r.stop THEN WorkerDown
  ELSE IF ran THEN BeginPass(r)
  ELSE [r EXCEPT !.pc = "wait", !.cur = NoTask, !.heard = heard,
                 !.sock = IF @ = "none" THEN "live" ELSE @]

EndPass(w) ==
  /\ wk[w].pc = "pass"
  /\ wk[w].todo = {}
  /\ wk' = [wk EXCEPT ![w] = AfterPass(@, @.ran, @.heard /\ @.sock = "live")]
  /\ UNCHANGED <<task, faults>>

\* A claim or finish transaction raised (the database is away): run_forever logs
\* "worker pass failed", sets ran = 0 and waits.  The claimed task stays running.
PassError(w) ==
  /\ wk[w].pc \in {"pass", "run"}
  /\ Fault("database")
  /\ wk' = [wk EXCEPT ![w] = AfterPass(@, FALSE, FALSE)]
  /\ UNCHANGED task

\* _wait opens the listener outside any try: a refused connection leaves
\* run_forever and the process ends (systemd starts it again).  A pass that
\* failed reaches _wait the same way as an idle one.
ListenRefused(w) ==
  /\ \/ wk[w].pc = "pass" /\ wk[w].todo = {} /\ ~wk[w].ran
     \/ wk[w].pc \in {"pass", "run"} /\ "database" \in FaultKinds
  /\ wk[w].sock = "none"
  /\ ~wk[w].stop
  /\ Fault("listen")
  /\ wk' = [wk EXCEPT ![w] = WorkerDown]
  /\ UNCHANGED task

Heard(r) == [r EXCEPT !.note = FALSE]

\* notifies() yields: a tenant has work, run a pass now.
Wake(w) ==
  /\ wk[w].pc = "wait"
  /\ wk[w].sock = "live"
  /\ wk[w].note
  /\ wk' = [wk EXCEPT ![w] = IF @.stop THEN WorkerDown
                             ELSE BeginPass(Heard(@))]
  /\ UNCHANGED <<task, faults>>

\* The poll interval is over.
PollElapsed(w) ==
  /\ wk[w].pc = "wait"
  /\ wk' = [wk EXCEPT ![w] = IF @.stop THEN WorkerDown ELSE BeginPass(@)]
  /\ UNCHANGED <<task, faults>>

\* notifies() raises on a dead socket: the listener is dropped, polling goes on.
ListenerFails(w) ==
  /\ wk[w].pc = "wait"
  /\ wk[w].sock = "dead"
  /\ wk' = [wk EXCEPT ![w].sock = "none", ![w].note = FALSE, ![w].heard = FALSE]
  /\ UNCHANGED <<task, faults>>

\* Worker.stop (SIGTERM) sets stop_event; the loop reads it between passes.
Stop(w) ==
  /\ wk[w].pc # "down"
  /\ ~wk[w].stop
  /\ Fault("stop")
  /\ wk' = [wk EXCEPT ![w].stop = TRUE]
  /\ UNCHANGED task

-----------------------------------------------------------------------------
(* The environment: processes die, sockets die, time passes. *)

Crash(w) ==
  /\ wk[w].pc # "down"
  /\ Fault("crash")
  /\ wk' = [wk EXCEPT ![w] = WorkerDown]
  /\ UNCHANGED task

SocketDies(w) ==
  /\ wk[w].sock = "live"
  /\ Fault("socket")
  /\ wk' = [wk EXCEPT ![w].sock = "dead"]
  /\ UNCHANGED task

\* locked_until passes.  Nothing renews a lease, so a slow task outlives it too.
LeaseExpires(i) ==
  /\ task[i].status = "running"
  /\ ~task[i].expired
  /\ task' = [task EXCEPT ![i].expired = TRUE]
  /\ UNCHANGED <<wk, faults>>

\* run_after passes (a scheduled task, or the backoff after a failed attempt).
RunAfterPasses(i) ==
  /\ task[i].status = "queued"
  /\ ~task[i].due
  /\ task' = [task EXCEPT ![i].due = TRUE]
  /\ UNCHANGED <<wk, faults>>

-----------------------------------------------------------------------------
WorkerStep(w) ==
  \/ Start(w)
  \/ \E n \in Tenants : ClaimTenant(w, n)
  \/ FinishOk(w)
  \/ \E permanent \in BOOLEAN : FinishFail(w, permanent)
  \/ EndPass(w)
  \/ Wake(w)
  \/ PollElapsed(w)
  \/ ListenerFails(w)

FaultStep(w) ==
  PassError(w) \/ ListenRefused(w) \/ Stop(w) \/ Crash(w) \/ SocketDies(w)

Next ==
  \/ \E i \in TaskId, n \in Tenants, k \in Keys \cup {NoKey}, prompt \in BOOLEAN :
       enqueue(i, n, k, prompt)
  \/ \E w \in Workers : WorkerStep(w) \/ FaultStep(w)
  \/ \E i \in TaskId : LeaseExpires(i) \/ RunAfterPasses(i)

Spec == Init /\ [][Next]_vars

\* The loop keeps going while its process is up, systemd restarts it
\* (Restart=always), and clocks advance; nobody has to enqueue anything.
Fairness ==
  /\ \A w \in Workers : WF_vars(WorkerStep(w))
  /\ \A i \in TaskId : WF_vars(LeaseExpires(i)) /\ WF_vars(RunAfterPasses(i))

FairSpec == Spec /\ Fairness

-----------------------------------------------------------------------------
(* Properties. *)

Row == [status : TaskStatus, tenant : Tenants \cup {NoKey}, key : Keys \cup {NoKey},
        attempts : 0..MaxAttempts, prompt : BOOLEAN, due : BOOLEAN,
        lockedBy : Workers \cup {NoWorker}, expired : BOOLEAN]

Proc == [pc : {"down", "pass", "run", "wait"}, cur : TaskId \cup {NoTask},
         todo : SUBSET Tenants, ran : BOOLEAN, sock : {"none", "live", "dead"},
         note : BOOLEAN, heard : BOOLEAN, stop : BOOLEAN]

Shapes ==
  /\ task \in [TaskId -> Row]
  /\ wk \in [Workers -> Proc]
  /\ faults \in 0..MaxFaults

\* Every row and every worker record has its shape: attempts never exceeds
\* max_attempts, and a row has a lease holder exactly while it is running, whatever
\* mix of claims, expired leases, sweeps, retries and late finishes occurred.
TypeOK ==
  /\ Shapes
  /\ \A i \in TaskId : task[i].lockedBy # NoWorker <=> task[i].status = "running"

\* The partial unique index: one tenant never has two open tasks with one key.
OneOpenPerKey ==
  \A i, j \in TaskId :
    /\ IsOpen(task[i]) /\ IsOpen(task[j])
    /\ task[i].tenant = task[j].tenant
    /\ task[i].key = task[j].key /\ task[i].key # NoKey
    => i = j

Executing(i) == {w \in Workers : wk[w].pc = "run" /\ wk[w].cur = i}

\* A task is never in more executions than claim_one counted: two workers are
\* inside one task only when a lease expired, and max_attempts bounds them.
ExecutionsCounted == \A i \in TaskId : Cardinality(Executing(i)) <= task[i].attempts

\* A worker that is inside a task loses its lease on it only after locked_until:
\* until then no claim, sweep or finish of anybody else touches the row.
LeaseLostByExpiry ==
  [][\A w \in Workers : \A i \in TaskId :
       /\ w \in Executing(i) /\ Held(task, i, w)
       /\ wk'[w].pc = "run" /\ wk'[w].cur = i
       => Held(task', i, w) \/ task[i].expired]_vars

\* "A worker whose lease was reclaimed writes nothing": a running row ends, or
\* goes back to the queue, only through the finish of the worker that holds it,
\* or through sweep_expired on an expired lease at max_attempts.
OnlyHolderFinishes ==
  [][\A i \in TaskId :
       task[i].status = "running" /\ task'[i].status # "running" =>
         \/ \E w \in Workers : /\ task[i].lockedBy = w
                               /\ wk[w].pc = "run" /\ wk[w].cur = i
                               /\ wk'[w].pc = "pass"
         \/ task[i].expired /\ task[i].attempts = MaxAttempts
    ]_vars

\* A finished task is never run, requeued or rewritten again.
TerminalIsFinal ==
  [][\A i \in TaskId : IsTerminal(task[i]) => task'[i] = task[i]]_vars

\* The reason LISTEN is registered before the first pass: a worker that waits
\* after a full idle pass under a live listener, with nothing buffered, has no
\* task waiting that was due the moment it was enqueued.
NoLostWakeup ==
  \A w \in Workers :
    wk[w].pc = "wait" /\ wk[w].heard /\ wk[w].sock = "live" /\ ~wk[w].note
    => ~\E i \in TaskId : /\ task[i].status = "queued"
                          /\ task[i].prompt
                          /\ task[i].attempts = 0

\* Every task enqueued ends, succeeded or failed, however the workers crash,
\* lose leases, sockets or the database a bounded number of times.
EveryTaskEnds ==
  \A i \in TaskId : IsOpen(task[i]) ~> IsTerminal(task[i])

\* docs/OPERATIONS.md: "Stop with SIGTERM or Ctrl-C; a task in flight finishes,
\* then the loop ends": a stopping worker claims nothing more.
StopClaimsNothing ==
  [][\A w \in Workers : wk[w].stop /\ wk[w].pc = "pass" => wk'[w].pc # "run"]_vars

\* runner.py: a listener that cannot be opened means "polling only"; the process
\* ends only when it was told to (stated for environments without crashes).
OnlyStopEnds ==
  [][\A w \in Workers : wk[w].pc # "down" /\ wk'[w].pc = "down" => wk[w].stop]_vars

\* What a worker may do to a row, and when: a lease is lost only by expiry, a
\* running row leaves that status only through the holder of its lease or the
\* sweep, and a row that has ended stays as it is (queue.py _held, complete, fail).
LeaseDiscipline == LeaseLostByExpiry /\ OnlyHolderFinishes /\ TerminalIsFinal

-----------------------------------------------------------------------------
(* What a caller sees of the queue.                                          *)

OpenUnder(n, k) == {i \in TaskId : IsOpen(task[i]) /\ task[i].tenant = n /\ task[i].key = k}

\* The open task of a tenant and key, as its status and attempts.
PlaceOf(n, k) ==
  IF OpenUnder(n, k) = {} THEN [state |-> "empty", tries |-> 0]
  ELSE LET i == CHOOSE j \in OpenUnder(n, k) : TRUE
       IN [state |-> task[i].status, tries |-> task[i].attempts]

Flight == INSTANCE SingleFlight WITH
            Places <- Tenants \X Keys, MaxTries <- MaxAttempts,
            place <- [p \in Tenants \X Keys |-> PlaceOf(p[1], p[2])]

\* The queue keeps enqueue's promise: whatever workers, faults, expired leases and
\* late finishes do, work under one key is single, is taken at most max_attempts
\* times, and is never dropped while it waits (queue.py enqueue, claim_one).
OneInFlight == Flight!FlightSpec
===============================================================================
