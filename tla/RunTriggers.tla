----------------------------- MODULE RunTriggers -----------------------------
(***************************************************************************)
(* How a committed change reaches the derived tables of one tenant: the    *)
(* cost run (ledger_line.job_id from the job links) and the exceptions     *)
(* run (the review queue from everything its generators read), and the     *)
(* request transactions that queue them.                                   *)
(*                                                                         *)
(* A request transaction writes its change, queues the runs, and commits   *)
(* later: what it wrote and what it queued become visible together, what   *)
(* it read to decide may be old by then.  The runs execute in one worker   *)
(* process (the deployment's one worker), which may crash and restart.     *)
(*                                                                         *)
(* task  : the open or last row under each dedupe key (QueueOps; at most   *)
(*         one open row per key is TaskQueue's OneOpenPerKey).             *)
(* req   : one record per request transaction:                             *)
(*   pc    idle, wrote (change written, cost run queued when it is a       *)
(*         link), decided (open_task read), queued (enqueue returned),     *)
(*         committed, aborted                                              *)
(*   key   the refresh key request_refresh decided on                      *)
(*   saw   open_task returned a running row                                *)
(*   pend  the keys whose row it inserted and has not committed            *)
(*   rely  the keys it found open by somebody else, until its commit; then *)
(*         only those whose row was no longer waiting in the queue         *)
(* lines : the links the ledger lines carry                                *)
(* seen  : the changes the review queue reflects                           *)
(* wp    : the worker: pc, the key it runs, what its transaction has read  *)
(***************************************************************************)
EXTENDS QueueOps, FiniteSets

CONSTANTS Requests,     \* the state-changing requests that may arrive
          Links,        \* those that link or unlink a job
          MaxAttempts, MaxFaults

ASSUME RequestsAssumption == Links \subseteq Requests
ASSUME BoundsAssumption == MaxAttempts \in Nat \ {0} /\ MaxFaults \in Nat

VARIABLES task, req, lines, seen, wp, faults

vars == <<task, req, lines, seen, wp, faults>>

Tenant == "tenant"
RunKeys == {"refresh", "refresh:next", "cost:jobs", "cost:full"}
IsCost(k) == k \in {"cost:jobs", "cost:full"}

WorkerDown == [pc |-> "down", key |-> NoKey, snap |-> {}]
WorkerIdle == [pc |-> "idle", key |-> NoKey, snap |-> {}]

Init ==
  /\ task = [k \in RunKeys |-> AbsentRow]
  /\ req = [c \in Requests |-> [pc |-> "idle", key |-> NoKey, saw |-> FALSE,
                                 pend |-> {}, rely |-> {}]]
  /\ lines = {}
  /\ seen = {}
  /\ wp = WorkerDown
  /\ faults = 0

Committed == {c \in Requests : req[c].pc = "committed"}

\* What the exceptions run's collect reads: a link through the lines it moved.
Visible == (Committed \ Links) \cup lines

\* Rows inserted by transactions that have not committed: an insert of the same
\* key waits for them.
PendingKeys == UNION {req[c].pend : c \in Requests}

-----------------------------------------------------------------------------
(* The triggers. *)

enqueue(tbl, k) == Enqueued(tbl, k, Tenant, k, TRUE)

\* Faulty: request_refresh always asks for the one key.
RefreshKeyOne(tbl) == "refresh"

\* request_refresh's choice: a run already running is followed by one more.
RefreshKey(tbl) == IF tbl["refresh"].status = "running" THEN "refresh:next" ELSE "refresh"

\* A request's handler: the change, and for a link _request_cost_run.
HandleWrite(c) ==
  /\ req[c].pc = "idle"
  /\ c \in Links => "cost:jobs" \notin PendingKeys
  /\ LET costKey == IF c \in Links THEN {"cost:jobs"} ELSE {}
         taken == {k \in costKey : Conflicts(task, Tenant, k)}
     IN req' = [req EXCEPT ![c].pc = "wrote", ![c].pend = costKey \ taken, ![c].rely = taken]
  /\ UNCHANGED <<task, lines, seen, wp, faults>>

\* refresh_after_write: request_refresh reads the open row ...
DecideRefresh(c) ==
  /\ req[c].pc = "wrote"
  /\ req' = [req EXCEPT ![c].pc = "decided", ![c].key = RefreshKey(task),
                        ![c].saw = task["refresh"].status = "running"]
  /\ UNCHANGED <<task, lines, seen, wp, faults>>

\* ... and enqueues under the key it chose.
EnqueueRefresh(c) ==
  /\ req[c].pc = "decided"
  /\ req[c].key \notin PendingKeys
  /\ LET k == req[c].key
         inserts == ~Conflicts(task, Tenant, k)
         waits == ~inserts /\ (req[c].saw => k = "refresh:next")
     IN req' = [req EXCEPT ![c].pc = "queued",
                           ![c].pend = IF inserts THEN @ \cup {k} ELSE @,
                           ![c].rely = IF waits THEN @ \cup {k} ELSE @]
  /\ UNCHANGED <<task, lines, seen, wp, faults>>

\* The commit makes the change and the rows it queued visible.
InsertPending(tbl, r) == [k \in RunKeys |-> IF k \in r.pend THEN enqueue(tbl, k)[k] ELSE tbl[k]]

CommitRequest(c) ==
  /\ req[c].pc = "queued"
  /\ task' = InsertPending(task, req[c])
  /\ req' = [req EXCEPT ![c].pc = "committed", ![c].pend = {},
                        ![c].rely = {k \in @ : task[k].status # "queued"}]
  /\ UNCHANGED <<lines, seen, wp, faults>>

\* The handler or the commit raises: everything is rolled back.
AbortRequest(c) ==
  /\ req[c].pc \in {"wrote", "decided", "queued"}
  /\ faults < MaxFaults
  /\ faults' = faults + 1
  /\ req' = [req EXCEPT ![c].pc = "aborted", ![c].pend = {}]
  /\ UNCHANGED <<task, lines, seen, wp>>

-----------------------------------------------------------------------------
(* The worker process. *)

\* run_startup_hooks: ensure_refreshed and ensure_cost_lines, deduped.
Startup ==
  /\ wp.pc = "down"
  /\ {RefreshKey(task), "cost:full"} \cap PendingKeys = {}
  /\ task' = enqueue(enqueue(task, RefreshKey(task)), "cost:full")
  /\ wp' = WorkerIdle
  /\ UNCHANGED <<req, lines, seen, faults>>

\* run_once: the sweep and the claim of one run.
ClaimRun ==
  LET swept == Swept(task, Tenant, MaxAttempts)
      due == Claimable(swept, Tenant, MaxAttempts)
  IN /\ wp.pc = "idle"
     /\ \E k \in due : /\ task' = Claimed(swept, k, "worker")
                       /\ wp' = [WorkerIdle EXCEPT !.pc = "run", !.key = k]
     /\ UNCHANGED <<req, lines, seen, faults>>

\* refresh: collect reads every generator's input.
CollectRefresh ==
  /\ wp.pc = "run"
  /\ ~IsCost(wp.key)
  /\ wp' = [wp EXCEPT !.pc = "read", !.snap = Visible]
  /\ UNCHANGED <<task, req, lines, seen, faults>>

\* refresh: what collect returned is persisted and the transaction commits.
PersistRefresh ==
  /\ wp.pc = "read"
  /\ ~IsCost(wp.key)
  /\ seen' = wp.snap
  /\ wp' = [wp EXCEPT !.pc = "done", !.snap = {}]
  /\ UNCHANGED <<task, req, lines, faults>>

\* cost_run: refill_job_ids (the last step of apply_everything too) reads the links.
ReadLinks ==
  /\ wp.pc = "run"
  /\ IsCost(wp.key)
  /\ wp' = [wp EXCEPT !.pc = "read", !.snap = Committed \cap Links]
  /\ UNCHANGED <<task, req, lines, seen, faults>>

\* cost_run: request_refresh in the run's transaction when lines changed.
FollowUp(changed) == IF changed THEN enqueue(task, RefreshKey(task)) ELSE task

FillLines ==
  /\ wp.pc = "read"
  /\ IsCost(wp.key)
  /\ RefreshKey(task) \notin PendingKeys
  /\ task' = FollowUp(wp.snap # lines)
  /\ lines' = wp.snap
  /\ wp' = [wp EXCEPT !.pc = "done", !.snap = {}]
  /\ UNCHANGED <<req, seen, faults>>

\* complete in a transaction after the run's own.
CompleteRun ==
  /\ wp.pc = "done"
  /\ task' = Completed(task, wp.key, "worker")
  /\ wp' = WorkerIdle
  /\ UNCHANGED <<req, lines, seen, faults>>

\* The run raises before its commit: rolled back, retried with backoff.
FailRun ==
  /\ wp.pc \in {"run", "read"}
  /\ faults < MaxFaults
  /\ faults' = faults + 1
  /\ task' = Failed(task, wp.key, "worker", FALSE, MaxAttempts)
  /\ wp' = WorkerIdle
  /\ UNCHANGED <<req, lines, seen>>

Crash ==
  /\ wp.pc # "down"
  /\ faults < MaxFaults
  /\ faults' = faults + 1
  /\ wp' = WorkerDown
  /\ UNCHANGED <<task, req, lines, seen>>

\* The lease of a crashed run, or the backoff of a failed one, passes.
TimePasses(k) ==
  /\ \/ /\ task[k].status = "running" /\ ~task[k].expired
        /\ wp.key # k
        /\ task' = [task EXCEPT ![k].expired = TRUE]
     \/ /\ task[k].status = "queued" /\ ~task[k].due
        /\ task' = [task EXCEPT ![k].due = TRUE]
  /\ UNCHANGED <<req, lines, seen, wp, faults>>

-----------------------------------------------------------------------------
WorkerStep ==
  \/ Startup \/ ClaimRun \/ CollectRefresh \/ PersistRefresh
  \/ ReadLinks \/ FillLines \/ CompleteRun

RequestStep(c) ==
  HandleWrite(c) \/ DecideRefresh(c) \/ EnqueueRefresh(c) \/ CommitRequest(c)

Next ==
  \/ \E c \in Requests : RequestStep(c) \/ AbortRequest(c)
  \/ WorkerStep \/ FailRun \/ Crash
  \/ \E k \in RunKeys : TimePasses(k)

Spec == Init /\ [][Next]_vars

\* The worker keeps going (systemd restarts it), a started request ends, clocks
\* advance.  Nothing makes a request arrive.
FairSpec ==
  /\ Spec
  /\ WF_vars(WorkerStep)
  /\ \A c \in Requests : WF_vars(req[c].pc # "idle" /\ RequestStep(c))
  /\ \A k \in RunKeys : WF_vars(TimePasses(k))

-----------------------------------------------------------------------------
(* Properties. *)

Row == [status : TaskStatus, tenant : {Tenant, NoKey}, key : RunKeys \cup {NoKey},
        attempts : 0..MaxAttempts, prompt : BOOLEAN, due : BOOLEAN,
        lockedBy : {"worker", NoWorker}, expired : BOOLEAN]

\* Shapes; and an uncommitted insert is of a key that no open row has, so the
\* commit never meets the unique index.
TypeOK ==
  /\ task \in [RunKeys -> Row]
  /\ req \in [Requests -> [pc : {"idle", "wrote", "decided", "queued", "committed", "aborted"},
                           key : RunKeys \cup {NoKey}, saw : BOOLEAN,
                           pend : SUBSET RunKeys, rely : SUBSET RunKeys]]
  /\ lines \subseteq Links /\ seen \subseteq Requests
  /\ wp \in [pc : {"down", "idle", "run", "read", "done"}, key : RunKeys \cup {NoKey},
             snap : SUBSET Requests]
  /\ faults \in 0..MaxFaults
  /\ \A c \in Requests : \A k \in req[c].pend : ~IsOpen(task[k])

\* A committed change reaches the review queue: through the run it queued, or the
\* queued run it found, or refresh:next when one was running, and through a cost run
\* when it is a link.  Left out are the changes whose run was claimed between their
\* enqueue and their commit (QueuedRunTakesChange and LinkReachesLines are about
\* them).  No run exhausts its attempts (MaxFaults < MaxAttempts).
ChangeReachesQueue ==
  \A c \in Requests : (c \in Committed /\ req[c].rely = {}) ~> c \in seen

\* Runs settle: what is queued stays well formed, an insert never meets the unique
\* index at its commit, and every change reaches the queue (run.py, queue.py).
RunsSettle == []TypeOK /\ ChangeReachesQueue

\* Nothing is left to run.
Quiescent ==
  /\ \A k \in RunKeys : task[k].status \in {"absent", "succeeded"}
  /\ \A c \in Requests : req[c].pc \in {"idle", "committed", "aborted"}
  /\ wp.pc = "idle"

\* domain/exceptions/run.py, request_refresh: "A run already queued takes the
\* change; one already running is followed by one more": with nothing left to run,
\* every committed change that is not a link is in the review queue.
QueuedRunTakesChange == Quiescent => Committed \ Links \subseteq seen

\* domain/jobs/service.py, _request_cost_run: "a link or an unlink queues one cost
\* run that fills and clears ledger_line.job_id from the aliases": with nothing
\* left to run, the lines carry every committed link.
LinkReachesLines == Quiescent => Committed \cap Links \subseteq lines
===============================================================================
