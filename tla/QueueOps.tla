------------------------------- MODULE QueueOps -------------------------------
(***************************************************************************)
(* The task table and the statements of backend/app/worker/queue.py, as    *)
(* operators on a table of rows.  Every statement of queue.py is one       *)
(* transaction on one tenant, so each operator maps a whole table to the   *)
(* table it leaves behind; TaskQueue, RunTriggers and QboChain apply them  *)
(* inside their own actions.                                               *)
(*                                                                         *)
(* Clock times are abstracted to the two questions the statements ask:     *)
(* due ("run_after <= now()") and expired ("locked_until < now()").  The   *)
(* order by (run_after, created_at) only picks one of the claimable rows;  *)
(* here any of them may be picked.                                         *)
(***************************************************************************)
EXTENDS Naturals

\* dedupe_key IS NULL, locked_by IS NULL: strings no key and no worker has.
NoKey == "NULL"
NoWorker == "NULL"

\* TASK_STATUSES, plus "absent" for an id no row has been inserted under.
TaskStatus == {"absent", "queued", "running", "succeeded", "failed"}

AbsentRow == [status |-> "absent", tenant |-> NoKey, key |-> NoKey, attempts |-> 0,
              prompt |-> FALSE, due |-> FALSE, lockedBy |-> NoWorker, expired |-> FALSE]

\* DEDUPE_INDEX_WHERE: the rows the partial unique index covers.
IsOpen(row) == row.status \in {"queued", "running"}

IsTerminal(row) == row.status \in {"succeeded", "failed"}

\* Faulty: the index covers queued rows only, so a running task hides no repeat.
ConflictsQueuedOnly(tbl, tenant, key) ==
  /\ key # NoKey
  /\ \E i \in DOMAIN tbl :
       tbl[i].tenant = tenant /\ tbl[i].key = key /\ tbl[i].status = "queued"

\* The row "enqueue" would collide with on (tenant_id, kind, dedupe_key).  A key
\* of the model stands for the pair (kind, dedupe_key).
Conflicts(tbl, tenant, key) ==
  /\ key # NoKey
  /\ \E i \in DOMAIN tbl : /\ tbl[i].tenant = tenant
                           /\ tbl[i].key = key
                           /\ IsOpen(tbl[i])

\* The values enqueue inserts; prompt is "run_after is None" (due at once).
QueuedRow(tenant, key, prompt) ==
  [status |-> "queued", tenant |-> tenant, key |-> key, attempts |-> 0,
   prompt |-> prompt, due |-> prompt, lockedBy |-> NoWorker, expired |-> FALSE]

\* enqueue: INSERT ... ON CONFLICT DO NOTHING, under an id not in use.
Enqueued(tbl, id, tenant, key, prompt) ==
  IF Conflicts(tbl, tenant, key)
  THEN tbl
  ELSE [tbl EXCEPT ![id] = QueuedRow(tenant, key, prompt)]

\* A row that has ended: finished_at is set, the lease columns are cleared.
Ended(row, status) ==
  [row EXCEPT !.status = status, !.lockedBy = NoWorker, !.expired = FALSE]

\* A row that goes back to the queue, due after its backoff.
Requeued(row) ==
  [row EXCEPT !.status = "queued", !.due = FALSE, !.lockedBy = NoWorker, !.expired = FALSE]

\* Faulty: run_once forgets the sweep.
NoSweep(tbl, tenant, max) == tbl

\* sweep_expired: expired leases of this tenant already at max_attempts fail.
Swept(tbl, tenant, max) ==
  [i \in DOMAIN tbl |->
     IF /\ tbl[i].tenant = tenant
        /\ tbl[i].status = "running"
        /\ tbl[i].expired
        /\ tbl[i].attempts >= max
     THEN Ended(tbl[i], "failed")
     ELSE tbl[i]]

\* Faulty: claim_one takes a running row whose lease is still good.
ClaimableUnexpired(tbl, tenant, max) ==
  {i \in DOMAIN tbl : /\ tbl[i].tenant = tenant
                      /\ \/ tbl[i].status = "queued" /\ tbl[i].due
                         \/ tbl[i].status = "running"
                      /\ tbl[i].attempts < max}

\* claim_one's candidates: due and queued, or running under an expired lease.
Claimable(tbl, tenant, max) ==
  {i \in DOMAIN tbl : /\ tbl[i].tenant = tenant
                      /\ \/ tbl[i].status = "queued" /\ tbl[i].due
                         \/ tbl[i].status = "running" /\ tbl[i].expired
                      /\ tbl[i].attempts < max}

\* Faulty: the attempt is not counted when an expired lease is reclaimed.
LeasedUncounted(row, worker) ==
  [row EXCEPT !.status = "running", !.attempts = IF @ = 0 THEN 1 ELSE @,
              !.lockedBy = worker, !.expired = FALSE]

\* claim_one's UPDATE of the chosen candidate.
Leased(row, worker) ==
  [row EXCEPT !.status = "running", !.attempts = @ + 1,
              !.lockedBy = worker, !.expired = FALSE]

Claimed(tbl, i, worker) == [tbl EXCEPT ![i] = Leased(@, worker)]

\* _held: this worker still holds the lease it claimed.
Held(tbl, i, worker) == tbl[i].lockedBy = worker /\ tbl[i].status = "running"

\* complete: a worker whose lease was reclaimed writes nothing.
Completed(tbl, i, worker) ==
  IF Held(tbl, i, worker) THEN [tbl EXCEPT ![i] = Ended(@, "succeeded")] ELSE tbl

\* fail: failed at max_attempts or when permanent, else queued after a backoff.
Failed(tbl, i, worker, permanent, max) ==
  IF ~Held(tbl, i, worker) THEN tbl
  ELSE IF permanent \/ tbl[i].attempts >= max
       THEN [tbl EXCEPT ![i] = Ended(@, "failed")]
       ELSE [tbl EXCEPT ![i] = Requeued(@)]
===============================================================================
