--------------------------- MODULE TaskQueueProofs ---------------------------
(***************************************************************************)
(* Theorems about TaskQueue for any number of workers, tenants, tasks and  *)
(* attempts.  The facts about the statements of queue.py are lemmas about  *)
(* the operators of QueueOps; the action properties then follow step by    *)
(* step.                                                                   *)
(***************************************************************************)
EXTENDS TaskQueue, TLAPS, FiniteSetTheorems

Table == [TaskId -> Row]

-----------------------------------------------------------------------------
(* What the statements preserve. *)

\* enqueue inserts a well-formed row or changes nothing.
LEMMA EnqueuedType ==
  ASSUME NEW tbl \in Table, NEW i \in TaskId, NEW n \in Tenants,
         NEW k \in Keys \cup {NoKey}, NEW p \in BOOLEAN
  PROVE  Enqueued(tbl, i, n, k, p) \in Table
<1>1. QueuedRow(n, k, p) \in Row
  BY BoundsAssumption DEF QueuedRow, Row, TaskStatus
<1> QED BY <1>1 DEF Enqueued, Table

\* Ending a row keeps it well formed.
LEMMA EndedType ==
  ASSUME NEW r \in Row, NEW st \in TaskStatus
  PROVE  Ended(r, st) \in Row
BY DEF Ended, Row

\* sweep_expired keeps the table well formed.
LEMMA SweptType ==
  ASSUME NEW tbl \in Table, NEW n \in Tenants
  PROVE  Swept(tbl, n, MaxAttempts) \in Table
<1>1. \A i \in TaskId : tbl[i] \in Row
  BY DEF Table
<1>2. \A i \in TaskId : Ended(tbl[i], "failed") \in Row
  BY <1>1, EndedType DEF TaskStatus
<1>3. DOMAIN tbl = TaskId
  BY DEF Table
<1> QED BY <1>1, <1>2, <1>3 DEF Swept, Table

\* claim_one keeps attempts within max_attempts: its candidates are below it.
LEMMA ClaimedType ==
  ASSUME NEW tbl \in Table, NEW n \in Tenants, NEW w \in Workers,
         NEW i \in Claimable(tbl, n, MaxAttempts)
  PROVE  i \in TaskId /\ Claimed(tbl, i, w) \in Table
<1>1. i \in TaskId /\ tbl[i] \in Row /\ tbl[i].attempts < MaxAttempts
  BY DEF Claimable, Table
<1>2. tbl[i].attempts + 1 \in 0..MaxAttempts
  BY <1>1, BoundsAssumption DEF Row
<1>3. Leased(tbl[i], w) \in Row
  BY <1>1, <1>2 DEF Leased, Row, TaskStatus
<1> QED BY <1>1, <1>3 DEF Claimed, Table

\* complete keeps the table well formed.
LEMMA CompletedType ==
  ASSUME NEW tbl \in Table, NEW i \in TaskId, NEW w \in Workers
  PROVE  Completed(tbl, i, w) \in Table
<1>1. Ended(tbl[i], "succeeded") \in Row
  BY EndedType DEF Table, TaskStatus
<1> QED BY <1>1 DEF Completed, Table

\* fail keeps the table well formed.
LEMMA FailedType ==
  ASSUME NEW tbl \in Table, NEW i \in TaskId, NEW w \in Workers, NEW p \in BOOLEAN
  PROVE  Failed(tbl, i, w, p, MaxAttempts) \in Table
<1>1. Ended(tbl[i], "failed") \in Row
  BY EndedType DEF Table, TaskStatus
<1>2. Requeued(tbl[i]) \in Row
  BY DEF Requeued, Row, Table, TaskStatus
<1> QED BY <1>1, <1>2 DEF Failed, Table

\* The records the worker loop moves through are well formed.
LEMMA ProcType ==
  ASSUME NEW r \in Proc
  PROVE  /\ WorkerDown \in Proc
         /\ BeginPass(r) \in Proc
         /\ \A ran, heard \in BOOLEAN : AfterPass(r, ran, heard) \in Proc
<1>1. WorkerDown \in Proc
  BY DEF WorkerDown, Proc
<1>2. BeginPass(r) \in Proc
  BY DEF BeginPass, Proc
<1>3. ASSUME NEW ran \in BOOLEAN, NEW heard \in BOOLEAN
      PROVE  AfterPass(r, ran, heard) \in Proc
  <2>1. [r EXCEPT !.pc = "wait", !.cur = NoTask, !.heard = heard,
                  !.sock = IF @ = "none" THEN "live" ELSE @] \in Proc
    BY DEF Proc
  <2> QED BY <1>1, <1>2, <2>1 DEF AfterPass
<1> QED BY <1>1, <1>2, <1>3

LEMMA TaskSteps ==
  ASSUME NEW r \in Proc, NEW i \in TaskId, NEW n \in Tenants
  PROVE  /\ BeginTask(r, i, n) \in Proc
         /\ BeginTask(r, i, n).pc = "run" /\ BeginTask(r, i, n).cur = i
         /\ EndTask(r) \in Proc /\ EndTask(r).pc = "pass"
         /\ Heard(r) \in Proc
BY DEF BeginTask, EndTask, Heard, Proc

\* No step of the loop other than a claim enters a task.
LEMMA NotRunning ==
  ASSUME NEW r \in Proc
  PROVE  /\ WorkerDown.pc # "run"
         /\ BeginPass(r).pc # "run"
         /\ \A ran, heard \in BOOLEAN : AfterPass(r, ran, heard).pc # "run"
<1>1. WorkerDown.pc = "down"
  BY DEF WorkerDown
<1>2. BeginPass(r).pc = "pass"
  BY DEF BeginPass, Proc
<1>3. ASSUME NEW ran \in BOOLEAN, NEW heard \in BOOLEAN
      PROVE  AfterPass(r, ran, heard).pc # "run"
  <2>1. [r EXCEPT !.pc = "wait", !.cur = NoTask, !.heard = heard,
                  !.sock = IF @ = "none" THEN "live" ELSE @].pc = "wait"
    BY DEF Proc
  <2> QED BY <1>1, <1>2, <2>1 DEF AfterPass
<1> QED BY <1>1, <1>2, <1>3

-----------------------------------------------------------------------------
(* Type correctness. *)

\* A worker inside a task function was given a row of the table.
RunsTask == \A w \in Workers : wk[w].pc = "run" => wk[w].cur \in TaskId

TypeInv == Shapes /\ RunsTask

\* A worker's record replaced by another well-formed one keeps both conjuncts.
LEMMA WorkerUpdate ==
  ASSUME TypeInv, NEW w \in Workers, NEW r \in Proc, wk' = [wk EXCEPT ![w] = r],
         r.pc = "run" => r.cur \in TaskId
  PROVE  wk' \in [Workers -> Proc] /\ RunsTask'
BY DEF TypeInv, Shapes, RunsTask

LEMMA TypeInductive == TypeInv /\ [Next]_vars => TypeInv'
<1> SUFFICES ASSUME TypeInv, [Next]_vars PROVE TypeInv'
  OBVIOUS
<1> USE DEF TypeInv
<1>0. task \in Table /\ wk \in [Workers -> Proc] /\ faults \in 0..MaxFaults
  BY DEF Shapes, Table
<1>f. ASSUME NEW kind, Fault(kind) PROVE faults' \in 0..MaxFaults
  BY <1>0, <1>f, BoundsAssumption DEF Fault
<1>1. ASSUME NEW i \in TaskId, NEW n \in Tenants, NEW k \in Keys \cup {NoKey},
             NEW p \in BOOLEAN, enqueue(i, n, k, p)
      PROVE  TypeInv'
  <2>1. task' \in Table /\ faults' \in 0..MaxFaults
    BY <1>0, <1>1, EnqueuedType DEF enqueue
  <2>2. notify(wk) \in [Workers -> Proc]
    BY <1>0 DEF notify, Proc
  <2>3. \A w \in Workers : /\ notify(wk)[w].pc = wk[w].pc
                            /\ notify(wk)[w].cur = wk[w].cur
    BY <1>0 DEF notify, Proc
  <2>4. wk' = wk \/ wk' = notify(wk)
    BY <1>1 DEF enqueue
  <2> QED BY <1>0, <2>1, <2>2, <2>3, <2>4 DEF Shapes, RunsTask, Table
<1>2. ASSUME NEW w \in Workers, WorkerStep(w) PROVE TypeInv'
  <2>r. wk[w] \in Proc
    BY <1>0
  <2>1. CASE Start(w)
    <3>1. [WorkerDown EXCEPT !.sock = "live"] \in Proc /\ WorkerDown \in Proc
      BY DEF WorkerDown, Proc
    <3>2. \E r \in Proc : wk' = [wk EXCEPT ![w] = r] /\ r.pc # "run"
      BY <2>1, <3>1, ProcType, NotRunning DEF Start
    <3>3. faults' \in 0..MaxFaults
      BY <1>0, <1>f, <2>1 DEF Start
    <3> QED BY <1>0, <2>1, <3>2, <3>3, WorkerUpdate DEF Start, Shapes, Table
  <2>2. ASSUME NEW n \in Tenants, ClaimTenant(w, n) PROVE TypeInv'
    <3> DEFINE swept == Swept(task, n, MaxAttempts)
               due == Claimable(swept, n, MaxAttempts)
    <3>1. swept \in Table
      BY <1>0, SweptType
    <3>2. CASE task' = swept /\ wk' = [wk EXCEPT ![w].todo = @ \ {n}]
      <4>1. wk' \in [Workers -> Proc] /\ RunsTask'
        BY <1>0, <2>2, <3>2 DEF ClaimTenant, RunsTask, Proc
      <4> QED BY <1>0, <2>2, <3>1, <3>2, <4>1 DEF ClaimTenant, Shapes, Table
    <3>3. ASSUME NEW i \in due, task' = Claimed(swept, i, w),
                 wk' = [wk EXCEPT ![w] = BeginTask(wk[w], i, n)]
          PROVE  TypeInv'
      <4>1. i \in TaskId /\ task' \in Table
        BY <3>1, <3>3, ClaimedType
      <4>2. wk' \in [Workers -> Proc] /\ RunsTask'
        BY <2>r, <3>3, <4>1, TaskSteps, WorkerUpdate
      <4> QED BY <1>0, <2>2, <4>1, <4>2 DEF ClaimTenant, Shapes, Table
    <3> QED BY <2>2, <3>2, <3>3 DEF ClaimTenant
  <2>3. CASE FinishOk(w) \/ \E p \in BOOLEAN : FinishFail(w, p)
    <3>1. wk[w].cur \in TaskId
      BY <2>3 DEF FinishOk, FinishFail, RunsTask
    <3>2. task' \in Table
      BY <1>0, <2>3, <3>1, CompletedType, FailedType DEF FinishOk, FinishFail
    <3>3. wk' = [wk EXCEPT ![w] = EndTask(wk[w])] /\ faults' = faults
      BY <2>3 DEF FinishOk, FinishFail
    <3>4. EndTask(wk[w]) \in Proc /\ EndTask(wk[w]).pc = "pass"
      BY <2>r DEF EndTask, Proc
    <3> QED BY <1>0, <3>2, <3>3, <3>4, WorkerUpdate DEF Shapes, Table
  <2>4. CASE EndPass(w) \/ Wake(w) \/ PollElapsed(w)
    <3>1. \E r \in Proc : wk' = [wk EXCEPT ![w] = r] /\ r.pc # "run"
      <4>1. CASE EndPass(w)
        <5>1. wk[w].ran \in BOOLEAN /\ (wk[w].heard /\ wk[w].sock = "live") \in BOOLEAN
          BY <2>r DEF Proc
        <5> QED BY <2>r, <4>1, <5>1, ProcType, NotRunning DEF EndPass
      <4>2. CASE Wake(w)
        <5>1. Heard(wk[w]) \in Proc
          BY <2>r DEF Heard, Proc
        <5> QED BY <2>r, <4>2, <5>1, ProcType, NotRunning DEF Wake
      <4>3. CASE PollElapsed(w)
        BY <2>r, <4>3, ProcType, NotRunning DEF PollElapsed
      <4> QED BY <2>4, <4>1, <4>2, <4>3
    <3>2. task' = task /\ faults' = faults
      BY <2>4 DEF EndPass, Wake, PollElapsed
    <3> QED BY <1>0, <3>1, <3>2, WorkerUpdate DEF Shapes, Table
  <2>5. CASE ListenerFails(w)
    <3> DEFINE r == [wk[w] EXCEPT !.sock = "none", !.note = FALSE, !.heard = FALSE]
    <3>1. r \in Proc /\ r.pc # "run"
      BY <2>r, <2>5 DEF ListenerFails, Proc
    <3>2. wk' = [wk EXCEPT ![w] = r]
      BY <1>0, <2>5 DEF ListenerFails
    <3>3. wk' \in [Workers -> Proc] /\ RunsTask'
      BY <3>1, <3>2, WorkerUpdate
    <3> QED BY <1>0, <2>5, <3>3 DEF ListenerFails, Shapes, Table
  <2> QED BY <1>2, <2>1, <2>2, <2>3, <2>4, <2>5 DEF WorkerStep
<1>3. ASSUME NEW w \in Workers, FaultStep(w) PROVE TypeInv'
  <2>1. task' = task /\ faults' \in 0..MaxFaults
    BY <1>3, <1>f DEF FaultStep, PassError, ListenRefused, Stop, Crash, SocketDies
  <2>2. CASE PassError(w) \/ ListenRefused(w) \/ Crash(w)
    <3>1. \E r \in Proc : wk' = [wk EXCEPT ![w] = r] /\ r.pc # "run"
      BY <1>0, <2>2, ProcType, NotRunning DEF PassError, ListenRefused, Crash
    <3> QED BY <1>0, <2>1, <3>1, WorkerUpdate DEF Shapes, Table
  <2>3. CASE Stop(w) \/ SocketDies(w)
    <3>r. wk[w] \in Proc
      BY <1>0
    <3>a. /\ [wk[w] EXCEPT !.stop = TRUE] \in Proc
          /\ [wk[w] EXCEPT !.sock = "dead"] \in Proc
          /\ [wk[w] EXCEPT !.stop = TRUE].pc = wk[w].pc
          /\ [wk[w] EXCEPT !.sock = "dead"].pc = wk[w].pc
          /\ [wk[w] EXCEPT !.stop = TRUE].cur = wk[w].cur
          /\ [wk[w] EXCEPT !.sock = "dead"].cur = wk[w].cur
      BY <3>r DEF Proc
    <3>b. \E r \in Proc : /\ wk' = [wk EXCEPT ![w] = r]
                         /\ r.pc = wk[w].pc /\ r.cur = wk[w].cur
      BY <2>3, <3>a DEF Stop, SocketDies
    <3>c. wk[w].pc = "run" => wk[w].cur \in TaskId
      BY DEF RunsTask
    <3>1. wk' \in [Workers -> Proc] /\ RunsTask'
      BY <3>b, <3>c, WorkerUpdate
    <3> QED BY <1>0, <2>1, <3>1 DEF Shapes, Table
  <2> QED BY <1>3, <2>2, <2>3 DEF FaultStep
<1>4. ASSUME NEW i \in TaskId, LeaseExpires(i) \/ RunAfterPasses(i) PROVE TypeInv'
  <2>1. task' \in Table
    <3>1. task[i] \in Row
      BY <1>0 DEF Table
    <3>2. [task[i] EXCEPT !.expired = TRUE] \in Row /\ [task[i] EXCEPT !.due = TRUE] \in Row
      BY <3>1 DEF Row
    <3> QED BY <1>0, <1>4, <3>2 DEF LeaseExpires, RunAfterPasses, Table
  <2> QED BY <1>0, <1>4, <2>1 DEF LeaseExpires, RunAfterPasses, Shapes, RunsTask, Table
<1>5. CASE UNCHANGED vars
  BY <1>5 DEF vars, Shapes, RunsTask
<1> QED BY <1>1, <1>2, <1>3, <1>4, <1>5 DEF Next

LEMMA TypeInitially == Init => TypeInv
<1>1. AbsentRow \in Row
  BY BoundsAssumption DEF AbsentRow, Row, TaskStatus
<1>2. WorkerDown \in Proc /\ WorkerDown.pc # "run"
  BY DEF WorkerDown, Proc
<1> QED BY <1>1, <1>2, BoundsAssumption DEF Init, TypeInv, Shapes, RunsTask

-----------------------------------------------------------------------------
(* What a step may do to a row. *)

\* Rows sweep_expired changes: running, expired, at max_attempts.
LEMMA SweptRow ==
  ASSUME NEW tbl \in Table, NEW n \in Tenants, NEW i \in TaskId
  PROVE  \/ Swept(tbl, n, MaxAttempts)[i] = tbl[i]
         \/ /\ tbl[i].status = "running" /\ tbl[i].expired
            /\ tbl[i].attempts = MaxAttempts
            /\ Swept(tbl, n, MaxAttempts)[i] = Ended(tbl[i], "failed")
<1>1. i \in DOMAIN tbl /\ tbl[i].attempts \in 0..MaxAttempts
  BY DEF Table, Row
<1> QED BY <1>1, BoundsAssumption DEF Swept

LEMMA EndedStatus ==
  ASSUME NEW r \in Row, NEW st \in TaskStatus
  PROVE  /\ Ended(r, st).status = st /\ Ended(r, st).lockedBy = NoWorker
         /\ Ended(r, st).tenant = r.tenant /\ Ended(r, st).key = r.key
BY DEF Ended, Row

LEMMA RequeuedStatus ==
  ASSUME NEW r \in Row
  PROVE  /\ Requeued(r).status = "queued" /\ Requeued(r).lockedBy = NoWorker
         /\ Requeued(r).tenant = r.tenant /\ Requeued(r).key = r.key
BY DEF Requeued, Row

LEMMA LeasedStatus ==
  ASSUME NEW r \in Row, NEW w \in Workers
  PROVE  /\ Leased(r, w).status = "running" /\ Leased(r, w).lockedBy = w
         /\ Leased(r, w).tenant = r.tenant /\ Leased(r, w).key = r.key
BY DEF Leased, Row

\* The ways a row changes in one step: inserted (and every listener told), swept, claimed (possibly after
\* the sweep of other rows), ended or requeued by the worker that holds it, or
\* one of its two clocks passes.
RowStep(i) ==
  \/ task'[i] = task[i]
  \/ /\ task[i].status = "absent"
     /\ \E n \in Tenants, k \in Keys \cup {NoKey}, p \in BOOLEAN :
          /\ ~Conflicts(task, n, k)
          /\ task' = [task EXCEPT ![i] = QueuedRow(n, k, p)]
          /\ wk' = notify(wk)
  \/ /\ task[i].status = "running" /\ task[i].expired /\ task[i].attempts = MaxAttempts
     /\ task'[i] = Ended(task[i], "failed")
  \/ /\ \/ task[i].status = "queued" /\ task[i].due
        \/ task[i].status = "running" /\ task[i].expired
     /\ \E w \in Workers : task'[i] = Leased(task[i], w)
  \/ \E w \in Workers :
       /\ wk[w].pc = "run" /\ wk[w].cur = i /\ Held(task, i, w)
       /\ wk' = [wk EXCEPT ![w] = EndTask(wk[w])]
       /\ \/ task'[i] \in {Ended(task[i], "succeeded"), Ended(task[i], "failed")}
          \/ task[i].attempts < MaxAttempts /\ task'[i] = Requeued(task[i])
  \/ task[i].status = "running" /\ task'[i] = [task[i] EXCEPT !.expired = TRUE]
  \/ task[i].status = "queued" /\ task'[i] = [task[i] EXCEPT !.due = TRUE]

LEMMA EveryRowStep ==
  ASSUME TypeInv, [Next]_vars, NEW i \in TaskId
  PROVE  RowStep(i)
<1>0. task \in Table
  BY DEF TypeInv, Shapes, Table
<1>1. ASSUME NEW j \in TaskId, NEW n \in Tenants, NEW k \in Keys \cup {NoKey},
             NEW p \in BOOLEAN, enqueue(j, n, k, p)
      PROVE  RowStep(i)
  BY <1>0, <1>1 DEF enqueue, Enqueued, RowStep, Table
<1>2. ASSUME NEW w \in Workers, WorkerStep(w) PROVE RowStep(i)
  <2>1. ASSUME NEW n \in Tenants, ClaimTenant(w, n) PROVE RowStep(i)
    <3> DEFINE swept == Swept(task, n, MaxAttempts)
               due == Claimable(swept, n, MaxAttempts)
    <3>1. swept \in Table
      BY <1>0, SweptType
    <3>2. CASE task' = swept
      BY <1>0, <3>2, SweptRow DEF RowStep
    <3>3. ASSUME NEW j \in due, task' = Claimed(swept, j, w) PROVE RowStep(i)
      <4>1. j \in TaskId
        BY <3>1, ClaimedType
      <4>2. CASE i # j
        <5>1. task'[i] = swept[i]
          BY <3>1, <3>3, <4>1, <4>2 DEF Claimed, Table
        <5> QED BY <1>0, <5>1, SweptRow DEF RowStep
      <4>3. CASE i = j
        <5>1. task'[i] = Leased(swept[i], w)
          BY <3>1, <3>3, <4>3 DEF Claimed, Table
        <5>2. swept[i].status \in {"queued", "running"}
          BY <4>3 DEF Claimable
        <5>3. swept[i] = task[i]
          <6>1. Ended(task[i], "failed").status = "failed"
            BY <1>0, EndedStatus DEF Table, TaskStatus
          <6> QED BY <1>0, <5>2, <6>1, SweptRow
        <5>4. \/ task[i].status = "queued" /\ task[i].due
              \/ task[i].status = "running" /\ task[i].expired
          BY <4>3, <5>3 DEF Claimable
        <5> QED BY <5>1, <5>3, <5>4 DEF RowStep
      <4> QED BY <4>2, <4>3
    <3> QED BY <2>1, <3>2, <3>3 DEF ClaimTenant
  <2>2. CASE FinishOk(w) \/ \E p \in BOOLEAN : FinishFail(w, p)
    <3>1. wk[w].pc = "run" /\ wk' = [wk EXCEPT ![w] = EndTask(wk[w])]
      BY <2>2 DEF FinishOk, FinishFail
    <3>2. CASE task' = task
      BY <3>2 DEF RowStep
    <3>3. CASE /\ Held(task, wk[w].cur, w)
               /\ task' \in {[task EXCEPT ![wk[w].cur] = Ended(@, "succeeded")],
                             [task EXCEPT ![wk[w].cur] = Ended(@, "failed")]}
      BY <1>0, <3>1, <3>3 DEF RowStep, Table
    <3>4. CASE /\ Held(task, wk[w].cur, w)
               /\ ~(task[wk[w].cur].attempts >= MaxAttempts)
               /\ task' = [task EXCEPT ![wk[w].cur] = Requeued(@)]
      <4>1. CASE wk[w].cur = i
        <5>1. task'[i] = Requeued(task[i]) /\ ~(task[i].attempts >= MaxAttempts)
          BY <1>0, <3>4, <4>1 DEF Table
        <5>2. task[i].attempts \in 0..MaxAttempts
          BY <1>0 DEF Table, Row
        <5>3. task[i].attempts < MaxAttempts
          BY <5>1, <5>2, BoundsAssumption
        <5>4. Held(task, i, w)
          BY <3>4, <4>1
        <5> QED BY <3>1, <4>1, <5>1, <5>3, <5>4 DEF RowStep
      <4>2. CASE wk[w].cur # i
        BY <1>0, <3>4, <4>2 DEF RowStep, Table
      <4> QED BY <4>1, <4>2
    <3> QED BY <2>2, <3>2, <3>3, <3>4 DEF FinishOk, FinishFail, Completed, Failed
  <2>3. CASE Start(w) \/ EndPass(w) \/ Wake(w) \/ PollElapsed(w) \/ ListenerFails(w)
    BY <2>3 DEF Start, EndPass, Wake, PollElapsed, ListenerFails, RowStep
  <2> QED BY <1>2, <2>1, <2>2, <2>3 DEF WorkerStep
<1>3. ASSUME NEW w \in Workers, FaultStep(w) PROVE RowStep(i)
  BY <1>3 DEF FaultStep, PassError, ListenRefused, Stop, Crash, SocketDies, RowStep
<1>4. ASSUME NEW j \in TaskId, LeaseExpires(j) \/ RunAfterPasses(j) PROVE RowStep(i)
  BY <1>0, <1>4 DEF LeaseExpires, RunAfterPasses, RowStep, Table
<1>5. CASE UNCHANGED vars
  BY <1>5 DEF vars, RowStep
<1> QED BY <1>1, <1>2, <1>3, <1>4, <1>5 DEF Next

-----------------------------------------------------------------------------
(* The safety properties. *)

LeaseColumns ==
  \A i \in TaskId : task[i].lockedBy # NoWorker <=> task[i].status = "running"

LEMMA LeaseColumnsInductive == TypeInv /\ LeaseColumns /\ [Next]_vars => LeaseColumns'
<1> SUFFICES ASSUME TypeInv, LeaseColumns, [Next]_vars, NEW i \in TaskId
             PROVE  task'[i].lockedBy # NoWorker <=> task'[i].status = "running"
  BY DEF LeaseColumns
<1>1. task[i] \in Row /\ RowStep(i)
  BY EveryRowStep DEF TypeInv, Shapes
<1>2. task[i].lockedBy # NoWorker <=> task[i].status = "running"
  BY DEF LeaseColumns
<1>3. ASSUME NEW n, NEW k, NEW p, task' = [task EXCEPT ![i] = QueuedRow(n, k, p)]
      PROVE  task'[i].lockedBy = NoWorker /\ task'[i].status = "queued"
  <2>1. task'[i] = QueuedRow(n, k, p)
    BY <1>3 DEF TypeInv, Shapes
  <2> QED BY <2>1 DEF QueuedRow
<1>4. \A st \in TaskStatus : /\ Ended(task[i], st).status = st
                              /\ Ended(task[i], st).lockedBy = NoWorker
  BY <1>1, EndedStatus
<1>5. Requeued(task[i]).status = "queued" /\ Requeued(task[i]).lockedBy = NoWorker
  BY <1>1, RequeuedStatus
<1>6. \A w \in Workers : Leased(task[i], w).status = "running" /\ Leased(task[i], w).lockedBy = w
  BY <1>1, LeasedStatus
<1>7. /\ [task[i] EXCEPT !.expired = TRUE].status = task[i].status
      /\ [task[i] EXCEPT !.expired = TRUE].lockedBy = task[i].lockedBy
      /\ [task[i] EXCEPT !.due = TRUE].status = task[i].status
      /\ [task[i] EXCEPT !.due = TRUE].lockedBy = task[i].lockedBy
  BY <1>1 DEF Row
<1>8. \/ task'[i] = task[i]
      \/ task'[i].lockedBy = NoWorker /\ task'[i].status = "queued"
      \/ \E st \in {"succeeded", "failed"} : task'[i] = Ended(task[i], st)
      \/ task'[i] = Requeued(task[i])
      \/ \E w \in Workers : task'[i] = Leased(task[i], w)
      \/ task'[i] = [task[i] EXCEPT !.expired = TRUE]
      \/ task'[i] = [task[i] EXCEPT !.due = TRUE]
  BY <1>1, <1>3 DEF RowStep
<1>9. ASSUME NEW st \in {"succeeded", "failed"}, task'[i] = Ended(task[i], st)
      PROVE  task'[i].lockedBy = NoWorker /\ task'[i].status # "running"
  BY <1>4, <1>9 DEF TaskStatus
<1> QED BY <1>2, <1>5, <1>6, <1>7, <1>8, <1>9, WorkersAssumption

\* Whatever leases expire, workers crash or finishes arrive late, no row counts
\* more attempts than max_attempts, a row has a lease holder exactly while it is
\* running, and every record keeps its shape.
THEOREM TypeCorrect == Spec => []TypeOK
<1>1. Init => TypeInv /\ LeaseColumns
  <2>1. AbsentRow.status = "absent" /\ AbsentRow.lockedBy = NoWorker
    BY DEF AbsentRow
  <2> QED BY <2>1, TypeInitially DEF Init, LeaseColumns
<1>2. TypeInv /\ LeaseColumns /\ [Next]_vars => (TypeInv /\ LeaseColumns)'
  BY TypeInductive, LeaseColumnsInductive
<1>3. TypeInv /\ LeaseColumns => TypeOK
  BY DEF TypeInv, LeaseColumns, TypeOK
<1> QED BY <1>1, <1>2, <1>3, PTL DEF Spec

\* A row keeps its tenant and key once it is inserted, and a row that has ended
\* keeps its status.
LEMMA RowIdentity ==
  ASSUME TypeInv, NEW i \in TaskId, RowStep(i), task[i].status # "absent"
  PROVE  /\ task'[i].tenant = task[i].tenant /\ task'[i].key = task[i].key
         /\ IsOpen(task[i])' => IsOpen(task[i])
<1>1. task[i] \in Row
  BY DEF TypeInv, Shapes
<1>2. \A w \in Workers : /\ Leased(task[i], w).tenant = task[i].tenant
                          /\ Leased(task[i], w).key = task[i].key
  BY <1>1, LeasedStatus
<1>3. \A st \in TaskStatus : /\ Ended(task[i], st).tenant = task[i].tenant
                              /\ Ended(task[i], st).key = task[i].key
  BY <1>1, EndedStatus
<1>4. Requeued(task[i]).tenant = task[i].tenant /\ Requeued(task[i]).key = task[i].key
  BY <1>1, RequeuedStatus
<1>5. /\ [task[i] EXCEPT !.expired = TRUE].tenant = task[i].tenant
      /\ [task[i] EXCEPT !.expired = TRUE].key = task[i].key
      /\ [task[i] EXCEPT !.due = TRUE].tenant = task[i].tenant
      /\ [task[i] EXCEPT !.due = TRUE].key = task[i].key
  BY <1>1 DEF Row
<1>6. task'[i].tenant = task[i].tenant /\ task'[i].key = task[i].key
  BY <1>2, <1>3, <1>4, <1>5 DEF RowStep, TaskStatus
<1>7. ~IsOpen(task[i]) => task'[i] = task[i]
  BY DEF RowStep, IsOpen, Held
<1> QED BY <1>6, <1>7 DEF IsOpen

\* A row inserted by this step is open and alone with its key.
LEMMA InsertedRow ==
  ASSUME TypeInv, NEW i \in TaskId, RowStep(i), task[i].status = "absent",
         IsOpen(task[i])'
  PROVE  /\ \A j \in TaskId : j # i => task'[j] = task[j]
         /\ task'[i].key # NoKey => ~Conflicts(task, task'[i].tenant, task'[i].key)
<1>0. task \in Table
  BY DEF TypeInv, Shapes, Table
<1>1. task'[i] # task[i]
  BY DEF IsOpen
<1>2. PICK n \in Tenants, k \in Keys \cup {NoKey}, p \in BOOLEAN :
        ~Conflicts(task, n, k) /\ task' = [task EXCEPT ![i] = QueuedRow(n, k, p)]
  BY <1>1 DEF RowStep, Held
<1>3. task'[i] = QueuedRow(n, k, p)
  BY <1>0, <1>2 DEF Table
<1>4. task'[i].tenant = n /\ task'[i].key = k
  BY <1>3 DEF QueuedRow
<1> QED BY <1>0, <1>2, <1>4 DEF Table

LEMMA OneOpenInductive == TypeInv /\ OneOpenPerKey /\ [Next]_vars => OneOpenPerKey'
<1> SUFFICES ASSUME TypeInv, OneOpenPerKey, [Next]_vars,
                    NEW i \in TaskId, NEW j \in TaskId,
                    IsOpen(task[i])', IsOpen(task[j])', i # j,
                    task'[i].tenant = task'[j].tenant,
                    task'[i].key = task'[j].key, task'[i].key # NoKey
             PROVE  FALSE
  BY DEF OneOpenPerKey
<1>0. RowStep(i) /\ RowStep(j) /\ DOMAIN task = TaskId
  BY EveryRowStep DEF TypeInv, Shapes
<1>1. CASE task[i].status # "absent" /\ task[j].status # "absent"
  BY <1>0, <1>1, RowIdentity DEF OneOpenPerKey
<1>2. CASE task[i].status = "absent"
  <2>1. task'[j] = task[j] /\ ~Conflicts(task, task'[i].tenant, task'[i].key)
    BY <1>0, <1>2, InsertedRow
  <2> QED BY <1>0, <2>1 DEF Conflicts, IsOpen
<1>3. CASE task[j].status = "absent"
  <2>1. task'[i] = task[i] /\ ~Conflicts(task, task'[j].tenant, task'[j].key)
    BY <1>0, <1>3, InsertedRow
  <2> QED BY <1>0, <2>1 DEF Conflicts, IsOpen
<1> QED BY <1>1, <1>2, <1>3

\* enqueue's ON CONFLICT and the claims, sweeps, retries and finishes that keep a
\* row open or close it together never leave one tenant with two open tasks
\* under one dedupe key.
THEOREM DedupeSafe == Spec => []OneOpenPerKey
<1>1. Init => TypeInv /\ OneOpenPerKey
  <2>1. AbsentRow.status = "absent"
    BY DEF AbsentRow
  <2> QED BY <2>1, TypeInitially DEF Init, OneOpenPerKey, IsOpen
<1>2. TypeInv /\ OneOpenPerKey /\ [Next]_vars => (TypeInv /\ OneOpenPerKey)'
  BY TypeInductive, OneOpenInductive
<1> QED BY <1>1, <1>2, PTL DEF Spec

\* A finished task is never claimed, requeued or rewritten: fail and complete by a
\* worker that lost its lease, sweeps and claims all leave it alone.
THEOREM TerminalStays == Spec => TerminalIsFinal
<1>1. TypeInv /\ [Next]_vars
        => [\A i \in TaskId : IsTerminal(task[i]) => task'[i] = task[i]]_vars
  <2> SUFFICES ASSUME TypeInv, [Next]_vars, NEW i \in TaskId, IsTerminal(task[i])
               PROVE  task'[i] = task[i]
    OBVIOUS
  <2>1. RowStep(i)
    BY EveryRowStep
  <2> QED BY <2>1 DEF RowStep, IsTerminal, Held
<1>2. Spec => []TypeInv
  BY TypeInitially, TypeInductive, PTL DEF Spec
<1> QED BY <1>1, <1>2, PTL DEF Spec, TerminalIsFinal

\* A worker inside a task keeps its lease until locked_until passes: only its own
\* finish, or a claim or sweep of an expired lease, takes the row from it.
THEOREM LeaseSafe == Spec => LeaseLostByExpiry
<1>1. TypeInv /\ [Next]_vars
        => [\A w \in Workers : \A i \in TaskId :
              /\ w \in Executing(i) /\ Held(task, i, w)
              /\ wk'[w].pc = "run" /\ wk'[w].cur = i
              => Held(task', i, w) \/ task[i].expired]_vars
  <2> SUFFICES ASSUME TypeInv, [Next]_vars, NEW w \in Workers, NEW i \in TaskId,
                      Held(task, i, w), wk'[w].pc = "run", ~task[i].expired
               PROVE  Held(task', i, w)
    OBVIOUS
  <2>0. task[i] \in Row /\ wk \in [Workers -> Proc]
    BY DEF TypeInv, Shapes
  <2>1. RowStep(i) /\ task[i].status = "running" /\ task[i].lockedBy = w
    BY EveryRowStep DEF Held
  <2>2. ASSUME NEW v \in Workers, Held(task, i, v), wk' = [wk EXCEPT ![v] = EndTask(wk[v])]
        PROVE  FALSE
    <3>1. v = w
      BY <2>2 DEF Held
    <3>2. wk'[w].pc = "pass"
      BY <2>0, <2>2, <3>1 DEF EndTask, Proc
    <3> QED BY <3>2
  <2>3. task'[i] = task[i] \/ task'[i] = [task[i] EXCEPT !.expired = TRUE]
    BY <2>1, <2>2 DEF RowStep
  <2> QED BY <2>0, <2>1, <2>3 DEF Held, Row
<1>2. Spec => []TypeInv
  BY TypeInitially, TypeInductive, PTL DEF Spec
<1> QED BY <1>1, <1>2, PTL DEF Spec, LeaseLostByExpiry

\* A running row leaves "running" only by the finish of the worker that holds it,
\* or by the sweep of an expired lease at max_attempts.
THEOREM FinishSafe == Spec => OnlyHolderFinishes
<1>1. TypeInv /\ [Next]_vars
        => [\A i \in TaskId :
              task[i].status = "running" /\ task'[i].status # "running" =>
                \/ \E w \in Workers : /\ task[i].lockedBy = w
                                      /\ wk[w].pc = "run" /\ wk[w].cur = i
                                      /\ wk'[w].pc = "pass"
                \/ task[i].expired /\ task[i].attempts = MaxAttempts]_vars
  <2> SUFFICES ASSUME TypeInv, [Next]_vars, NEW i \in TaskId,
                      task[i].status = "running", task'[i].status # "running"
               PROVE  \/ \E w \in Workers : /\ task[i].lockedBy = w
                                            /\ wk[w].pc = "run" /\ wk[w].cur = i
                                            /\ wk'[w].pc = "pass"
                      \/ task[i].expired /\ task[i].attempts = MaxAttempts
    OBVIOUS
  <2>0. task[i] \in Row /\ wk \in [Workers -> Proc]
    BY DEF TypeInv, Shapes
  <2>1. RowStep(i)
    BY EveryRowStep
  <2>2. \A w \in Workers : Leased(task[i], w).status = "running"
    BY <2>0, LeasedStatus
  <2>3. [task[i] EXCEPT !.expired = TRUE].status = "running"
    BY <2>0 DEF Row
  <2>4. ASSUME NEW w \in Workers, Held(task, i, w), wk[w].pc = "run", wk[w].cur = i,
               wk' = [wk EXCEPT ![w] = EndTask(wk[w])]
        PROVE  task[i].lockedBy = w /\ wk'[w].pc = "pass"
    BY <2>0, <2>4 DEF Held, EndTask, Proc
  <2> QED BY <2>1, <2>2, <2>3, <2>4 DEF RowStep
<1>2. Spec => []TypeInv
  BY TypeInitially, TypeInductive, PTL DEF Spec
<1> QED BY <1>1, <1>2, PTL DEF Spec, OnlyHolderFinishes

\* Nothing takes the lease of a worker inside a task before it expired, nobody else
\* finishes what it runs, and what ended stays ended (queue.py _held).
THEOREM LeaseIsKept == Spec => LeaseDiscipline
BY LeaseSafe, FinishSafe, TerminalStays, PTL DEF LeaseDiscipline

-----------------------------------------------------------------------------
(* The refinement: the queue implements SingleFlight.                        *)

\* The open row of a key is the one its place shows.
LEMMA PlaceIs ==
  ASSUME OneOpenPerKey, NEW n \in Tenants, NEW k \in Keys, NEW i \in OpenUnder(n, k)
  PROVE  PlaceOf(n, k) = [state |-> task[i].status, tries |-> task[i].attempts]
<1>1. k # NoKey
  BY KeysAssumption
<1>2. \A j \in OpenUnder(n, k) : j = i
  BY <1>1 DEF OpenUnder, OneOpenPerKey
<1>3. (CHOOSE j \in OpenUnder(n, k) : TRUE) = i
  BY <1>2
<1> QED BY <1>3 DEF PlaceOf

LEMMA PlaceIsNext ==
  ASSUME OneOpenPerKey', NEW n \in Tenants, NEW k \in Keys, NEW i \in OpenUnder(n, k)'
  PROVE  PlaceOf(n, k)' = [state |-> task'[i].status, tries |-> task'[i].attempts]
<1>1. k # NoKey
  BY KeysAssumption
<1>2. \A j \in OpenUnder(n, k)' : j = i
  BY <1>1 DEF OpenUnder, OneOpenPerKey
<1>3. (CHOOSE j \in OpenUnder(n, k)' : TRUE) = i
  BY <1>2
<1> QED BY <1>3 DEF PlaceOf

\* A place that was empty stays empty or gets the row this step inserted.
LEMMA EmptyPlaceStep ==
  ASSUME TypeInv, OneOpenPerKey', [Next]_vars, NEW n \in Tenants, NEW k \in Keys,
         OpenUnder(n, k) = {}
  PROVE  \/ PlaceOf(n, k)' = PlaceOf(n, k)
         \/ Flight!PlaceStep(PlaceOf(n, k), PlaceOf(n, k)')
<1>1. PlaceOf(n, k) = [state |-> "empty", tries |-> 0]
  BY DEF PlaceOf
<1>2. CASE OpenUnder(n, k)' = {}
  BY <1>1, <1>2 DEF PlaceOf
<1>3. CASE OpenUnder(n, k)' # {}
  <2>1. PICK i : i \in OpenUnder(n, k)'
    BY <1>3
  <2>2. i \in TaskId /\ RowStep(i) /\ IsOpen(task[i])' /\ task'[i].tenant = n /\ task'[i].key = k
    BY <2>1, EveryRowStep DEF OpenUnder
  <2>3. task[i].status = "absent"
    BY <2>2, RowIdentity DEF OpenUnder
  <2>4. PICK m \in Tenants, q \in Keys \cup {NoKey}, p \in BOOLEAN :
          task' = [task EXCEPT ![i] = QueuedRow(m, q, p)]
    BY <2>2, <2>3 DEF RowStep, Held, IsOpen
  <2>5. task'[i] = QueuedRow(m, q, p)
    BY <2>2, <2>4 DEF TypeInv, Shapes
  <2>6. task'[i].status = "queued" /\ task'[i].attempts = 0
    BY <2>5 DEF QueuedRow
  <2>7. PlaceOf(n, k)' = [state |-> "queued", tries |-> 0]
    BY <2>1, <2>6, PlaceIsNext
  <2> QED BY <1>1, <2>7 DEF Flight!PlaceStep, Flight!Accept, Flight!Empty
<1> QED BY <1>2, <1>3

\* The open row of a key, when it stays open, keeps its place: it is claimed,
\* put back, or looks the same.
LEMMA KeptPlaceStep ==
  ASSUME TypeInv, TypeInv', OneOpenPerKey, OneOpenPerKey', [Next]_vars,
         NEW n \in Tenants, NEW k \in Keys,
         NEW i \in OpenUnder(n, k), i \in OpenUnder(n, k)'
  PROVE  \/ PlaceOf(n, k)' = PlaceOf(n, k)
         \/ Flight!PlaceStep(PlaceOf(n, k), PlaceOf(n, k)')
<1>1. /\ PlaceOf(n, k) = [state |-> task[i].status, tries |-> task[i].attempts]
      /\ PlaceOf(n, k)' = [state |-> task'[i].status, tries |-> task'[i].attempts]
  BY PlaceIs, PlaceIsNext
<1>2. /\ i \in TaskId /\ RowStep(i) /\ task[i] \in Row /\ task'[i] \in Row
      /\ IsOpen(task[i]) /\ IsOpen(task[i])'
  BY EveryRowStep DEF OpenUnder, TypeInv, Shapes
<1>3. ASSUME NEW w \in Workers, task'[i] = Leased(task[i], w)
      PROVE  /\ task'[i].status = "running" /\ task'[i].attempts = task[i].attempts + 1
             /\ task[i].attempts < MaxAttempts
  <2>1. task'[i].status = "running" /\ task'[i].attempts = task[i].attempts + 1
    BY <1>2, <1>3 DEF Leased, Row
  <2> QED BY <1>2, <2>1, BoundsAssumption DEF Row
<1>4. CASE \E w \in Workers : task'[i] = Leased(task[i], w)
  <2>1. task[i].status # "empty"
    BY <1>2 DEF IsOpen
  <2> QED BY <1>1, <1>3, <1>4, <2>1 DEF Flight!PlaceStep, Flight!Serve, Flight!Empty
<1>5. CASE /\ task[i].status = "running" /\ task[i].attempts < MaxAttempts
           /\ task'[i] = Requeued(task[i])
  <2>1. task'[i].status = "queued" /\ task'[i].attempts = task[i].attempts
    BY <1>2, <1>5 DEF Requeued, Row
  <2> QED BY <1>1, <1>5, <2>1 DEF Flight!PlaceStep, Flight!PutBack
<1>6. CASE task'[i] \in {task[i], [task[i] EXCEPT !.expired = TRUE], [task[i] EXCEPT !.due = TRUE]}
  <2>1. task'[i].status = task[i].status /\ task'[i].attempts = task[i].attempts
    BY <1>2, <1>6 DEF Row
  <2> QED BY <1>1, <2>1
<1>7. \A st \in {"succeeded", "failed"} : task'[i] # Ended(task[i], st)
  BY <1>2, EndedStatus DEF IsOpen, TaskStatus
<1> QED BY <1>2, <1>4, <1>5, <1>6, <1>7 DEF RowStep, Held, IsOpen

\* The open row of a key that does not stay open was running, and leaves its
\* place empty: no row is inserted by the step that ends one.
LEMMA LeftPlaceStep ==
  ASSUME TypeInv, OneOpenPerKey, [Next]_vars,
         NEW n \in Tenants, NEW k \in Keys,
         NEW i \in OpenUnder(n, k), i \notin OpenUnder(n, k)'
  PROVE  Flight!PlaceStep(PlaceOf(n, k), PlaceOf(n, k)')
<1>1. PlaceOf(n, k) = [state |-> task[i].status, tries |-> task[i].attempts]
  BY PlaceIs
<1>2. /\ i \in TaskId /\ RowStep(i) /\ task[i] \in Row /\ IsOpen(task[i])
      /\ task[i].tenant = n /\ task[i].key = k /\ k # NoKey
  BY EveryRowStep, KeysAssumption DEF OpenUnder, TypeInv, Shapes
<1>3. ~IsOpen(task[i])'
  <2>1. task'[i].tenant = n /\ task'[i].key = k
    BY <1>2, RowIdentity DEF IsOpen
  <2> QED BY <1>2, <2>1 DEF OpenUnder
<1>4. task[i].status = "running"
  <2>1. \A w \in Workers : Leased(task[i], w).status = "running"
    BY <1>2, LeasedStatus
  <2>2. [task[i] EXCEPT !.due = TRUE].status = task[i].status
    BY <1>2 DEF Row
  <2> QED BY <1>2, <1>3, <2>1, <2>2 DEF RowStep, Held, IsOpen
<1>5. OpenUnder(n, k)' = {}
  <2> SUFFICES ASSUME NEW j \in OpenUnder(n, k)' PROVE FALSE
    OBVIOUS
  <2>1. /\ j \in TaskId /\ RowStep(j) /\ IsOpen(task[j])' /\ j # i
        /\ task'[j].tenant = n /\ task'[j].key = k
    BY EveryRowStep DEF OpenUnder
  <2>2. CASE task[j].status = "absent"
    <3>1. task'[i] = task[i]
      BY <1>2, <2>1, <2>2, InsertedRow
    <3> QED BY <1>2, <1>3, <3>1 DEF IsOpen
  <2>3. CASE task[j].status # "absent"
    <3>1. IsOpen(task[j]) /\ task[j].tenant = n /\ task[j].key = k
      BY <2>1, <2>3, RowIdentity
    <3> QED BY <1>2, <2>1, <3>1 DEF OneOpenPerKey
  <2> QED BY <2>2, <2>3
<1>6. PlaceOf(n, k)' = [state |-> "empty", tries |-> 0]
  BY <1>5 DEF PlaceOf
<1> QED BY <1>1, <1>4, <1>6 DEF Flight!PlaceStep, Flight!Release, Flight!Empty

\* The queue implements SingleFlight for any workers, tenants, keys and faults:
\* enqueue, claims, sweeps, retries and finishes move a key's place one legal step,
\* or leave it (queue.py).
THEOREM QueueKeepsPromise == Spec => OneInFlight
<1>1. Init => TypeInv /\ OneOpenPerKey /\ Flight!FlightInit
  <2>1. AbsentRow.status = "absent"
    BY DEF AbsentRow
  <2>2. Init => \A n \in Tenants, k \in Keys : OpenUnder(n, k) = {}
    BY <2>1 DEF Init, OpenUnder, IsOpen
  <2>3. Init => OneOpenPerKey
    BY <2>1 DEF Init, OneOpenPerKey, IsOpen
  <2>4. Init => \A p \in Tenants \X Keys : PlaceOf(p[1], p[2]) = [state |-> "empty", tries |-> 0]
    BY <2>2 DEF PlaceOf
  <2> QED BY <2>3, <2>4, TypeInitially DEF Flight!FlightInit, Flight!Empty
<1>2. TypeInv /\ OneOpenPerKey /\ [Next]_vars => (TypeInv /\ OneOpenPerKey)'
  BY TypeInductive, OneOpenInductive
<1>3. TypeInv /\ TypeInv' /\ OneOpenPerKey /\ OneOpenPerKey' /\ [Next]_vars
        => Flight!FlightNext
  <2> SUFFICES ASSUME TypeInv, TypeInv', OneOpenPerKey, OneOpenPerKey', [Next]_vars,
                      NEW p \in Tenants \X Keys
               PROVE  \/ PlaceOf(p[1], p[2])' = PlaceOf(p[1], p[2])
                      \/ Flight!PlaceStep(PlaceOf(p[1], p[2]), PlaceOf(p[1], p[2])')
    BY DEF Flight!FlightNext
  <2>1. p[1] \in Tenants /\ p[2] \in Keys
    OBVIOUS
  <2>2. CASE OpenUnder(p[1], p[2]) = {}
    BY <2>1, <2>2, EmptyPlaceStep
  <2>3. ASSUME NEW i \in OpenUnder(p[1], p[2])
        PROVE  \/ PlaceOf(p[1], p[2])' = PlaceOf(p[1], p[2])
               \/ Flight!PlaceStep(PlaceOf(p[1], p[2]), PlaceOf(p[1], p[2])')
    <3>1. CASE i \in OpenUnder(p[1], p[2])'
      BY <2>1, <2>3, <3>1, KeptPlaceStep
    <3>2. CASE i \notin OpenUnder(p[1], p[2])'
      BY <2>1, <2>3, <3>2, LeftPlaceStep
    <3> QED BY <3>1, <3>2
  <2> QED BY <2>2, <2>3
<1> QED BY <1>1, <1>2, <1>3, PTL DEF Spec, OneInFlight, Flight!FlightSpec

-----------------------------------------------------------------------------
(* How many executions a task is in.                                         *)

\* A worker's record replaced, and nobody enters a task it was not in.
LEMMA NobodyEnters ==
  ASSUME TypeInv, NEW w \in Workers, NEW r, wk' = [wk EXCEPT ![w] = r],
         r.pc = "run" => wk[w].pc = "run" /\ r.cur = wk[w].cur,
         NEW i \in TaskId
  PROVE  Executing(i)' \subseteq Executing(i)
<1>1. \A v \in Workers : wk'[v] = IF v = w THEN r ELSE wk[v]
  BY DEF TypeInv, Shapes
<1> QED BY <1>1 DEF Executing

\* A step lets one worker into a task only by claiming it, which counts it.
LEMMA ExecutingStep ==
  ASSUME TypeInv, [Next]_vars, NEW i \in TaskId
  PROVE  \/ Executing(i)' \subseteq Executing(i)
         \/ \E w \in Workers : /\ Executing(i)' \subseteq Executing(i) \cup {w}
                               /\ task'[i] = Leased(task[i], w)
<1>0. task \in Table /\ wk \in [Workers -> Proc]
  BY DEF TypeInv, Shapes, Table
<1>1. ASSUME NEW j \in TaskId, NEW n \in Tenants, NEW k \in Keys \cup {NoKey},
             NEW p \in BOOLEAN, enqueue(j, n, k, p)
      PROVE  Executing(i)' \subseteq Executing(i)
  <2>1. \A w \in Workers : /\ notify(wk)[w].pc = wk[w].pc
                            /\ notify(wk)[w].cur = wk[w].cur
    BY <1>0 DEF notify, Proc
  <2> QED BY <1>1, <2>1 DEF enqueue, Executing
<1>2. ASSUME NEW w \in Workers, NEW n \in Tenants, ClaimTenant(w, n)
      PROVE  \/ Executing(i)' \subseteq Executing(i)
             \/ \E v \in Workers : /\ Executing(i)' \subseteq Executing(i) \cup {v}
                                   /\ task'[i] = Leased(task[i], v)
  <2> DEFINE swept == Swept(task, n, MaxAttempts)
             due == Claimable(swept, n, MaxAttempts)
  <2>1. swept \in Table
    BY <1>0, SweptType
  <2>2. CASE wk' = [wk EXCEPT ![w].todo = @ \ {n}]
    <3>1. wk' = [wk EXCEPT ![w] = [wk[w] EXCEPT !.todo = @ \ {n}]]
      BY <1>0, <2>2
    <3>2. /\ [wk[w] EXCEPT !.todo = @ \ {n}].pc = wk[w].pc
          /\ [wk[w] EXCEPT !.todo = @ \ {n}].cur = wk[w].cur
      BY <1>0 DEF Proc
    <3> QED BY <3>1, <3>2, NobodyEnters
  <2>3. ASSUME NEW j \in due, task' = Claimed(swept, j, w),
               wk' = [wk EXCEPT ![w] = BeginTask(wk[w], j, n)]
        PROVE  \/ Executing(i)' \subseteq Executing(i)
               \/ \E v \in Workers : /\ Executing(i)' \subseteq Executing(i) \cup {v}
                                     /\ task'[i] = Leased(task[i], v)
    <3>1. \A v \in Workers : v # w => wk'[v] = wk[v]
      BY <1>0, <2>3
    <3>2. wk'[w].cur = j
      <4>1. wk[w] \in Proc /\ j \in TaskId
        BY <1>0, <2>1, <2>3, ClaimedType
      <4>2. BeginTask(wk[w], j, n).cur = j
        BY <4>1, TaskSteps
      <4>3. wk'[w] = BeginTask(wk[w], j, n)
        BY <1>0, <2>3
      <4> QED BY <4>2, <4>3
    <3>3. CASE i # j
      BY <3>1, <3>2, <3>3 DEF Executing
    <3>4. CASE i = j
      <4>1. Executing(i)' \subseteq Executing(i) \cup {w}
        BY <3>1 DEF Executing
      <4>2. task'[i] = Leased(swept[i], w)
        BY <2>1, <2>3, <3>4 DEF Claimed, Table
      <4>3. swept[i].status \in {"queued", "running"}
        BY <3>4 DEF Claimable
      <4>4. Ended(task[i], "failed").status = "failed"
        BY <1>0, EndedStatus DEF Table, TaskStatus
      <4>5. swept[i] = task[i]
        BY <1>0, <4>3, <4>4, SweptRow
      <4> QED BY <4>1, <4>2, <4>5
    <3> QED BY <3>3, <3>4
  <2> QED BY <1>2, <2>2, <2>3 DEF ClaimTenant
<1>3. ASSUME NEW w \in Workers, WorkerStep(w), \A n \in Tenants : ~ClaimTenant(w, n)
      PROVE  Executing(i)' \subseteq Executing(i)
  <2>r. wk[w] \in Proc
    BY <1>0
  <2>1. \E r \in Proc : wk' = [wk EXCEPT ![w] = r] /\ r.pc # "run"
    <3>1. CASE Start(w)
      <4>1. [WorkerDown EXCEPT !.sock = "live"] \in Proc /\ WorkerDown \in Proc
        BY DEF WorkerDown, Proc
      <4> QED BY <3>1, <4>1, ProcType, NotRunning DEF Start
    <3>2. CASE FinishOk(w) \/ \E p \in BOOLEAN : FinishFail(w, p)
      <4>1. EndTask(wk[w]) \in Proc /\ EndTask(wk[w]).pc = "pass"
        BY <2>r DEF EndTask, Proc
      <4> QED BY <3>2, <4>1 DEF FinishOk, FinishFail
    <3>3. CASE EndPass(w)
      <4>1. wk[w].ran \in BOOLEAN /\ (wk[w].heard /\ wk[w].sock = "live") \in BOOLEAN
        BY <2>r DEF Proc
      <4> QED BY <2>r, <3>3, <4>1, ProcType, NotRunning DEF EndPass
    <3>4. CASE Wake(w)
      <4>1. Heard(wk[w]) \in Proc
        BY <2>r DEF Heard, Proc
      <4> QED BY <2>r, <3>4, <4>1, ProcType, NotRunning DEF Wake
    <3>5. CASE PollElapsed(w)
      BY <2>r, <3>5, ProcType, NotRunning DEF PollElapsed
    <3>6. CASE ListenerFails(w)
      <4> DEFINE r == [wk[w] EXCEPT !.sock = "none", !.note = FALSE, !.heard = FALSE]
      <4>1. r \in Proc /\ r.pc # "run"
        BY <2>r, <3>6 DEF ListenerFails, Proc
      <4>2. wk' = [wk EXCEPT ![w] = r]
        BY <1>0, <3>6 DEF ListenerFails
      <4> QED BY <4>1, <4>2
    <3> QED BY <1>3, <3>1, <3>2, <3>3, <3>4, <3>5, <3>6 DEF WorkerStep
  <2> QED BY <2>1, NobodyEnters
<1>4. ASSUME NEW w \in Workers, FaultStep(w)
      PROVE  Executing(i)' \subseteq Executing(i)
  <2>1. CASE PassError(w) \/ ListenRefused(w) \/ Crash(w)
    <3>1. \E r \in Proc : wk' = [wk EXCEPT ![w] = r] /\ r.pc # "run"
      BY <1>0, <2>1, ProcType, NotRunning DEF PassError, ListenRefused, Crash
    <3> QED BY <3>1, NobodyEnters
  <2>2. CASE Stop(w) \/ SocketDies(w)
    <3>1. wk' \in {[wk EXCEPT ![w] = [wk[w] EXCEPT !.stop = TRUE]],
                   [wk EXCEPT ![w] = [wk[w] EXCEPT !.sock = "dead"]]}
      BY <1>0, <2>2 DEF Stop, SocketDies
    <3>2. /\ [wk[w] EXCEPT !.stop = TRUE].pc = wk[w].pc
          /\ [wk[w] EXCEPT !.sock = "dead"].pc = wk[w].pc
          /\ [wk[w] EXCEPT !.stop = TRUE].cur = wk[w].cur
          /\ [wk[w] EXCEPT !.sock = "dead"].cur = wk[w].cur
      BY <1>0 DEF Proc
    <3>3. \E r : wk' = [wk EXCEPT ![w] = r] /\ r.pc = wk[w].pc /\ r.cur = wk[w].cur
      BY <3>1, <3>2
    <3> QED BY <3>3, NobodyEnters
  <2> QED BY <1>4, <2>1, <2>2 DEF FaultStep
<1>5. CASE wk' = wk
  BY <1>5 DEF Executing
<1> QED BY <1>1, <1>2, <1>3, <1>4, <1>5 DEF Next, LeaseExpires, RunAfterPasses, vars

\* The count of attempts never falls, and a row nobody inserted has none.
AbsentUntried == \A i \in TaskId : task[i].status = "absent" => task[i].attempts = 0

LEMMA AttemptsStep ==
  ASSUME TypeInv, AbsentUntried, [Next]_vars, NEW i \in TaskId
  PROVE  /\ task'[i].attempts >= task[i].attempts
         /\ \A w \in Workers : task'[i] = Leased(task[i], w)
              => task'[i].attempts = task[i].attempts + 1
         /\ task'[i].status = "absent" => task'[i].attempts = 0
<1>1. task \in Table /\ task[i] \in Row /\ RowStep(i) /\ task[i].attempts \in Nat
  BY EveryRowStep, BoundsAssumption DEF TypeInv, Shapes, Row, Table
<1>2. \A w \in Workers : /\ Leased(task[i], w).attempts = task[i].attempts + 1
                          /\ Leased(task[i], w).status = "running"
  BY <1>1 DEF Leased, Row
<1>3. \A st \in TaskStatus : /\ Ended(task[i], st).attempts = task[i].attempts
                              /\ Ended(task[i], st).status = st
  BY <1>1 DEF Ended, Row
<1>4. Requeued(task[i]).attempts = task[i].attempts /\ Requeued(task[i]).status = "queued"
  BY <1>1 DEF Requeued, Row
<1>5. /\ [task[i] EXCEPT !.expired = TRUE].attempts = task[i].attempts
      /\ [task[i] EXCEPT !.due = TRUE].attempts = task[i].attempts
      /\ [task[i] EXCEPT !.expired = TRUE].status = task[i].status
      /\ [task[i] EXCEPT !.due = TRUE].status = task[i].status
  BY <1>1 DEF Row
<1>6. ASSUME NEW n \in Tenants, NEW k \in Keys \cup {NoKey}, NEW p \in BOOLEAN,
             task[i].status = "absent", task' = [task EXCEPT ![i] = QueuedRow(n, k, p)]
      PROVE  task'[i].attempts = 0 /\ task[i].attempts = 0
  <2>1. task'[i] = QueuedRow(n, k, p)
    BY <1>1, <1>6 DEF Table
  <2> QED BY <1>6, <2>1 DEF QueuedRow, AbsentUntried
<1>7. \/ task'[i] = task[i]
      \/ task'[i].attempts = 0 /\ task[i].attempts = 0
      \/ \E st \in {"failed", "succeeded"} : task'[i] = Ended(task[i], st)
      \/ \E w \in Workers : task'[i] = Leased(task[i], w)
      \/ task'[i] = Requeued(task[i])
      \/ task[i].status \in {"running", "queued"}
           /\ task'[i] \in {[task[i] EXCEPT !.expired = TRUE], [task[i] EXCEPT !.due = TRUE]}
  BY <1>1, <1>6 DEF RowStep
<1>8. ASSUME task'[i] = task[i]
      PROVE  /\ task'[i].attempts >= task[i].attempts
             /\ task'[i].status = "absent" => task'[i].attempts = 0
  BY <1>1, <1>8 DEF AbsentUntried
<1>9. ASSUME NEW st \in {"failed", "succeeded"}, task'[i] = Ended(task[i], st)
      PROVE  task'[i].attempts >= task[i].attempts /\ task'[i].status # "absent"
  BY <1>1, <1>3, <1>9 DEF TaskStatus
<1>10. \A w \in Workers : task'[i] = Leased(task[i], w)
         => task'[i].attempts = task[i].attempts + 1 /\ task'[i].status = "running"
  BY <1>2
<1>11. /\ task'[i].attempts >= task[i].attempts
       /\ task'[i].status = "absent" => task'[i].attempts = 0
  <2>1. CASE task'[i].attempts = 0 /\ task[i].attempts = 0
    BY <2>1
  <2>2. CASE \E w \in Workers : task'[i] = Leased(task[i], w)
    BY <1>1, <1>10, <2>2
  <2>3. CASE task'[i] = Requeued(task[i])
    BY <1>1, <1>4, <2>3
  <2>4. CASE /\ task[i].status \in {"running", "queued"}
             /\ task'[i] \in {[task[i] EXCEPT !.expired = TRUE], [task[i] EXCEPT !.due = TRUE]}
    <3>1. task'[i].attempts = task[i].attempts /\ task'[i].status = task[i].status
      BY <1>5, <2>4
    <3> QED BY <1>1, <2>4, <3>1
  <2> QED BY <1>7, <1>8, <1>9, <2>1, <2>2, <2>3, <2>4
<1> QED BY <1>10, <1>11

\* One more element adds at most one to the size of a set.
LEMMA OneMore ==
  ASSUME NEW S, NEW x, IsFiniteSet(S)
  PROVE  IsFiniteSet(S \cup {x}) /\ Cardinality(S \cup {x}) <= Cardinality(S) + 1
<1>1. /\ IsFiniteSet(S \cup {x})
      /\ Cardinality(S \cup {x}) = IF x \in S THEN Cardinality(S) ELSE Cardinality(S) + 1
  BY FS_AddElement
<1>2. Cardinality(S) \in Nat
  BY FS_CardinalityType
<1> QED BY <1>1, <1>2

\* As many executions as claims counted, and only finitely many of them.
CountedInv ==
  AbsentUntried /\ \A i \in TaskId : IsFiniteSet(Executing(i)) /\ Cardinality(Executing(i)) <= task[i].attempts

LEMMA CountedInductive == TypeInv /\ CountedInv /\ [Next]_vars => CountedInv'
<1> SUFFICES ASSUME TypeInv, CountedInv, [Next]_vars, NEW i \in TaskId
             PROVE  /\ task'[i].status = "absent" => task'[i].attempts = 0
                    /\ IsFiniteSet(Executing(i)')
                    /\ Cardinality(Executing(i)') <= task'[i].attempts
  BY DEF CountedInv, AbsentUntried
<1>1. /\ task'[i].attempts >= task[i].attempts
      /\ \A w \in Workers : task'[i] = Leased(task[i], w)
           => task'[i].attempts = task[i].attempts + 1
      /\ task'[i].status = "absent" => task'[i].attempts = 0
  BY AttemptsStep DEF CountedInv
<1>2. task[i].attempts \in Int /\ task'[i].attempts \in Int
  BY TypeInductive, BoundsAssumption DEF TypeInv, Shapes, Row
<1>3. /\ IsFiniteSet(Executing(i)) /\ Cardinality(Executing(i)) \in Nat
      /\ Cardinality(Executing(i)) <= task[i].attempts
  BY FS_CardinalityType DEF CountedInv
<1>4. CASE Executing(i)' \subseteq Executing(i)
  <2>1. /\ IsFiniteSet(Executing(i)') /\ Cardinality(Executing(i)') <= Cardinality(Executing(i))
        /\ Cardinality(Executing(i)') \in Nat
    BY <1>3, <1>4, FS_Subset, FS_CardinalityType
  <2> QED BY <1>1, <1>2, <1>3, <2>1
<1>5. ASSUME NEW w \in Workers, Executing(i)' \subseteq Executing(i) \cup {w},
             task'[i] = Leased(task[i], w)
      PROVE  IsFiniteSet(Executing(i)') /\ Cardinality(Executing(i)') <= task'[i].attempts
  <2>1. /\ IsFiniteSet(Executing(i) \cup {w})
        /\ Cardinality(Executing(i) \cup {w}) <= Cardinality(Executing(i)) + 1
    BY <1>3, OneMore
  <2>2. /\ IsFiniteSet(Executing(i)')
        /\ Cardinality(Executing(i)') <= Cardinality(Executing(i) \cup {w})
        /\ Cardinality(Executing(i)') \in Nat /\ Cardinality(Executing(i) \cup {w}) \in Nat
    BY <1>5, <2>1, FS_Subset, FS_CardinalityType
  <2>3. task'[i].attempts = task[i].attempts + 1
    BY <1>1, <1>5
  <2> QED BY <1>2, <1>3, <2>1, <2>2, <2>3
<1>6. \/ Executing(i)' \subseteq Executing(i)
      \/ \E w \in Workers : /\ Executing(i)' \subseteq Executing(i) \cup {w}
                            /\ task'[i] = Leased(task[i], w)
  BY ExecutingStep
<1> QED BY <1>1, <1>4, <1>5, <1>6

\* Two workers are inside one task only when a lease expired and claim_one counted
\* another attempt: max_attempts bounds how often a task is executed at all.
THEOREM ClaimsAreCounted == Spec => []ExecutionsCounted
<1>1. Init => TypeInv /\ CountedInv
  <2>1. ASSUME Init, NEW i \in TaskId
        PROVE  /\ Executing(i) = {} /\ task[i].attempts = 0
    BY <2>1 DEF Init, Executing, WorkerDown, AbsentRow
  <2>2. IsFiniteSet({}) /\ Cardinality({}) = 0
    BY FS_EmptySet
  <2> QED BY <2>1, <2>2, TypeInitially DEF CountedInv, AbsentUntried
<1>2. TypeInv /\ CountedInv /\ [Next]_vars => (TypeInv /\ CountedInv)'
  BY TypeInductive, CountedInductive
<1>3. CountedInv => ExecutionsCounted
  BY DEF CountedInv, ExecutionsCounted
<1> QED BY <1>1, <1>2, <1>3, PTL DEF Spec

-----------------------------------------------------------------------------
(* No wake-up is lost.                                                       *)

\* A task enqueued to run at once that no worker has taken yet.
Fresh(i) == task[i].status = "queued" /\ task[i].prompt /\ task[i].attempts = 0

FreshTenants == {task[i].tenant : i \in {j \in TaskId : Fresh(j)}}

\* What holds of every row and makes a fresh one claimable: it is due, and a row
\* that has been running was counted.
RowsInv ==
  \A i \in TaskId : /\ task[i].status = "running" => task[i].attempts # 0
                    /\ Fresh(i) => task[i].due
                    /\ task[i].status # "absent" => task[i].tenant \in Tenants

\* A listener that heard nothing since its pass began has no fresh task behind it:
\* in the pass, only at tenants it has still to visit.
Watches(r, waiting) ==
  /\ r.pc = "run" => r.ran
  /\ r.sock = "live" /\ r.heard /\ ~r.note =>
       /\ r.pc = "wait" => waiting = {}
       /\ r.pc = "pass" /\ ~r.ran => waiting \subseteq r.todo

WakeInv == RowsInv /\ \A w \in Workers : Watches(wk[w], FreshTenants)

\* The records the loop moves through watch what they should.
LEMMA WatchesPass ==
  ASSUME NEW r \in Proc, NEW waiting, waiting \subseteq Tenants
  PROVE  Watches(WorkerDown, waiting) /\ Watches(BeginPass(r), waiting)
<1>1. WorkerDown.pc = "down"
  BY DEF WorkerDown
<1>2. BeginPass(r).pc = "pass" /\ BeginPass(r).todo = Tenants
  BY DEF BeginPass, Proc
<1> QED BY <1>1, <1>2 DEF Watches

LEMMA WatchesAfter ==
  ASSUME NEW r \in Proc, NEW waiting, waiting \subseteq Tenants,
         NEW ran \in BOOLEAN, NEW heard \in BOOLEAN,
         ~ran /\ heard /\ ~r.note => waiting = {}
  PROVE  Watches(AfterPass(r, ran, heard), waiting)
<1> DEFINE q == [r EXCEPT !.pc = "wait", !.cur = NoTask, !.heard = heard,
                          !.sock = IF @ = "none" THEN "live" ELSE @]
<1>1. q.pc = "wait" /\ q.heard = heard /\ q.note = r.note
  BY DEF Proc
<1>2. ~ran => Watches(q, waiting)
  BY <1>1 DEF Watches
<1>3. \/ AfterPass(r, ran, heard) = WorkerDown
      \/ AfterPass(r, ran, heard) = BeginPass(r)
      \/ ~ran /\ AfterPass(r, ran, heard) = q
  BY DEF AfterPass
<1>4. Watches(WorkerDown, waiting) /\ Watches(BeginPass(r), waiting)
  BY WatchesPass
<1> HIDE DEF q
<1> QED BY <1>2, <1>3, <1>4

\* Fewer waiting tenants are watched as well.
LEMMA WatchesLess ==
  ASSUME NEW r, NEW waiting, Watches(r, waiting), NEW fewer, fewer \subseteq waiting
  PROVE  Watches(r, fewer)
BY DEF Watches

\* The rows keep what makes a fresh one claimable, and a row becomes fresh only by
\* being inserted.
LEMMA FreshStep ==
  ASSUME TypeInv, RowsInv, [Next]_vars, NEW i \in TaskId
  PROVE  /\ task'[i].status = "running" => task'[i].attempts # 0
         /\ Fresh(i)' => task'[i].due
         /\ task'[i].status # "absent" => task'[i].tenant \in Tenants
         /\ Fresh(i)' => \/ task[i].status = "absent"
                         \/ Fresh(i) /\ task'[i].tenant = task[i].tenant
<1>1. /\ task \in Table /\ task[i] \in Row /\ RowStep(i) /\ task[i].attempts \in Nat
      /\ task[i].status = "running" => task[i].attempts # 0
      /\ task[i].status = "queued" /\ task[i].prompt /\ task[i].attempts = 0 => task[i].due
      /\ task[i].status # "absent" => task[i].tenant \in Tenants
  BY EveryRowStep, BoundsAssumption DEF TypeInv, Shapes, Row, Table, RowsInv, Fresh
<1>2. CASE task'[i] = task[i]
  BY <1>1, <1>2 DEF Fresh
<1>3. ASSUME NEW n \in Tenants, NEW k \in Keys \cup {NoKey}, NEW p \in BOOLEAN,
             task[i].status = "absent", task' = [task EXCEPT ![i] = QueuedRow(n, k, p)]
      PROVE  /\ task'[i].status = "queued" /\ task'[i].tenant \in Tenants
             /\ task'[i].prompt => task'[i].due
  <2>1. task'[i] = QueuedRow(n, k, p)
    BY <1>1, <1>3 DEF Table
  <2> QED BY <2>1 DEF QueuedRow
<1>t. task[i].status # "absent" => task'[i].tenant \in Tenants
  BY <1>1, RowIdentity
<1>4. ASSUME NEW st \in {"failed", "succeeded"}, task'[i] = Ended(task[i], st)
      PROVE  task'[i].status = st
  BY <1>1, <1>4 DEF Ended, Row
<1>5. ASSUME NEW w \in Workers, task'[i] = Leased(task[i], w)
      PROVE  task'[i].status = "running" /\ task'[i].attempts # 0
  <2>1. task'[i].status = "running" /\ task'[i].attempts = task[i].attempts + 1
    BY <1>1, <1>5 DEF Leased, Row
  <2> QED BY <1>1, <2>1
<1>6. CASE task[i].status = "running" /\ task'[i] = Requeued(task[i])
  <2>1. /\ task'[i].attempts = task[i].attempts /\ task'[i].tenant = task[i].tenant
        /\ task'[i].status = "queued"
    BY <1>1, <1>6 DEF Requeued, Row
  <2>2. task[i].tenant \in Tenants
    BY <1>1, <1>6
  <2> QED BY <1>1, <1>6, <2>1, <2>2 DEF Fresh
<1>7. CASE task[i].status = "running" /\ task'[i] = [task[i] EXCEPT !.expired = TRUE]
  BY <1>1, <1>t, <1>7 DEF Row, Fresh
<1>8. CASE task[i].status = "queued" /\ task'[i] = [task[i] EXCEPT !.due = TRUE]
  BY <1>1, <1>t, <1>8 DEF Row, Fresh
<1>9. CASE task[i].status # "absent" /\ \E st \in {"failed", "succeeded"} : task'[i] = Ended(task[i], st)
  BY <1>4, <1>t, <1>9 DEF Fresh
<1>10. CASE task[i].status # "absent" /\ \E w \in Workers : task'[i] = Leased(task[i], w)
  BY <1>5, <1>t, <1>10 DEF Fresh
<1>11. CASE /\ task[i].status = "absent"
            /\ \E n \in Tenants, k \in Keys \cup {NoKey}, p \in BOOLEAN :
                 task' = [task EXCEPT ![i] = QueuedRow(n, k, p)]
  BY <1>3, <1>11 DEF Fresh
<1> QED BY <1>1, <1>2, <1>6, <1>7, <1>8, <1>9, <1>10, <1>11 DEF RowStep, Held

\* A step that makes another tenant wait inserts a row and tells every listener.
LEMMA FreshTenantsStep ==
  ASSUME TypeInv, RowsInv, [Next]_vars
  PROVE  FreshTenants' \subseteq FreshTenants \/ wk' = notify(wk)
<1>1. CASE \E i \in TaskId : task[i].status = "absent" /\ task'[i] # task[i]
  BY <1>1, EveryRowStep DEF RowStep, Held
<1>2. CASE ~\E i \in TaskId : task[i].status = "absent" /\ task'[i] # task[i]
  <2> SUFFICES ASSUME NEW i \in TaskId, Fresh(i)' PROVE task'[i].tenant \in FreshTenants
    BY DEF FreshTenants
  <2>1. Fresh(i) /\ task'[i].tenant = task[i].tenant
    BY <1>2, FreshStep DEF Fresh
  <2> QED BY <2>1 DEF FreshTenants
<1> QED BY <1>1, <1>2

\* Every step keeps the watch: what starts to wait is told, what a pass visits is taken.
LEMMA WakeInductive == TypeInv /\ WakeInv /\ [Next]_vars => WakeInv'
<1> SUFFICES ASSUME TypeInv, WakeInv, [Next]_vars PROVE WakeInv'
  OBVIOUS
<1>0. /\ task \in Table /\ wk \in [Workers -> Proc] /\ RowsInv
      /\ \A w \in Workers : Watches(wk[w], FreshTenants)
  BY DEF TypeInv, Shapes, Table, WakeInv
<1>r. RowsInv'
  BY <1>0, FreshStep DEF RowsInv
<1>t. FreshTenants \subseteq Tenants /\ FreshTenants' \subseteq Tenants
  BY <1>0, <1>r DEF RowsInv, FreshTenants, Fresh
<1> DEFINE Kept == \A v \in Workers : Watches(wk'[v], FreshTenants')
<1>1. CASE wk' = notify(wk)
  <2> SUFFICES ASSUME NEW w \in Workers PROVE Watches(wk'[w], FreshTenants')
    BY <1>r DEF WakeInv
  <2>1. wk'[w] = IF wk[w].sock = "live" THEN [wk[w] EXCEPT !.note = TRUE] ELSE wk[w]
    BY <1>1 DEF notify
  <2>2. wk'[w].sock = "live" => wk'[w].note
    BY <1>0, <2>1 DEF Proc
  <2>3. wk'[w].pc = wk[w].pc /\ wk'[w].ran = wk[w].ran
    BY <1>0, <2>1 DEF Proc
  <2>4. wk[w].pc = "run" => wk[w].ran
    BY <1>0 DEF Watches
  <2> QED BY <2>2, <2>3, <2>4 DEF Watches
<1>2. CASE FreshTenants' \subseteq FreshTenants
  <2>s. ASSUME NEW w \in Workers, NEW r, wk' = [wk EXCEPT ![w] = r], Watches(r, FreshTenants')
        PROVE  Kept
    <3> SUFFICES ASSUME NEW v \in Workers PROVE Watches(wk'[v], FreshTenants')
      OBVIOUS
    <3>1. wk'[v] = IF v = w THEN r ELSE wk[v]
      BY <1>0, <2>s
    <3>2. Watches(wk[v], FreshTenants')
      BY <1>0, <1>2, WatchesLess
    <3> QED BY <2>s, <3>1, <3>2
  <2>0. ASSUME NEW i \in TaskId, NEW n \in Tenants, NEW k \in Keys \cup {NoKey},
               NEW p \in BOOLEAN, enqueue(i, n, k, p), wk' # notify(wk)
        PROVE  Kept
    BY <1>0, <1>2, <2>0, WatchesLess DEF enqueue
  <2>1. ASSUME NEW w \in Workers, NEW n \in Tenants, ClaimTenant(w, n) PROVE Kept
    <3> DEFINE swept == Swept(task, n, MaxAttempts)
               due == Claimable(swept, n, MaxAttempts)
    <3>1. CASE due = {} /\ wk' = [wk EXCEPT ![w].todo = @ \ {n}]
      <4> DEFINE r == [wk[w] EXCEPT !.todo = @ \ {n}]
      <4>1. wk' = [wk EXCEPT ![w] = r]
        BY <1>0, <3>1
      <4>2. /\ r.pc = "pass" /\ r.todo = wk[w].todo \ {n} /\ r.ran = wk[w].ran
            /\ r.sock = wk[w].sock /\ r.heard = wk[w].heard /\ r.note = wk[w].note
        BY <1>0, <2>1 DEF ClaimTenant, Proc
      <4>3. n \notin FreshTenants
        <5> SUFFICES ASSUME NEW i \in TaskId, Fresh(i), task[i].tenant = n PROVE FALSE
          BY DEF FreshTenants
        <5>1. task[i].due /\ task[i].status = "queued" /\ task[i].attempts = 0
          BY <1>0 DEF RowsInv, Fresh
        <5>2. swept[i] = task[i] /\ i \in DOMAIN swept
          BY <1>0, <5>1, SweptRow, SweptType DEF Table
        <5> HIDE DEF swept
        <5>3. i \in Claimable(swept, n, MaxAttempts)
          BY <5>1, <5>2, BoundsAssumption DEF Claimable
        <5> QED BY <3>1, <5>3
      <4>4. Watches(wk[w], FreshTenants) /\ wk[w].pc = "pass"
        BY <1>0, <2>1 DEF ClaimTenant
      <4> HIDE DEF r
      <4>5. Watches(r, FreshTenants')
        BY <1>2, <4>2, <4>3, <4>4 DEF Watches
      <4> QED BY <4>1, <4>5, <2>s
    <3>2. ASSUME NEW i, wk' = [wk EXCEPT ![w] = BeginTask(wk[w], i, n)] PROVE Kept
      <4>1. BeginTask(wk[w], i, n).pc = "run" /\ BeginTask(wk[w], i, n).ran
        BY <1>0 DEF BeginTask, Proc
      <4>2. Watches(BeginTask(wk[w], i, n), FreshTenants')
        BY <4>1 DEF Watches
      <4> QED BY <3>2, <4>2, <2>s
    <3> QED BY <2>1, <3>1, <3>2 DEF ClaimTenant
  <2>2. ASSUME NEW w \in Workers, Start(w) PROVE Kept
    <3>1. [WorkerDown EXCEPT !.sock = "live"] \in Proc /\ WorkerDown \in Proc
      BY DEF WorkerDown, Proc
    <3>2. \E r \in Proc : wk' = [wk EXCEPT ![w] = BeginPass(r)]
      BY <2>2, <3>1 DEF Start
    <3> QED BY <1>t, <3>2, <2>s, WatchesPass
  <2>3. ASSUME NEW w \in Workers, FinishOk(w) \/ \E p \in BOOLEAN : FinishFail(w, p) PROVE Kept
    <3>1. wk' = [wk EXCEPT ![w] = EndTask(wk[w])] /\ wk[w].ran
      BY <1>0, <2>3 DEF FinishOk, FinishFail, Watches
    <3>2. EndTask(wk[w]).pc = "pass" /\ EndTask(wk[w]).ran
      BY <1>0, <3>1 DEF EndTask, Proc
    <3>3. Watches(EndTask(wk[w]), FreshTenants')
      BY <3>2 DEF Watches
    <3> QED BY <3>1, <3>3, <2>s
  <2>4. ASSUME NEW w \in Workers, EndPass(w) PROVE Kept
    <3> DEFINE h == wk[w].heard /\ wk[w].sock = "live"
    <3>1. /\ wk[w] \in Proc /\ wk[w].ran \in BOOLEAN /\ h \in BOOLEAN
          /\ wk[w].pc = "pass" /\ wk[w].todo = {}
      BY <1>0, <2>4 DEF EndPass, Proc
    <3>2. ~wk[w].ran /\ h /\ ~wk[w].note => FreshTenants' = {}
      BY <1>0, <1>2, <3>1 DEF Watches
    <3>3. wk' = [wk EXCEPT ![w] = AfterPass(wk[w], wk[w].ran, h)]
      BY <2>4 DEF EndPass
    <3> HIDE DEF h
    <3> QED BY <1>t, <3>1, <3>2, <3>3, <2>s, WatchesAfter
  <2>5. ASSUME NEW w \in Workers, Wake(w) \/ PollElapsed(w) PROVE Kept
    <3>1. wk[w] \in Proc /\ Heard(wk[w]) \in Proc
      BY <1>0 DEF Heard, Proc
    <3>2. \/ wk' = [wk EXCEPT ![w] = WorkerDown]
          \/ \E r \in Proc : wk' = [wk EXCEPT ![w] = BeginPass(r)]
      BY <2>5, <3>1 DEF Wake, PollElapsed
    <3> QED BY <1>t, <3>1, <3>2, <2>s, WatchesPass
  <2>6. ASSUME NEW w \in Workers, ListenerFails(w) PROVE Kept
    <3> DEFINE r == [wk[w] EXCEPT !.sock = "none", !.note = FALSE, !.heard = FALSE]
    <3>1. r.sock = "none" /\ r.pc = "wait"
      BY <1>0, <2>6 DEF ListenerFails, Proc
    <3>2. wk' = [wk EXCEPT ![w] = r]
      BY <1>0, <2>6 DEF ListenerFails
    <3> HIDE DEF r
    <3>3. Watches(r, FreshTenants')
      BY <3>1 DEF Watches
    <3> QED BY <3>2, <3>3, <2>s
  <2>7. ASSUME NEW w \in Workers, PassError(w) PROVE Kept
    <3>1. wk[w] \in Proc /\ wk' = [wk EXCEPT ![w] = AfterPass(wk[w], FALSE, FALSE)]
      BY <1>0, <2>7 DEF PassError
    <3>2. Watches(AfterPass(wk[w], FALSE, FALSE), FreshTenants')
      BY <1>t, <3>1, WatchesAfter
    <3> QED BY <3>1, <3>2, <2>s
  <2>8. ASSUME NEW w \in Workers, ListenRefused(w) \/ Crash(w) PROVE Kept
    <3>1. wk[w] \in Proc /\ wk' = [wk EXCEPT ![w] = WorkerDown]
      BY <1>0, <2>8 DEF ListenRefused, Crash
    <3> QED BY <1>t, <3>1, <2>s, WatchesPass
  <2>9. ASSUME NEW w \in Workers, Stop(w) \/ SocketDies(w) PROVE Kept
    <3>1. Watches(wk[w], FreshTenants') /\ wk[w] \in Proc
      BY <1>0, <1>2, WatchesLess
    <3>2. /\ Watches([wk[w] EXCEPT !.stop = TRUE], FreshTenants')
          /\ Watches([wk[w] EXCEPT !.sock = "dead"], FreshTenants')
      BY <3>1 DEF Watches, Proc
    <3>3. \/ wk' = [wk EXCEPT ![w] = [wk[w] EXCEPT !.stop = TRUE]]
          \/ wk' = [wk EXCEPT ![w] = [wk[w] EXCEPT !.sock = "dead"]]
      BY <1>0, <2>9 DEF Stop, SocketDies
    <3> QED BY <3>2, <3>3, <2>s
  <2>10. ASSUME wk' = wk PROVE Kept
    BY <1>0, <1>2, <2>10, WatchesLess
  <2> HIDE DEF Kept
  <2>11. CASE wk' = notify(wk)
    BY <1>1, <2>11
  <2>12. CASE wk' # notify(wk)
    <3>1. Kept
      BY <2>12, <2>0, <2>1, <2>2, <2>3, <2>4, <2>5, <2>6, <2>7, <2>8, <2>9, <2>10
         DEF Next, WorkerStep, FaultStep, LeaseExpires, RunAfterPasses, vars
    <3> QED BY <1>r, <3>1 DEF Kept, WakeInv
  <2> QED BY <2>11, <2>12
<1> QED BY <1>0, <1>1, <1>2, FreshTenantsStep

\* A worker that waits under a live listener with nothing buffered, after a pass it
\* heard nothing in, leaves no task that could have run: LISTEN comes before the
\* first pass and a pass that ran something is repeated (runner.py run_forever).
THEOREM WakeUpIsKept == Spec => []NoLostWakeup
<1>1. Init => TypeInv /\ WakeInv
  <2>1. ASSUME Init, NEW i \in TaskId PROVE task[i].status = "absent"
    BY <2>1 DEF Init, AbsentRow
  <2>2. ASSUME Init, NEW w \in Workers PROVE wk[w].pc = "down"
    BY <2>2 DEF Init, WorkerDown
  <2> QED BY <2>1, <2>2, TypeInitially DEF WakeInv, RowsInv, Fresh, Watches
<1>2. TypeInv /\ WakeInv /\ [Next]_vars => (TypeInv /\ WakeInv)'
  BY TypeInductive, WakeInductive
<1>3. WakeInv => NoLostWakeup
  BY DEF WakeInv, Watches, NoLostWakeup, FreshTenants, Fresh
<1> QED BY <1>1, <1>2, <1>3, PTL DEF Spec
===============================================================================
