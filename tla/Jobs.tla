------------------------------- MODULE Jobs -------------------------------
(* The job spine: jobs, the estimates attached to them (job_estimate), the  *)
(* outside ids they carry (job_alias) and the QuickBooks rows a person      *)
(* tracks; domain/jobs/service.py, its write actions and the reads they     *)
(* decide from.                                                             *)
(*                                                                          *)
(* A request is one READ COMMITTED transaction: it reads and decides, then  *)
(* writes and commits.  Nothing it read is locked, so every write action is *)
(* two steps here, and another request may commit between them.  The        *)
(* database's unique keys are checked when the rows are written (_flush).   *)
(* The ghost variable `raced` collects the jobs, estimates and customer     *)
(* rows on which a request committed between the read and the write of      *)
(* another request about the same row.                                      *)
(*                                                                          *)
(* Left out: names, notes, dates and divisions (fields no rule reads but    *)
(* their own validation), and the audit rows.                               *)
EXTENDS FiniteSets

CONSTANTS Job, Estimate, Customer, Client,
          Parent,      \* Customer -> the parent row, or the row itself
          NoCustomer, NoRequest

ASSUME JobsConstants ==
    /\ Job # {}
    /\ Parent \in [Customer -> Customer]
    /\ NoCustomer \notin Customer

VARIABLES job,        \* Job -> [made, method, status, customer]
          links,      \* job_estimate: a set of [job, est, role]
          aliases,    \* job_alias: a set of [job, system, ext]
          tracked,    \* the customer rows with tracked_at set
          active,     \* the customer rows active in the copy of QuickBooks
          sold,       \* the estimates whose status_norm is sold
          request,    \* Client -> the request between its reads and its writes
          raced       \* ghost: rows whose requests overlapped

jobVars == <<job, links, aliases, tracked, active, sold, request, raced>>

-----------------------------------------------------------------------------
LMN == "lmn_estimate"
QBO == "qbo_customer"
RevenueMethods == {"fixed_price", "recurring_service", "pool"}
NoEstimateMethods == {"recurring_service", "pool"}
JobStatuses == {"sold", "in_progress", "closed"}
Roles == {"original", "change_order", "ignored"}

LinksOf(j) == {l \in links : l.job = j}
QboAliases(j) == {a \in aliases : a.job = j /\ a.system = QBO}
\* estimate_job: the job an estimate is on.
OnJob(e) == \E l \in links : l.est = e

JobRow == [made : BOOLEAN, method : RevenueMethods, status : JobStatuses,
           customer : Customer \cup {NoCustomer}]
Link == [job : Job, est : Estimate, role : Roles]
Alias == [job : Job, system : {LMN}, ext : Estimate]
             \cup [job : Job, system : {QBO}, ext : Customer]

\* The row as its model defaults make it, before a request has made it.
NewRow == [made |-> FALSE, method |-> "fixed_price", status |-> "sold", customer |-> NoCustomer]

Columns == {"made", "method", "status", "customer"}

\* What a request does with the database in its last step: the rows it adds,
\* the rows it deletes (by their ids), the columns of the job it writes with
\* their values, and the tracked_at it sets or clears.
JobRequest == [on : SUBSET (Job \cup Estimate \cup Customer), job : Job,
               add : SUBSET (Link \cup Alias), del : SUBSET (Link \cup Alias),
               set : SUBSET Columns, to : JobRow,
               track : SUBSET Customer, untrack : SUBSET Customer]

Nothing(j) == [on |-> {j}, job |-> j, add |-> {}, del |-> {}, set |-> {}, to |-> NewRow,
               track |-> {}, untrack |-> {}]

-----------------------------------------------------------------------------
(* The write of a request: _flush and the commit.                           *)

IsLink(r) == "role" \in DOMAIN r

\* The unique keys of models.py: an estimate is on one job, a job has one
\* original, an outside id maps to one job.
KeysFree(rows, ls, as) ==
    /\ \A r \in rows : IsLink(r) =>
          /\ \A l \in ls : l.est # r.est
          /\ r.role = "original" => \A l \in ls : l.job = r.job => l.role # "original"
    /\ \A r \in rows : ~IsLink(r) =>
          \A a \in as : <<a.system, a.ext>> # <<r.system, r.ext>>

\* The ORM writes the columns the request changed, over whatever is there.
Assigned(row, cols, to) ==
    [made     |-> IF "made" \in cols THEN to.made ELSE row.made,
     method   |-> IF "method" \in cols THEN to.method ELSE row.method,
     status   |-> IF "status" \in cols THEN to.status ELSE row.status,
     customer |-> IF "customer" \in cols THEN to.customer ELSE row.customer]

When(condition, col) == IF condition THEN {col} ELSE {}

Others(c) == {d \in Client \ {c} : request[d] # NoRequest}

\* A deleted row leaves the requests that hold its id: their DELETE matches
\* nothing.
Forget(q, rows) == IF q = NoRequest THEN q ELSE [q EXCEPT !.del = @ \ rows]

Commit(c) ==
    /\ request[c] # NoRequest
    /\ LET q == request[c]
           ls == links \ q.del
           as == aliases \ q.del
       IN IF KeysFree(q.add, ls, as)
          THEN /\ links' = ls \cup {r \in q.add : IsLink(r)}
               /\ aliases' = as \cup {r \in q.add : ~IsLink(r)}
               /\ job' = [job EXCEPT ![q.job] = Assigned(@, q.set, q.to)]
               /\ tracked' = (tracked \cup q.track) \ q.untrack
               /\ request' = [d \in Client |->
                                IF d = c THEN NoRequest
                                ELSE Forget(request[d], q.del)]
               /\ raced' = raced \cup UNION {q.on \cap request[d].on : d \in Others(c)}
          ELSE /\ request' = [request EXCEPT ![c] = NoRequest]    \* 409
               /\ UNCHANGED <<job, links, aliases, tracked, raced>>
    /\ UNCHANGED <<active, sold>>

BeginRequest(c, q) ==
    /\ request[c] = NoRequest
    /\ request' = [request EXCEPT ![c] = q]
    /\ UNCHANGED <<job, links, aliases, tracked, active, sold, raced>>

-----------------------------------------------------------------------------
(* The reads and refusals of each write action.                             *)

\* _sold_estimate: sold, and on no job.
SoldEstimate(e) == e \in sold /\ ~OnJob(e)

Attached(j, e, role) ==
    {[job |-> j, est |-> e, role |-> role], [job |-> j, system |-> LMN, ext |-> e]}

\* A new row's id is new: no other request is about it.
FreshJob(j) == ~job[j].made /\ \A d \in Client : request[d] # NoRequest => j \notin request[d].on

\* create_job_from_estimate: a fixed-price job with its original.
CreateFromEstimate(c, j, e) ==
    /\ FreshJob(j)
    /\ SoldEstimate(e)
    /\ BeginRequest(c, [Nothing(j) EXCEPT
                    !.on = {j, e},
                    !.add = Attached(j, e, "original"),
                    !.set = {"made", "method"},
                    !.to = [NewRow EXCEPT !.made = TRUE]])

\* create_pool_job: a pool or a program, with no estimate.
CreatePool(c, j, method) ==
    /\ FreshJob(j)
    /\ method \in NoEstimateMethods
    /\ BeginRequest(c, [Nothing(j) EXCEPT
                    !.set = {"made", "method"},
                    !.to = [NewRow EXCEPT !.made = TRUE, !.method = method]])

\* update_job: a job with an estimate does not become a pool or a program.
UpdateMethod(c, j, method) ==
    /\ job[j].made
    /\ method # job[j].method
    /\ method \in NoEstimateMethods /\ job[j].method \notin NoEstimateMethods
          => LinksOf(j) = {}
    /\ BeginRequest(c, [Nothing(j) EXCEPT !.set = {"method"},
                                           !.to = [NewRow EXCEPT !.method = method]])

\* update_job: any status of the list.
UpdateStatus(c, j, status) ==
    /\ job[j].made
    /\ status # job[j].status
    /\ BeginRequest(c, [Nothing(j) EXCEPT !.set = {"status"},
                                           !.to = [NewRow EXCEPT !.status = status]])

AttachEstimate(c, j, e, role) ==
    /\ job[j].made
    /\ job[j].method # "pool"
    /\ job[j].method = "recurring_service" => role = "ignored"
    /\ SoldEstimate(e)
    /\ role = "original" => \A l \in LinksOf(j) : l.role # "original"
    /\ BeginRequest(c, [Nothing(j) EXCEPT !.on = {j, e}, !.add = Attached(j, e, role)])

\* Faulty: the estimate's outside id stays on the job.
DetachEstimateOnly(c, j, e) ==
    /\ \E l \in LinksOf(j) :
          /\ l.est = e
          /\ l.role = "original" => LinksOf(j) = {l}
          /\ BeginRequest(c, [Nothing(j) EXCEPT !.on = {j, e}, !.del = {l}])

\* detach_estimate: the original stays while another estimate is attached.
DetachEstimate(c, j, e) ==
    /\ \E l \in LinksOf(j) :
          /\ l.est = e
          /\ l.role = "original" => LinksOf(j) = {l}
          /\ BeginRequest(c, [Nothing(j) EXCEPT
                          !.on = {j, e},
                          !.del = {l} \cup {a \in aliases : a.job = j /\ a.system = LMN
                                                             /\ a.ext = e}])

\* These two write no job row and are about none; the request names any.
AnyJob == CHOOSE j \in Job : TRUE

TrackCustomer(c, k) ==
    /\ k \notin tracked
    /\ k \in active
    /\ BeginRequest(c, [Nothing(AnyJob) EXCEPT !.on = {k}, !.track = {k}])

\* untrack_customer: refused while the row is linked to a job.
UntrackCustomer(c, k) ==
    /\ k \in tracked
    /\ \A a \in aliases : ~(a.system = QBO /\ a.ext = k)
    /\ BeginRequest(c, [Nothing(AnyJob) EXCEPT !.on = {k}, !.untrack = {k}])

\* Faulty: a link tracks no row.
LinkAliasUntracked(c, j, k, inProgress) ==
    /\ job[j].made
    /\ k \in active
    /\ \A a \in aliases : ~(a.system = QBO /\ a.ext = k)
    /\ BeginRequest(c, [Nothing(j) EXCEPT
                    !.on = {j, k},
                    !.add = {[job |-> j, system |-> QBO, ext |-> k]},
                    !.set = When(job[j].customer = NoCustomer, "customer"),
                    !.to = [NewRow EXCEPT !.customer = Parent[k]]])

\* link_alias: the link tracks the row, sets the job's customer when it has
\* none, and may set a sold job in progress.
LinkAlias(c, j, k, inProgress) ==
    /\ job[j].made
    /\ k \in active
    /\ \A a \in aliases : ~(a.system = QBO /\ a.ext = k)
    /\ BeginRequest(c, [Nothing(j) EXCEPT
                    !.on = {j, k},
                    !.add = {[job |-> j, system |-> QBO, ext |-> k]},
                    !.track = {k} \ tracked,
                    !.set = When(job[j].customer = NoCustomer, "customer")
                         \cup When(inProgress /\ job[j].status = "sold", "status"),
                    !.to = [NewRow EXCEPT !.customer = Parent[k], !.status = "in_progress"]])

\* unlink_alias: the delete is flushed and locks the row until the commit, the
\* aliases left are counted, and the last one takes the customer with it.
UnlinkAlias(c, j, k) ==
    /\ \E a \in QboAliases(j) :
          /\ a.ext = k
          /\ \A d \in Client : request[d] # NoRequest => a \notin request[d].del
          /\ BeginRequest(c, [Nothing(j) EXCEPT
                          !.on = {j, k},
                          !.del = {a},
                          !.set = When(QboAliases(j) = {a}, "customer")])

-----------------------------------------------------------------------------
(* The copies the jobs read: an import changes an estimate's status, a sync *)
(* (de)activates a customer row.                                            *)

EstimateStatusLoads(e) ==
    /\ sold' = IF e \in sold THEN sold \ {e} ELSE sold \cup {e}
    /\ UNCHANGED <<job, links, aliases, tracked, active, request, raced>>

CustomerSyncs(k) ==
    /\ active' = IF k \in active THEN active \ {k} ELSE active \cup {k}
    /\ UNCHANGED <<job, links, aliases, tracked, sold, request, raced>>

-----------------------------------------------------------------------------
JobsInit ==
    /\ job = [j \in Job |-> NewRow]
    /\ links = {} /\ aliases = {} /\ tracked = {}
    /\ active = Customer
    /\ sold = Estimate
    /\ request = [c \in Client |-> NoRequest]
    /\ raced = {}

\* The requests about a job's estimates, and those about its QuickBooks rows:
\* they meet only in the job row, in columns of their own.
EstimateSide ==
    \/ \E c \in Client, j \in Job :
          \/ \E e \in Estimate : CreateFromEstimate(c, j, e)
          \/ \E e \in Estimate : DetachEstimate(c, j, e)
          \/ \E e \in Estimate, r \in Roles : AttachEstimate(c, j, e, r)
          \/ \E m \in NoEstimateMethods : CreatePool(c, j, m)
          \/ \E m \in RevenueMethods : UpdateMethod(c, j, m)
    \/ \E e \in Estimate : EstimateStatusLoads(e)

CustomerSide ==
    \/ \E c \in Client, j \in Job :
          \/ \E m \in NoEstimateMethods : CreatePool(c, j, m)
          \/ \E s \in JobStatuses : UpdateStatus(c, j, s)
          \/ \E k \in Customer, p \in BOOLEAN : LinkAlias(c, j, k, p)
          \/ \E k \in Customer : UnlinkAlias(c, j, k)
    \/ \E c \in Client, k \in Customer : TrackCustomer(c, k) \/ UntrackCustomer(c, k)
    \/ \E k \in Customer : CustomerSyncs(k)

JobsNext == EstimateSide \/ CustomerSide \/ \E c \in Client : Commit(c)

JobsSpec == JobsInit /\ [][JobsNext]_jobVars

-----------------------------------------------------------------------------
(* Properties.                                                              *)

\* Every row has its shape, and the estimate and the customer rows of a job
\* that was never made are none.
JobsTypeOK ==
    /\ job \in [Job -> JobRow]
    /\ links \subseteq Link /\ aliases \subseteq Alias
    /\ tracked \subseteq Customer /\ active \subseteq Customer /\ sold \subseteq Estimate
    /\ raced \subseteq Job \cup Estimate \cup Customer
    /\ \A c \in Client : request[c] # NoRequest => request[c].on # {}
    /\ \A r \in links \cup aliases : job[r.job].made

\* Whatever requests overlap, an estimate is on at most one job, a job has at
\* most one original, an outside id maps to one job, and an estimate and its
\* outside id are never on two different jobs.
OneHome ==
    /\ \A l, m \in links : l.est = m.est => l = m
    /\ \A l, m \in links : l.job = m.job /\ l.role = "original" /\ m.role = "original" => l = m
    /\ \A a, b \in aliases : a.system = b.system /\ a.ext = b.ext => a = b
    /\ \A l \in links, a \in aliases : a.system = LMN /\ a.ext = l.est => a.job = l.job

\* An estimate is on a job exactly when the job carries its outside id, through
\* every order of attaching, detaching and attaching again elsewhere.
AliasFollowsEstimate ==
    \A j \in Job, e \in Estimate : j \notin raced =>
        ((\E l \in links : l.job = j /\ l.est = e)
            <=> [job |-> j, system |-> LMN, ext |-> e] \in aliases)

\* A pool or a program holds no estimate that counts: what is attached to it
\* is ignored, however its revenue method came to be.
ProgramsCountNothing ==
    \A l \in links : l.job \notin raced /\ job[l.job].method \in NoEstimateMethods
        => l.role = "ignored"

\* Where estimates are at home, through attaching, detaching, merging of outside ids
\* and changes of the program by two people at once (domain/jobs/service.py).
EstimateHome == JobsTypeOK /\ OneHome /\ AliasFollowsEstimate /\ ProgramsCountNothing

\* The job's customer is set by its first QuickBooks link and cleared with its
\* last, and then never names a row no link led to.
CustomerFollowsLinks ==
    \A j \in Job : j \notin raced => ((job[j].customer # NoCustomer) <=> QboAliases(j) # {})

\* A row linked to a job is tracked: the list of tracked rows without a job
\* (LEDGER_PROJECT_NO_JOB) and the links of the jobs never miss a row between
\* them, whatever order of tracking, linking, unlinking and untracking.
LinkedIsTracked ==
    \A a \in aliases : a.system = QBO /\ a.ext \notin raced => a.ext \in tracked

\* What links to QuickBooks customers leave behind, whatever the order of linking,
\* unlinking, tracking and untracking: the job's customer and the tracked rows agree.
CustomerLinks == CustomerFollowsLinks /\ LinkedIsTracked
=============================================================================
