------------------------------ MODULE JobsProofs ------------------------------
(***************************************************************************)
(* Theorems about Jobs for any jobs, estimates, customer rows and any      *)
(* number of overlapping requests.  A request decides from what it read    *)
(* and writes later, so the inductive invariant says of every request in   *)
(* between what its write will leave behind, as long as no other request   *)
(* about the same rows has committed (the ghost variable raced).           *)
(* And theorems about EstimateVersions for any sheets, people, uploads and *)
(* approvals, all of which rest on a version never changing once it is     *)
(* stored.                                                                 *)
(* The last part is about ReviewExceptions, for any number of exceptions,  *)
(* facts, members, people and runs in flight.  No transaction locks what   *)
(* it reads, so the argument is about single flushes: what a run or a      *)
(* person may write over a row that is no longer the one that was loaded.  *)
(***************************************************************************)
EXTENDS Jobs, EstimateVersions, ReviewExceptions, SumTheorems, FiniteSetTheorems, SequenceTheorems, WellFoundedInduction, TLAPS

\* What one job's estimates, outside ids and columns say of each other.
InOrder(j, ls, as, own) ==
  /\ \A e \in Estimate : (\E l \in ls : l.job = j /\ l.est = e)
                            <=> [job |-> j, system |-> LMN, ext |-> e] \in as
  /\ own.method \in NoEstimateMethods => \A l \in ls : l.job = j => l.role = "ignored"
  /\ own.customer # NoCustomer <=> \E a \in as : a.job = j /\ a.system = QBO

LinksAfter(q) == (links \ q.del) \cup {r \in q.add : IsLink(r)}
AliasesAfter(q) == (aliases \ q.del) \cup {r \in q.add : ~IsLink(r)}

\* A request adds at most one link and one outside id, and an estimate only
\* together with its outside id.
AddsPair(rows) ==
  /\ \A r, s \in rows : IsLink(r) = IsLink(s) => r = s
  /\ \A r \in rows : IsLink(r) =>
       \E s \in rows : ~IsLink(s) /\ s.system = LMN /\ s.ext = r.est /\ s.job = r.job
  /\ \A s \in rows : ~IsLink(s) /\ s.system = LMN =>
       \E r \in rows : IsLink(r) /\ s.ext = r.est /\ s.job = r.job

\* What the write of a request will do to the row of its job.
JobPart(q) ==
  /\ q.job \notin q.on => q.add = {} /\ q.del = {} /\ q.set = {}
  /\ \A r \in q.add \cup q.del : r.job = q.job
  /\ AddsPair(q.add)
  /\ "made" \in q.set => q.to.made
  /\ q.add # {} => job[q.job].made \/ "made" \in q.set
  /\ q.job \in q.on /\ q.job \notin raced =>
       InOrder(q.job, LinksAfter(q), AliasesAfter(q), Assigned(job[q.job], q.set, q.to))

\* What it will do to the customer rows it tracks, links or untracks.
CustomerPart(q) ==
  /\ q.add # {} => q.untrack = {}
  /\ \A k \in q.untrack : /\ k \in q.on
                          /\ k \notin raced => \A a \in aliases : ~(a.system = QBO /\ a.ext = k)
  /\ \A a \in q.add : ~IsLink(a) /\ a.system = QBO =>
       a.ext \in q.on /\ (a.ext \notin raced => a.ext \in tracked \cup q.track)

Pending(q) == q.on # {} /\ JobPart(q) /\ CustomerPart(q)

Shapes ==
  /\ job \in [Job -> JobRow]
  /\ links \subseteq Link /\ aliases \subseteq Alias
  /\ tracked \subseteq Customer /\ active \subseteq Customer /\ sold \subseteq Estimate
  /\ raced \subseteq Job \cup Estimate \cup Customer
  /\ request \in [Client -> JobRequest \cup {NoRequest}]
  /\ \A r \in links \cup aliases : job[r.job].made

JobsInOrder == \A j \in Job : j \notin raced => InOrder(j, links, aliases, job[j])

IInv ==
  /\ Shapes /\ OneHome /\ JobsInOrder /\ LinkedIsTracked
  /\ \A c \in Client : request[c] # NoRequest => Pending(request[c])

-----------------------------------------------------------------------------
(* The operators.                                                            *)

LEMMA LinkIsLink ==
  /\ \A r \in Link : IsLink(r) /\ r.job \in Job /\ r.est \in Estimate /\ r.role \in Roles
  /\ \A r \in Alias : ~IsLink(r) /\ r.job \in Job
BY DEF Link, Alias, IsLink

\* The columns written keep the row a row, and the others their values.
LEMMA AssignedType ==
  ASSUME NEW own \in JobRow, NEW cols, NEW to \in JobRow
  PROVE  /\ Assigned(own, cols, to) \in JobRow
         /\ cols = {} => Assigned(own, cols, to) = own
BY DEF Assigned, JobRow

\* What one job looks like depends on its own rows only.
LEMMA OwnRowsOnly ==
  ASSUME NEW j, NEW ls, NEW as, NEW own, NEW ls2, NEW as2,
         \A l : l.job = j => (l \in ls <=> l \in ls2),
         \A a : a.job = j => (a \in as <=> a \in as2),
         InOrder(j, ls, as, own)
  PROVE  InOrder(j, ls2, as2, own)
<1>1. \A e : [job |-> j, system |-> LMN, ext |-> e].job = j
  OBVIOUS
<1> QED BY <1>1 DEF InOrder

-----------------------------------------------------------------------------
(* A request begins.                                                         *)

LEMMA RequestBegins ==
  ASSUME IInv, NEW c \in Client, NEW q \in JobRequest, Pending(q), BeginRequest(c, q)
  PROVE  IInv'
<1>1. /\ UNCHANGED <<job, links, aliases, tracked, active, sold, raced>>
      /\ request' = [request EXCEPT ![c] = q]
  BY DEF BeginRequest
<1>2. request \in [Client -> JobRequest \cup {NoRequest}]
  BY DEF IInv, Shapes
<1>3. Shapes'
  BY <1>1, <1>2 DEF IInv, Shapes
<1>4. OneHome' /\ JobsInOrder' /\ LinkedIsTracked'
  BY <1>1 DEF IInv, OneHome, JobsInOrder, LinkedIsTracked
<1>5. ASSUME NEW p, Pending(p) PROVE Pending(p)'
  BY <1>1, <1>5 DEF Pending, JobPart, CustomerPart, LinksAfter, AliasesAfter
<1>6. \A d \in Client : request'[d] # NoRequest => Pending(request[d])'
  <2> SUFFICES ASSUME NEW d \in Client, request'[d] # NoRequest PROVE Pending(request[d])'
    OBVIOUS
  <2>1. PICK p : p = request'[d] /\ (p = q \/ p = request[d])
    BY <1>1, <1>2
  <2>2. Pending(p)
    BY <2>1 DEF IInv
  <2> QED BY <1>5, <2>1, <2>2
<1> QED BY <1>3, <1>4, <1>6 DEF IInv

-----------------------------------------------------------------------------
(* A request is written.                                                     *)

\* The write of request q by c, when the unique keys are free.
Written(c, q) ==
  /\ KeysFree(q.add, links \ q.del, aliases \ q.del)
  /\ links' = LinksAfter(q) /\ aliases' = AliasesAfter(q)
  /\ job' = [job EXCEPT ![q.job] = Assigned(@, q.set, q.to)]
  /\ tracked' = (tracked \cup q.track) \ q.untrack
  /\ request' = [d \in Client |-> IF d = c THEN NoRequest ELSE Forget(request[d], q.del)]
  /\ raced' = raced \cup UNION {q.on \cap request[d].on : d \in Others(c)}
  /\ UNCHANGED <<active, sold>>

LEMMA CommitCases ==
  ASSUME NEW c \in Client, Commit(c)
  PROVE  \/ Written(c, request[c])
         \/ /\ request' = [request EXCEPT ![c] = NoRequest]
            /\ UNCHANGED <<job, links, aliases, tracked, active, sold, raced>>
BY DEF Commit, Written, LinksAfter, AliasesAfter

\* Rows keep their shape, and their job is made.
LEMMA WrittenShapes ==
  ASSUME IInv, NEW c \in Client, NEW q \in JobRequest, Pending(q), Written(c, q)
  PROVE  Shapes'
<1>1. /\ q.add \subseteq Link \cup Alias /\ q.job \in Job /\ q.to \in JobRow
      /\ q.track \subseteq Customer /\ q.on \subseteq Job \cup Estimate \cup Customer
  BY DEF JobRequest
<1>2. links' \subseteq Link /\ aliases' \subseteq Alias
  BY <1>1, LinkIsLink DEF IInv, Shapes, Written, LinksAfter, AliasesAfter
<1>3. job' \in [Job -> JobRow]
  BY <1>1, AssignedType DEF IInv, Shapes, Written
<1>4. request' \in [Client -> JobRequest \cup {NoRequest}]
  <2> SUFFICES ASSUME NEW d \in Client, request[d] \in JobRequest
               PROVE  Forget(request[d], q.del) \in JobRequest \cup {NoRequest}
    BY DEF IInv, Shapes, Written, Forget
  <2> QED BY DEF Forget, JobRequest
<1>5. \A r \in links' \cup aliases' : job'[r.job].made
  <2> SUFFICES ASSUME NEW r \in links' \cup aliases' PROVE job'[r.job].made
    OBVIOUS
  <2>1. r.job \in Job /\ (r \in links \cup aliases \/ r \in q.add)
    BY <1>2, LinkIsLink DEF Written, LinksAfter, AliasesAfter
  <2>2. job[r.job].made \/ (r.job = q.job /\ "made" \in q.set)
    BY <2>1 DEF IInv, Shapes, Pending, JobPart
  <2>3. "made" \in q.set => q.to.made
    BY DEF Pending, JobPart
  <2>4. job'[r.job] = IF r.job = q.job THEN Assigned(job[q.job], q.set, q.to) ELSE job[r.job]
    BY <2>1 DEF IInv, Shapes, Written
  <2>5. job[q.job].made \/ "made" \in q.set => Assigned(job[q.job], q.set, q.to).made
    BY <2>3 DEF Assigned
  <2> QED BY <2>2, <2>4, <2>5
<1>6. raced' \subseteq Job \cup Estimate \cup Customer
  BY <1>1 DEF IInv, Shapes, Written
<1>7. tracked' \subseteq Customer /\ active' \subseteq Customer /\ sold' \subseteq Estimate
  BY <1>1 DEF IInv, Shapes, Written
<1> QED BY <1>2, <1>3, <1>4, <1>5, <1>6, <1>7 DEF Shapes

\* The unique keys keep an estimate, and its outside id, in one place.
LEMMA WrittenHome ==
  ASSUME IInv, NEW c \in Client, NEW q \in JobRequest, Pending(q), Written(c, q)
  PROVE  OneHome'
<1> DEFINE ls == links \ q.del
           as == aliases \ q.del
           addl == {r \in q.add : IsLink(r)}
           adda == {r \in q.add : ~IsLink(r)}
<1>0. /\ links' = ls \cup addl /\ aliases' = as \cup adda
      /\ OneHome /\ AddsPair(q.add) /\ KeysFree(q.add, ls, as)
  BY DEF Written, LinksAfter, AliasesAfter, IInv, Pending, JobPart
<1>p. (\A l, m \in addl : l = m) /\ (\A a, b \in adda : a = b)
  BY <1>0 DEF AddsPair, IsLink
<1>1. /\ \A l, m \in addl : l = m
      /\ \A a, b \in adda : a = b
      /\ \A r \in addl : \A l \in ls : l.est # r.est
      /\ \A r \in addl : r.role = "original" => \A l \in ls : l.job = r.job => l.role # "original"
      /\ \A r \in adda : \A a \in as : ~(a.system = r.system /\ a.ext = r.ext)
  BY <1>0, <1>p DEF KeysFree
<1>2. /\ \A r \in addl : \E s \in adda : s.system = LMN /\ s.ext = r.est /\ s.job = r.job
      /\ \A s \in adda : s.system = LMN => \E r \in addl : s.ext = r.est /\ s.job = r.job
  BY <1>0 DEF AddsPair
<1> HIDE DEF ls, as, addl, adda
<1>h. /\ \A l, m \in ls : l.est = m.est => l = m
      /\ \A l, m \in ls : l.job = m.job /\ l.role = "original" /\ m.role = "original" => l = m
      /\ \A a, b \in as : a.system = b.system /\ a.ext = b.ext => a = b
      /\ \A l \in ls, a \in as : a.system = LMN /\ a.ext = l.est => a.job = l.job
  BY <1>0 DEF OneHome, ls, as
<1>3. \A l, m \in links' : l.est = m.est => l = m
  BY <1>0, <1>1, <1>h
<1>4. \A l, m \in links' : l.job = m.job /\ l.role = "original" /\ m.role = "original" => l = m
  BY <1>0, <1>1, <1>h
<1>5. \A a, b \in aliases' : a.system = b.system /\ a.ext = b.ext => a = b
  BY <1>0, <1>1, <1>h
<1>6. ASSUME NEW l \in links', NEW a \in aliases', a.system = LMN, a.ext = l.est
      PROVE  a.job = l.job
  <2>1. CASE l \in ls /\ a \in as
    BY <1>h, <1>6, <2>1
  <2>2. CASE l \in addl
    <3>1. PICK s \in adda : s.system = LMN /\ s.ext = l.est /\ s.job = l.job
      BY <1>2, <2>2
    <3>2. a = s
      BY <1>0, <1>1, <1>6, <3>1
    <3> QED BY <3>1, <3>2
  <2>3. CASE a \in adda
    <3>1. PICK r \in addl : a.ext = r.est /\ a.job = r.job
      BY <1>2, <1>6, <2>3
    <3>2. l = r
      BY <1>0, <1>1, <1>6, <3>1
    <3> QED BY <3>1, <3>2
  <2> QED BY <1>0, <1>6, <2>1, <2>2, <2>3
<1> QED BY <1>3, <1>4, <1>5, <1>6 DEF OneHome

\* Another request about a row of this one's job or customer makes it raced.
LEMMA WrittenRaces ==
  ASSUME NEW c \in Client, NEW q \in JobRequest, Written(c, q),
         NEW d \in Client, d # c, request[d] # NoRequest
  PROVE  \A x : x \in q.on /\ x \in request[d].on => x \in raced'
BY DEF Written, Others

\* A job nobody overtook the request on is left in order, as is every other job.
LEMMA WrittenInOrder ==
  ASSUME IInv, NEW c \in Client, NEW q \in JobRequest, Pending(q), Written(c, q)
  PROVE  JobsInOrder'
<1> SUFFICES ASSUME NEW j \in Job, j \notin raced' PROVE InOrder(j, links', aliases', job'[j])
  BY DEF JobsInOrder
<1>1. j \notin raced /\ q.job \in Job /\ job \in [Job -> JobRow]
  BY DEF Written, JobRequest, IInv, Shapes
<1>2. CASE j = q.job /\ q.job \in q.on
  BY <1>1, <1>2 DEF Pending, JobPart, Written
<1>3. CASE ~(j = q.job /\ q.job \in q.on)
  <2>1. InOrder(j, links, aliases, job[j])
    BY <1>1 DEF IInv, JobsInOrder
  <2>2. job'[j] = job[j]
    BY <1>1, <1>3, AssignedType DEF Written, Pending, JobPart, JobRequest
  <2>3. \A r : r.job = j => r \notin q.add /\ r \notin q.del
    BY <1>3 DEF Pending, JobPart
  <2>4. /\ \A l : l.job = j => (l \in links <=> l \in links')
        /\ \A a : a.job = j => (a \in aliases <=> a \in aliases')
    BY <2>3 DEF Written, LinksAfter, AliasesAfter
  <2> QED BY <2>1, <2>2, <2>4, OwnRowsOnly
<1> QED BY <1>2, <1>3

\* A row linked to a job stays tracked.
LEMMA WrittenTracked ==
  ASSUME IInv, NEW c \in Client, NEW q \in JobRequest, Pending(q), Written(c, q)
  PROVE  LinkedIsTracked'
<1> SUFFICES ASSUME NEW a \in aliases', a.system = QBO, a.ext \notin raced'
             PROVE  a.ext \in tracked'
  BY DEF LinkedIsTracked
<1>1. a.ext \notin raced /\ CustomerPart(q)
  BY DEF Written, Pending
<1>2. CASE a \in aliases
  BY <1>1, <1>2 DEF Written, IInv, LinkedIsTracked, CustomerPart
<1>3. CASE a \in q.add /\ ~IsLink(a)
  BY <1>1, <1>3 DEF Written, CustomerPart
<1> QED BY <1>2, <1>3 DEF Written, AliasesAfter

\* What another request holds stays true, or its rows are raced.
LEMMA OthersWait ==
  ASSUME IInv, NEW c \in Client, NEW q \in JobRequest, Pending(q), Written(c, q),
         NEW d \in Client, d # c, NEW p \in JobRequest, p = request[d], p # NoRequest,
         NEW f \in JobRequest, f = Forget(p, q.del)
  PROVE  Pending(f)'
<1>0. /\ Pending(p) /\ \A x : x \in q.on /\ x \in p.on => x \in raced'
      /\ raced \subseteq raced'
  BY WrittenRaces DEF IInv, Written
<1>1. /\ f.on = p.on /\ f.job = p.job /\ f.add = p.add /\ f.set = p.set /\ f.to = p.to
      /\ f.track = p.track /\ f.untrack = p.untrack /\ f.del = p.del \ q.del
  BY DEF Forget, JobRequest
<1>2. job \in [Job -> JobRow] /\ q.job \in Job /\ p.job \in Job /\ q.to \in JobRow
  BY DEF IInv, Shapes, JobRequest
<1>3. JobPart(f)'
  <2>1. f.add # {} => job'[f.job].made \/ "made" \in f.set
    <3>1. f.add # {} => job[p.job].made \/ "made" \in p.set
      BY <1>0, <1>1 DEF Pending, JobPart
    <3>2. job[p.job].made => job'[p.job].made
      <4>1. job'[p.job] = IF p.job = q.job THEN Assigned(job[q.job], q.set, q.to) ELSE job[p.job]
        BY <1>2 DEF Written
      <4>2. "made" \in q.set => q.to.made
        BY DEF Pending, JobPart
      <4>3. job[q.job].made => Assigned(job[q.job], q.set, q.to).made
        BY <4>2 DEF Assigned
      <4> QED BY <4>1, <4>3
    <3> QED BY <1>1, <3>1, <3>2
  <2>2. ASSUME f.job \in f.on, f.job \notin raced'
        PROVE  InOrder(f.job, LinksAfter(f)', AliasesAfter(f)', Assigned(job'[f.job], f.set, f.to))
    <3>1. ~(q.job = p.job /\ q.job \in q.on)
      BY <1>0, <1>1, <2>2
    <3>2. InOrder(p.job, LinksAfter(p), AliasesAfter(p), Assigned(job[p.job], p.set, p.to))
      BY <1>0, <1>1, <2>2 DEF Pending, JobPart
    <3>3. job'[p.job] = job[p.job]
      BY <1>2, <3>1, AssignedType DEF Written, Pending, JobPart
    <3>4. \A r : r.job = p.job => r \notin q.add /\ r \notin q.del
      BY <3>1 DEF Pending, JobPart
    <3>5. /\ \A l : l.job = p.job => (l \in LinksAfter(p) <=> l \in LinksAfter(f)')
          /\ \A a : a.job = p.job => (a \in AliasesAfter(p) <=> a \in AliasesAfter(f)')
      BY <1>1, <3>4 DEF Written, LinksAfter, AliasesAfter
    <3> QED BY <1>1, <3>2, <3>3, <3>5, OwnRowsOnly
  <2> QED BY <1>0, <1>1, <2>1, <2>2 DEF Pending, JobPart
<1>4. CustomerPart(f)'
  <2>1. ASSUME NEW k \in p.untrack, k \notin raced', NEW a \in aliases', a.system = QBO, a.ext = k
        PROVE  FALSE
    <3>1. a \notin aliases /\ k \in p.on
      BY <1>0, <2>1 DEF Pending, CustomerPart
    <3>2. a \in q.add /\ ~IsLink(a)
      BY <2>1, <3>1 DEF Written, AliasesAfter
    <3>3. a.ext \in q.on
      BY <2>1, <3>2 DEF Pending, CustomerPart
    <3> QED BY <1>0, <2>1, <3>1, <3>3
  <2>2. ASSUME NEW a \in p.add, ~IsLink(a), a.system = QBO, a.ext \notin raced'
        PROVE  a.ext \in tracked' \cup p.track
    <3>1. a.ext \in p.on /\ a.ext \in tracked \cup p.track
      BY <1>0, <2>2 DEF Pending, CustomerPart
    <3>2. a.ext \notin q.untrack
      BY <1>0, <2>2, <3>1 DEF Pending, CustomerPart
    <3> QED BY <3>1, <3>2 DEF Written
  <2>3. \A k \in p.untrack : k \in p.on
    BY <1>0 DEF Pending, CustomerPart
  <2>4. \A a \in p.add : ~IsLink(a) /\ a.system = QBO => a.ext \in p.on
    BY <1>0 DEF Pending, CustomerPart
  <2>5. p.add # {} => p.untrack = {}
    BY <1>0 DEF Pending, CustomerPart
  <2> QED BY <1>1, <2>1, <2>2, <2>3, <2>4, <2>5 DEF CustomerPart
<1> QED BY <1>0, <1>1, <1>3, <1>4 DEF Pending

LEMMA CommitKeeps ==
  ASSUME IInv, NEW c \in Client, Commit(c)
  PROVE  IInv'
<1>1. request[c] \in JobRequest \cup {NoRequest} /\ request[c] # NoRequest
  BY DEF Commit, IInv, Shapes
<1>2. PICK q \in JobRequest : q = request[c] /\ Pending(q)
  BY <1>1 DEF IInv
<1>3. CASE Written(c, q)
  <2>1. \A d \in Client : request'[d] # NoRequest => Pending(request[d])'
    <3> SUFFICES ASSUME NEW d \in Client, request'[d] # NoRequest PROVE Pending(request[d])'
      OBVIOUS
    <3>1. d # c /\ request'[d] = Forget(request[d], q.del) /\ request[d] # NoRequest
      BY <1>3 DEF Written, Forget
    <3>2. Shapes' /\ request'[d] \in JobRequest
      BY <1>2, <1>3, <3>1, WrittenShapes DEF Shapes
    <3>3. request[d] \in JobRequest
      BY <3>1 DEF IInv, Shapes
    <3>4. PICK p \in JobRequest : p = request[d]
      BY <3>3
    <3>5. PICK f \in JobRequest : f = request'[d]
      BY <3>2
    <3>6. Pending(f)'
      BY <1>2, <1>3, <3>1, <3>4, <3>5, OthersWait
    <3> QED BY <3>5, <3>6
  <2> QED BY <1>2, <1>3, <2>1, WrittenShapes, WrittenHome, WrittenInOrder, WrittenTracked DEF IInv
<1>4. CASE /\ request' = [request EXCEPT ![c] = NoRequest]
           /\ UNCHANGED <<job, links, aliases, tracked, active, sold, raced>>
  <2>1. Shapes'
    BY <1>4 DEF IInv, Shapes
  <2>2. OneHome' /\ JobsInOrder' /\ LinkedIsTracked'
    BY <1>4 DEF IInv, OneHome, JobsInOrder, LinkedIsTracked
  <2>3. ASSUME NEW p, Pending(p) PROVE Pending(p)'
    BY <1>4, <2>3 DEF Pending, JobPart, CustomerPart, LinksAfter, AliasesAfter
  <2>4. \A d \in Client : request'[d] # NoRequest => Pending(request[d])'
    <3> SUFFICES ASSUME NEW d \in Client, request'[d] # NoRequest PROVE Pending(request[d])'
      OBVIOUS
    <3>1. PICK p : p = request'[d] /\ p = request[d]
      BY <1>4 DEF IInv, Shapes
    <3> QED BY <2>3, <3>1 DEF IInv
  <2> QED BY <2>1, <2>2, <2>4 DEF IInv
<1> QED BY <1>2, <1>3, <1>4, CommitCases

-----------------------------------------------------------------------------
(* The requests as they begin: what each will leave behind is in order.      *)

LEMMA AttachedRows ==
  ASSUME NEW j \in Job, NEW e \in Estimate, NEW given \in Roles
  PROVE  /\ Attached(j, e, given) \subseteq Link \cup Alias
         /\ AddsPair(Attached(j, e, given))
         /\ \A r \in Attached(j, e, given) : r.job = j
         /\ \A r \in Attached(j, e, given) : ~IsLink(r) => r.system = LMN
         /\ \A r : r \in Attached(j, e, given) /\ IsLink(r) <=> r = [job |-> j, est |-> e, role |-> given]
         /\ \A r : r \in Attached(j, e, given) /\ ~IsLink(r)
                     <=> r = [job |-> j, system |-> LMN, ext |-> e]
<1> DEFINE l == [job |-> j, est |-> e, role |-> given]
           a == [job |-> j, system |-> LMN, ext |-> e]
<1>1. l \in Link /\ a \in Alias
  BY DEF Link, Alias
<1>2. IsLink(l) /\ ~IsLink(a)
  BY <1>1, LinkIsLink
<1>3. l.job = j /\ l.est = e /\ a.job = j /\ a.system = LMN /\ a.ext = e
  OBVIOUS
<1>4. Attached(j, e, given) = {l, a}
  BY DEF Attached
<1> HIDE DEF l, a
<1>5. AddsPair({l, a})
  BY <1>2, <1>3, Zenon DEF AddsPair
<1> QED BY <1>1, <1>2, <1>3, <1>4, <1>5 DEF l, a

\* An unmade job has no rows.
LEMMA UnmadeIsBare ==
  ASSUME IInv, NEW j \in Job, ~job[j].made
  PROVE  /\ \A l \in links : l.job # j
         /\ \A a \in aliases : a.job # j
BY DEF IInv, Shapes

LEMMA CreateFromEstimateKeeps ==
  ASSUME IInv, NEW c \in Client, NEW j \in Job, NEW e \in Estimate, CreateFromEstimate(c, j, e)
  PROVE  IInv'
<1>q. PICK q : BeginRequest(c, q) /\ q = [Nothing(j) EXCEPT !.on = {j, e},
            !.add = Attached(j, e, "original"), !.set = {"made", "method"},
            !.to = [NewRow EXCEPT !.made = TRUE]]
  BY DEF CreateFromEstimate
<1>1. /\ BeginRequest(c, q) /\ q.on = {j, e} /\ q.job = j
      /\ q.add = Attached(j, e, "original") /\ q.del = {}
      /\ q.set = {"made", "method"} /\ q.to = [NewRow EXCEPT !.made = TRUE]
      /\ q.track = {} /\ q.untrack = {}
  BY <1>q DEF Nothing
<1>2. [NewRow EXCEPT !.made = TRUE] \in JobRow
  BY DEF NewRow, JobRow, RevenueMethods, JobStatuses
<1>3. q \in JobRequest
  BY <1>q, <1>2, AttachedRows DEF Nothing, JobRequest, Columns, Roles
<1>4. ~job[j].made
  BY DEF CreateFromEstimate, FreshJob
<1>5. ASSUME j \notin raced
      PROVE  InOrder(j, LinksAfter(q), AliasesAfter(q), Assigned(job[j], q.set, q.to))
  <2> DEFINE l == [job |-> j, est |-> e, role |-> "original"]
             own == Assigned(job[j], q.set, q.to)
  <2>1. \A r \in LinksAfter(q) : r.job = j <=> r = l
    BY <1>1, <1>4, AttachedRows, UnmadeIsBare DEF LinksAfter, Roles
  <2>2. l \in LinksAfter(q)
    BY <1>1, AttachedRows DEF LinksAfter, Roles
  <2>3. \A a : a.job = j => (a \in AliasesAfter(q) <=> a = [job |-> j, system |-> LMN, ext |-> e])
    BY <1>1, <1>4, AttachedRows, UnmadeIsBare DEF AliasesAfter, Roles
  <2>4. own.method = "fixed_price" /\ own.customer = job[j].customer
    BY <1>1 DEF Assigned, NewRow
  <2>5. job[j].customer = NoCustomer
    BY <1>4, <1>5, UnmadeIsBare DEF IInv, JobsInOrder, InOrder
  <2> HIDE DEF own
  <2>6. \A x \in Estimate : (\E m \in LinksAfter(q) : m.job = j /\ m.est = x)
                               <=> [job |-> j, system |-> LMN, ext |-> x] \in AliasesAfter(q)
    BY <2>1, <2>2, <2>3
  <2>7. ~\E a \in AliasesAfter(q) : a.job = j /\ a.system = QBO
    BY <2>3 DEF LMN, QBO
  <2> QED BY <2>4, <2>5, <2>6, <2>7 DEF InOrder, NoEstimateMethods, own
<1>6. JobPart(q)
  BY <1>1, <1>5, AttachedRows DEF JobPart, NewRow, Roles
<1>7. CustomerPart(q)
  BY <1>1, AttachedRows DEF CustomerPart, Roles, LMN, QBO
<1> QED BY <1>1, <1>3, <1>6, <1>7, RequestBegins DEF Pending

LEMMA CreatePoolKeeps ==
  ASSUME IInv, NEW c \in Client, NEW j \in Job, NEW m \in NoEstimateMethods, CreatePool(c, j, m)
  PROVE  IInv'
<1>q. PICK q : BeginRequest(c, q) /\ q = [Nothing(j) EXCEPT !.set = {"made", "method"},
            !.to = [NewRow EXCEPT !.made = TRUE, !.method = m]]
  BY DEF CreatePool
<1>1. /\ BeginRequest(c, q) /\ q.on = {j} /\ q.job = j
      /\ q.add = {} /\ q.del = {}
      /\ q.set = {"made", "method"} /\ q.to = [NewRow EXCEPT !.made = TRUE, !.method = m]
      /\ q.track = {} /\ q.untrack = {}
  BY <1>q DEF Nothing
<1>2. [NewRow EXCEPT !.made = TRUE, !.method = m] \in JobRow
  BY DEF NewRow, JobRow, RevenueMethods, JobStatuses, NoEstimateMethods
<1>3. q \in JobRequest
  BY <1>q, <1>2 DEF Nothing, JobRequest, Columns
<1>4. ~job[j].made
  BY DEF CreatePool, FreshJob
<1>5. ASSUME j \notin raced
      PROVE  InOrder(j, LinksAfter(q), AliasesAfter(q), Assigned(job[j], q.set, q.to))
  <2>1. LinksAfter(q) = links /\ AliasesAfter(q) = aliases
    BY <1>1 DEF LinksAfter, AliasesAfter
  <2>2. InOrder(j, links, aliases, job[j])
    BY <1>5 DEF IInv, JobsInOrder
  <2>3. Assigned(job[j], q.set, q.to).customer = job[j].customer
    BY <1>1 DEF Assigned
  <2> QED BY <1>4, <2>1, <2>2, <2>3, UnmadeIsBare DEF InOrder
<1>6. JobPart(q)
  BY <1>1, <1>5 DEF JobPart, NewRow, AddsPair
<1>7. CustomerPart(q)
  BY <1>1 DEF CustomerPart
<1> QED BY <1>1, <1>3, <1>6, <1>7, RequestBegins DEF Pending

\* update_job writes one column of a job that is made.
LEMMA UpdateKeeps ==
  ASSUME IInv, NEW c \in Client, NEW j \in Job, NEW col \in {"method", "status"},
         NEW to \in JobRow,
         BeginRequest(c, [Nothing(j) EXCEPT !.set = {col}, !.to = to]),
         col = "method" /\ to.method \in NoEstimateMethods /\ job[j].method \notin NoEstimateMethods
           => LinksOf(j) = {}
  PROVE  IInv'
<1>q. PICK q : BeginRequest(c, q) /\ q = [Nothing(j) EXCEPT !.set = {col}, !.to = to]
  OBVIOUS
<1>1. /\ BeginRequest(c, q) /\ q.on = {j} /\ q.job = j
      /\ q.add = {} /\ q.del = {}
      /\ q.set = {col} /\ q.to = to
      /\ q.track = {} /\ q.untrack = {}
  BY <1>q DEF Nothing
<1>3. q \in JobRequest
  BY <1>q DEF Nothing, JobRequest, Columns
<1>5. ASSUME j \notin raced
      PROVE  InOrder(j, LinksAfter(q), AliasesAfter(q), Assigned(job[j], q.set, q.to))
  <2>1. LinksAfter(q) = links /\ AliasesAfter(q) = aliases
    BY <1>1 DEF LinksAfter, AliasesAfter
  <2>2. InOrder(j, links, aliases, job[j])
    BY <1>5 DEF IInv, JobsInOrder
  <2>3. /\ Assigned(job[j], q.set, q.to).customer = job[j].customer
        /\ Assigned(job[j], q.set, q.to).method = IF col = "method" THEN to.method ELSE job[j].method
    BY <1>1 DEF Assigned
  <2> QED BY <2>1, <2>2, <2>3 DEF InOrder, LinksOf
<1>6. JobPart(q)
  BY <1>1, <1>5 DEF JobPart, AddsPair
<1>7. CustomerPart(q)
  BY <1>1 DEF CustomerPart
<1> QED BY <1>1, <1>3, <1>6, <1>7, RequestBegins DEF Pending

LEMMA AttachKeeps ==
  ASSUME IInv, NEW c \in Client, NEW j \in Job, NEW e \in Estimate, NEW given \in Roles,
         AttachEstimate(c, j, e, given)
  PROVE  IInv'
<1>q. PICK q : BeginRequest(c, q) /\ q = [Nothing(j) EXCEPT !.on = {j, e}, !.add = Attached(j, e, given)]
  BY DEF AttachEstimate
<1>1. /\ BeginRequest(c, q) /\ q.on = {j, e} /\ q.job = j
      /\ q.add = Attached(j, e, given) /\ q.del = {}
      /\ q.set = {} /\ q.to = NewRow
      /\ q.track = {} /\ q.untrack = {}
  BY <1>q DEF Nothing
<1>2. NewRow \in JobRow
  BY DEF NewRow, JobRow, RevenueMethods, JobStatuses
<1>3. q \in JobRequest
  BY <1>q, <1>2, AttachedRows DEF Nothing, JobRequest
<1>5. ASSUME j \notin raced
      PROVE  InOrder(j, LinksAfter(q), AliasesAfter(q), Assigned(job[j], q.set, q.to))
  <2> DEFINE l == [job |-> j, est |-> e, role |-> given]
             a == [job |-> j, system |-> LMN, ext |-> e]
  <2>1. \A r : r \in LinksAfter(q) <=> r \in links \/ r = l
    BY <1>1, AttachedRows DEF LinksAfter
  <2>2. \A r : r \in AliasesAfter(q) <=> r \in aliases \/ r = a
    BY <1>1, AttachedRows DEF AliasesAfter
  <2>3. Assigned(job[j], q.set, q.to) = job[j]
    BY <1>1, <1>2, AssignedType DEF IInv, Shapes
  <2>4. InOrder(j, links, aliases, job[j])
    BY <1>5 DEF IInv, JobsInOrder
  <2>5. job[j].method \in NoEstimateMethods => given = "ignored"
    BY DEF AttachEstimate, NoEstimateMethods
  <2>6. l.job = j /\ l.est = e /\ l.role = given
    OBVIOUS
  <2>7. \A x \in Estimate : [job |-> j, system |-> LMN, ext |-> x] = a <=> x = e
    OBVIOUS
  <2>8. a.system # QBO
    BY DEF LMN, QBO
  <2> HIDE DEF l, a
  <2>9. \A x \in Estimate : (\E m \in LinksAfter(q) : m.job = j /\ m.est = x)
                               <=> [job |-> j, system |-> LMN, ext |-> x] \in AliasesAfter(q)
    BY <2>1, <2>2, <2>4, <2>6, <2>7 DEF InOrder
  <2>10. job[j].method \in NoEstimateMethods =>
           \A m \in LinksAfter(q) : m.job = j => m.role = "ignored"
    BY <2>1, <2>4, <2>5, <2>6 DEF InOrder
  <2>11. job[j].customer # NoCustomer <=> \E b \in AliasesAfter(q) : b.job = j /\ b.system = QBO
    BY <2>2, <2>4, <2>8 DEF InOrder
  <2> QED BY <2>3, <2>9, <2>10, <2>11 DEF InOrder
<1>6. JobPart(q)
  BY <1>1, <1>5, AttachedRows DEF JobPart, AttachEstimate
<1>7. CustomerPart(q)
  BY <1>1, AttachedRows DEF CustomerPart, LMN, QBO
<1> QED BY <1>1, <1>3, <1>6, <1>7, RequestBegins DEF Pending

LEMMA DetachKeeps ==
  ASSUME IInv, NEW c \in Client, NEW j \in Job, NEW e \in Estimate, DetachEstimate(c, j, e)
  PROVE  IInv'
<1>0. PICK l \in LinksOf(j) :
        /\ l.est = e
        /\ l.role = "original" => LinksOf(j) = {l}
        /\ BeginRequest(c, [Nothing(j) EXCEPT
                !.on = {j, e},
                !.del = {l} \cup {a \in aliases : a.job = j /\ a.system = LMN /\ a.ext = e}])
  BY DEF DetachEstimate
<1> DEFINE gone == {l} \cup {a \in aliases : a.job = j /\ a.system = LMN /\ a.ext = e}
<1>g. gone \subseteq Link \cup Alias /\ l \in links /\ l.job = j
      /\ links \subseteq Link /\ aliases \subseteq Alias
  BY <1>0 DEF IInv, Shapes, LinksOf
<1>q. PICK q : BeginRequest(c, q) /\ q = [Nothing(j) EXCEPT !.on = {j, e}, !.del = gone]
  BY <1>0
<1>1. /\ BeginRequest(c, q) /\ q.on = {j, e} /\ q.job = j
      /\ q.add = {} /\ q.del = gone /\ q.set = {} /\ q.to = NewRow
      /\ q.track = {} /\ q.untrack = {}
  BY <1>q DEF Nothing
<1>2. NewRow \in JobRow
  BY DEF NewRow, JobRow, RevenueMethods, JobStatuses
<1>3. q \in JobRequest
  BY <1>q, <1>2, <1>g DEF JobRequest, Nothing
<1>5. ASSUME j \notin raced
      PROVE  InOrder(j, LinksAfter(q), AliasesAfter(q), Assigned(job[j], q.set, q.to))
  <2>1. \A r : r \in LinksAfter(q) <=> r \in links /\ r # l
    BY <1>1, <1>g, LinkIsLink DEF LinksAfter
  <2>2. \A r : r \in AliasesAfter(q) <=>
              r \in aliases /\ ~(r.job = j /\ r.system = LMN /\ r.ext = e)
    BY <1>1, <1>g, LinkIsLink DEF AliasesAfter
  <2>3. Assigned(job[j], q.set, q.to) = job[j]
    BY <1>1, <1>2, AssignedType DEF IInv, Shapes
  <2>4. InOrder(j, links, aliases, job[j])
    BY <1>5 DEF IInv, JobsInOrder
  <2>5. \A m \in links : m.est = e => m = l
    BY <1>0, <1>g DEF IInv, OneHome
  <2>6. ASSUME NEW x \in Estimate
        PROVE  (\E m \in LinksAfter(q) : m.job = j /\ m.est = x)
                 <=> [job |-> j, system |-> LMN, ext |-> x] \in AliasesAfter(q)
    <3> DEFINE a == [job |-> j, system |-> LMN, ext |-> x]
    <3>1. a.job = j /\ a.system = LMN /\ a.ext = x
      OBVIOUS
    <3>2. (\E m \in links : m.job = j /\ m.est = x) <=> a \in aliases
      BY <2>4 DEF InOrder
    <3> HIDE DEF a
    <3>3. CASE x = e
      BY <2>1, <2>2, <2>5, <3>1, <3>3
    <3>4. CASE x # e
      <4>1. a \in AliasesAfter(q) <=> a \in aliases
        BY <2>2, <3>1, <3>4
      <4>2. ASSUME NEW m, m.job = j, m.est = x PROVE m \in LinksAfter(q) <=> m \in links
        BY <1>0, <2>1, <3>4, <4>2
      <4>3. (\E m \in LinksAfter(q) : m.job = j /\ m.est = x)
               <=> (\E m \in links : m.job = j /\ m.est = x)
        BY <4>2
      <4> QED BY <3>2, <4>1, <4>3 DEF a
    <3> QED BY <3>3, <3>4 DEF a
  <2>7. \A b : b.system = QBO => (b \in AliasesAfter(q) <=> b \in aliases)
    BY <2>2 DEF LMN, QBO
  <2> QED BY <2>1, <2>3, <2>4, <2>6, <2>7 DEF InOrder
<1>6. JobPart(q)
  BY <1>1, <1>5, <1>g DEF JobPart, AddsPair
<1>7. CustomerPart(q)
  BY <1>1 DEF CustomerPart
<1> QED BY <1>1, <1>3, <1>6, <1>7, RequestBegins DEF Pending

LEMMA TrackKeeps ==
  ASSUME IInv, NEW c \in Client, NEW k \in Customer,
         TrackCustomer(c, k) \/ UntrackCustomer(c, k)
  PROVE  IInv'
<1> DEFINE j == AnyJob
<1>j. j \in Job
  BY JobsConstants DEF AnyJob
<1>q. PICK q : /\ BeginRequest(c, q)
               /\ \/ q = [Nothing(j) EXCEPT !.on = {k}, !.track = {k}]
                  \/ /\ q = [Nothing(j) EXCEPT !.on = {k}, !.untrack = {k}]
                     /\ \A a \in aliases : ~(a.system = QBO /\ a.ext = k)
  BY DEF TrackCustomer, UntrackCustomer
<1> HIDE DEF j
<1>1. /\ BeginRequest(c, q) /\ q.on = {k} /\ q.job = j
      /\ q.add = {} /\ q.del = {} /\ q.set = {} /\ q.to = NewRow
      /\ q.untrack \subseteq {k} /\ q.track \subseteq {k}
      /\ q.untrack # {} => \A a \in aliases : ~(a.system = QBO /\ a.ext = k)
  BY <1>q DEF Nothing
<1>2. NewRow \in JobRow
  BY DEF NewRow, JobRow, RevenueMethods, JobStatuses
<1>3. q \in JobRequest
  <2>1. CASE q = [Nothing(j) EXCEPT !.on = {k}, !.track = {k}]
    BY <2>1, <1>2, <1>j DEF JobRequest, Nothing
  <2>2. CASE q = [Nothing(j) EXCEPT !.on = {k}, !.untrack = {k}]
    BY <2>2, <1>2, <1>j DEF JobRequest, Nothing
  <2> QED BY <1>q, <2>1, <2>2
<1>5. ASSUME j \notin raced
      PROVE  InOrder(j, LinksAfter(q), AliasesAfter(q), Assigned(job[j], q.set, q.to))
  <2>1. LinksAfter(q) = links /\ AliasesAfter(q) = aliases
    BY <1>1 DEF LinksAfter, AliasesAfter
  <2>2. Assigned(job[j], q.set, q.to) = job[j]
    BY <1>1, <1>2, <1>j, AssignedType DEF IInv, Shapes
  <2> QED BY <1>5, <1>j, <2>1, <2>2 DEF IInv, JobsInOrder
<1>6. JobPart(q)
  BY <1>1, <1>5 DEF JobPart, AddsPair
<1>7. CustomerPart(q)
  BY <1>1 DEF CustomerPart
<1> QED BY <1>1, <1>3, <1>6, <1>7, RequestBegins DEF Pending

LEMMA LinkKeeps ==
  ASSUME IInv, NEW c \in Client, NEW j \in Job, NEW k \in Customer, NEW p \in BOOLEAN,
         LinkAlias(c, j, k, p)
  PROVE  IInv'
<1> DEFINE a == [job |-> j, system |-> QBO, ext |-> k]
           cols == When(job[j].customer = NoCustomer, "customer")
                     \cup When(p /\ job[j].status = "sold", "status")
           to == [NewRow EXCEPT !.customer = Parent[k], !.status = "in_progress"]
<1>a. a \in Alias /\ a.job = j /\ a.system = QBO /\ a.ext = k
  BY DEF Alias
<1>b. ~IsLink(a)
  BY <1>a, LinkIsLink
<1>t. /\ to \in JobRow /\ to.customer = Parent[k] /\ Parent[k] \in Customer
      /\ cols \subseteq Columns /\ "made" \notin cols /\ "method" \notin cols
      /\ "customer" \in cols <=> job[j].customer = NoCustomer
  BY JobsConstants DEF NewRow, JobRow, RevenueMethods, JobStatuses, When, Columns
<1>q. PICK q : /\ BeginRequest(c, q)
               /\ q = [Nothing(j) EXCEPT !.on = {j, k}, !.add = {a}, !.track = {k} \ tracked,
                                          !.set = cols, !.to = to]
  BY DEF LinkAlias
<1> HIDE DEF a, cols, to
<1>1. /\ BeginRequest(c, q) /\ q.on = {j, k} /\ q.job = j
      /\ q.add = {a} /\ q.del = {} /\ q.set = cols /\ q.to = to
      /\ q.track = {k} \ tracked /\ q.untrack = {}
  BY <1>q DEF Nothing
<1>3. q \in JobRequest
  BY <1>q, <1>a, <1>t DEF JobRequest, Nothing
<1>5. ASSUME j \notin raced
      PROVE  InOrder(j, LinksAfter(q), AliasesAfter(q), Assigned(job[j], q.set, q.to))
  <2>1. LinksAfter(q) = links /\ \A r : r \in AliasesAfter(q) <=> r \in aliases \/ r = a
    BY <1>1, <1>b DEF LinksAfter, AliasesAfter
  <2>2. InOrder(j, links, aliases, job[j])
    BY <1>5 DEF IInv, JobsInOrder
  <2>3. \A x \in Estimate : [job |-> j, system |-> LMN, ext |-> x] # a
    BY <1>a DEF LMN, QBO
  <2>4. Assigned(job[j], q.set, q.to).method = job[j].method
    BY <1>1, <1>t DEF Assigned
  <2>5. Assigned(job[j], q.set, q.to).customer # NoCustomer
    BY <1>1, <1>t, JobsConstants DEF Assigned
  <2> QED BY <1>a, <2>1, <2>2, <2>3, <2>4, <2>5 DEF InOrder
<1>6. JobPart(q)
  <2>1. AddsPair(q.add)
    BY <1>1, <1>a, <1>b DEF AddsPair, LMN, QBO
  <2> QED BY <1>1, <1>5, <1>a, <1>t, <2>1 DEF JobPart, LinkAlias
<1>7. CustomerPart(q)
  BY <1>1, <1>a, <1>b DEF CustomerPart
<1> QED BY <1>1, <1>3, <1>6, <1>7, RequestBegins DEF Pending

LEMMA UnlinkKeeps ==
  ASSUME IInv, NEW c \in Client, NEW j \in Job, NEW k \in Customer, UnlinkAlias(c, j, k)
  PROVE  IInv'
<1> DEFINE cols(a) == When(QboAliases(j) = {a}, "customer")
<1>0. PICK a \in QboAliases(j) :
        BeginRequest(c, [Nothing(j) EXCEPT !.on = {j, k}, !.del = {a}, !.set = cols(a)])
  BY DEF UnlinkAlias
<1>a. a \in Alias /\ a \in aliases /\ a.job = j /\ a.system = QBO /\ ~IsLink(a)
      /\ links \subseteq Link
  BY LinkIsLink DEF QboAliases, IInv, Shapes
<1>t. /\ cols(a) \subseteq Columns /\ "made" \notin cols(a) /\ "method" \notin cols(a)
      /\ "customer" \in cols(a) <=> QboAliases(j) = {a}
  BY DEF When, Columns
<1>q. PICK q : /\ BeginRequest(c, q)
               /\ q = [Nothing(j) EXCEPT !.on = {j, k}, !.del = {a}, !.set = cols(a)]
  BY <1>0
<1> HIDE DEF cols
<1>1. /\ BeginRequest(c, q) /\ q.on = {j, k} /\ q.job = j
      /\ q.add = {} /\ q.del = {a} /\ q.set = cols(a) /\ q.to = NewRow
      /\ q.track = {} /\ q.untrack = {}
  BY <1>q DEF Nothing
<1>2. NewRow \in JobRow /\ NewRow.customer = NoCustomer
  BY DEF NewRow, JobRow, RevenueMethods, JobStatuses
<1>3. q \in JobRequest
  BY <1>q, <1>2, <1>a, <1>t DEF JobRequest, Nothing
<1>5. ASSUME j \notin raced
      PROVE  InOrder(j, LinksAfter(q), AliasesAfter(q), Assigned(job[j], q.set, q.to))
  <2>1. LinksAfter(q) = links /\ \A r : r \in AliasesAfter(q) <=> r \in aliases /\ r # a
    BY <1>1, <1>a, LinkIsLink DEF LinksAfter, AliasesAfter
  <2>2. InOrder(j, links, aliases, job[j])
    BY <1>5 DEF IInv, JobsInOrder
  <2>3. \A x \in Estimate : [job |-> j, system |-> LMN, ext |-> x] # a
    BY <1>a DEF LMN, QBO
  <2>4. /\ Assigned(job[j], q.set, q.to).method = job[j].method
        /\ Assigned(job[j], q.set, q.to).customer =
              IF QboAliases(j) = {a} THEN NoCustomer ELSE job[j].customer
    BY <1>1, <1>2, <1>t DEF Assigned
  <2>5. QboAliases(j) = {a} <=> ~\E b \in AliasesAfter(q) : b.job = j /\ b.system = QBO
    BY <1>a, <2>1 DEF QboAliases
  <2>6. job[j].customer # NoCustomer
    BY <1>a, <2>2 DEF InOrder
  <2> QED BY <2>1, <2>2, <2>3, <2>4, <2>5, <2>6 DEF InOrder
<1>6. JobPart(q)
  BY <1>1, <1>5, <1>a, <1>t DEF JobPart, AddsPair
<1>7. CustomerPart(q)
  BY <1>1 DEF CustomerPart
<1> QED BY <1>1, <1>3, <1>6, <1>7, RequestBegins DEF Pending

-----------------------------------------------------------------------------
(* The theorems.                                                             *)

LEMMA IInvInitially == JobsInit => IInv
<1> SUFFICES ASSUME JobsInit PROVE IInv
  OBVIOUS
<1>1. NewRow \in JobRow /\ NewRow.customer = NoCustomer
  BY DEF NewRow, JobRow, RevenueMethods, JobStatuses
<1>2. Shapes
  BY <1>1 DEF JobsInit, Shapes
<1>3. JobsInOrder
  BY <1>1 DEF JobsInit, JobsInOrder, InOrder
<1> QED BY <1>2, <1>3 DEF JobsInit, IInv, OneHome, LinkedIsTracked

LEMMA IInvInductive == IInv /\ [JobsNext]_jobVars => IInv'
<1> SUFFICES ASSUME IInv, [JobsNext]_jobVars PROVE IInv'
  OBVIOUS
<1>e. ASSUME NEW p, Pending(p), UNCHANGED <<job, links, aliases, tracked, raced>>
      PROVE  Pending(p)'
  BY <1>e DEF Pending, JobPart, CustomerPart, LinksAfter, AliasesAfter
<1>1. ASSUME UNCHANGED <<job, links, aliases, tracked, request, raced>>,
             active' \subseteq Customer, sold' \subseteq Estimate
      PROVE  IInv'
  <2>1. Shapes' /\ OneHome' /\ JobsInOrder' /\ LinkedIsTracked'
    BY <1>1 DEF IInv, Shapes, OneHome, JobsInOrder, LinkedIsTracked
  <2>2. \A d \in Client : request'[d] # NoRequest => Pending(request[d])'
    <3> SUFFICES ASSUME NEW d \in Client, request'[d] # NoRequest PROVE Pending(request[d])'
      OBVIOUS
    <3>1. PICK p : p = request'[d] /\ p = request[d]
      BY <1>1
    <3> QED BY <1>1, <1>e, <3>1 DEF IInv
  <2> QED BY <2>1, <2>2 DEF IInv
<1>2. CASE \E e \in Estimate : EstimateStatusLoads(e)
  BY <1>1, <1>2 DEF EstimateStatusLoads, IInv, Shapes
<1>3. CASE \E k \in Customer : CustomerSyncs(k)
  BY <1>1, <1>3 DEF CustomerSyncs, IInv, Shapes
<1>4. ASSUME NEW c \in Client, NEW j \in Job, NEW m \in RevenueMethods, UpdateMethod(c, j, m)
      PROVE  IInv'
  <2>1. [NewRow EXCEPT !.method = m] \in JobRow /\ [NewRow EXCEPT !.method = m].method = m
    BY DEF NewRow, JobRow, RevenueMethods, JobStatuses
  <2> QED BY <1>4, <2>1, UpdateKeeps DEF UpdateMethod
<1>5. ASSUME NEW c \in Client, NEW j \in Job, NEW s \in JobStatuses, UpdateStatus(c, j, s)
      PROVE  IInv'
  <2>1. [NewRow EXCEPT !.status = s] \in JobRow
    BY DEF NewRow, JobRow, RevenueMethods, JobStatuses
  <2> QED BY <1>5, <2>1, UpdateKeeps DEF UpdateStatus
<1>6. CASE UNCHANGED jobVars
  <2>1. active' \subseteq Customer /\ sold' \subseteq Estimate
    BY <1>6 DEF jobVars, IInv, Shapes
  <2> QED BY <1>1, <1>6, <2>1 DEF jobVars
<1>7. ASSUME NEW c \in Client, NEW j \in Job, NEW m \in NoEstimateMethods, CreatePool(c, j, m)
      PROVE  IInv'
  BY <1>7, CreatePoolKeeps
<1>8. CASE EstimateSide
  BY <1>2, <1>4, <1>7, <1>8, CreateFromEstimateKeeps, AttachKeeps, DetachKeeps DEF EstimateSide
<1>9. CASE CustomerSide
  BY <1>3, <1>5, <1>7, <1>9, TrackKeeps, LinkKeeps, UnlinkKeeps DEF CustomerSide
<1> QED BY <1>6, <1>8, <1>9, CommitKeeps DEF JobsNext

\* Whatever attaches, detaches, creations and updates overlap, an estimate is on one
\* job, not on another than its outside id, and a job has one original; on a job on
\* which no two requests raced the estimates are the outside ids and what is attached
\* to a pool or a program is ignored (domain/jobs/service.py).
THEOREM EstimatesAreHome == JobsSpec => []EstimateHome
<1>1. IInv => EstimateHome
  <2> SUFFICES ASSUME IInv PROVE EstimateHome
    OBVIOUS
  <2>1. JobsTypeOK
    BY DEF IInv, Shapes, Pending, JobsTypeOK
  <2>2. AliasFollowsEstimate
    BY DEF IInv, JobsInOrder, InOrder, AliasFollowsEstimate
  <2>3. ASSUME NEW l \in links, l.job \notin raced, job[l.job].method \in NoEstimateMethods
        PROVE  l.role = "ignored"
    <3>1. l.job \in Job
      BY LinkIsLink DEF IInv, Shapes
    <3> QED BY <2>3, <3>1 DEF IInv, JobsInOrder, InOrder
  <2> QED BY <2>1, <2>2, <2>3 DEF IInv, EstimateHome, ProgramsCountNothing
<1> QED BY <1>1, IInvInitially, IInvInductive, PTL DEF JobsSpec

\* Whatever links, unlinks, tracks and untracks come, a job's customer is set exactly
\* while it is linked to one, and a linked row is tracked, apart from the jobs and rows
\* on which two requests raced (link_alias, unlink_alias, untrack).
THEOREM CustomersFollowLinks == JobsSpec => []CustomerLinks
<1>1. IInv => CustomerLinks
  BY DEF IInv, JobsInOrder, InOrder, CustomerLinks, CustomerFollowsLinks, QboAliases
<1> QED BY <1>1, IInvInitially, IInvInductive, PTL DEF JobsSpec

-----------------------------------------------------------------------------
(* The versions of an estimate. *)

Statuses == {"none", "pending", "sold"}
Uploaded == [status : Statuses, areas : Nat, sheet : Sheet \cup {None}, uploads : Nat]
AreaRows == UNION {[S -> AreaRow] : S \in {T \in SUBSET Order : IsFiniteSet(T)}}
VersionRow == [areas : Nat, status : Statuses, rows : AreaRows, baseline : BOOLEAN]
ApprovalEvent == [order : Order, action : {"approved", "withdrawn"}, version : Nat,
                  name : STRING, price : Nat]
KindAsk == [do : {"kind"}, version : Nat,
            kinds : UNION {[S -> {"original", "change_order"}] : S \in SUBSET Order}]
EventAsk == [do : {"event"}, event : ApprovalEvent]

\* What was uploaded has a sheet once it has work areas.
SheetThere(r) == r.areas <= r.uploads /\ (r.areas # 0 => r.sheet \in Sheet)

EstShapes ==
  /\ raw \in Uploaded /\ SheetThere(raw) /\ raw.uploads <= MaxUploads
  /\ est \in [status : Statuses, applied : Nat]
  /\ versions \in Seq(VersionRow)
  /\ load \in [raw : Uploaded, previous : AreaRows] \cup {None}
  /\ load # None => SheetThere(load.raw)
  /\ role \in {"none", "original", "change_order"}
  /\ events \in Seq(ApprovalEvent)
  /\ pending \in [Person -> KindAsk \cup EventAsk \cup {None}]

\* An approval, or its withdrawal, is of a kept work area as its version has it.
EventFits(e) ==
  /\ e.version \in WithAreas /\ e.order \in DOMAIN versions[e.version].rows
  /\ versions[e.version].rows[e.order].kept
  /\ versions[e.version].rows[e.order].name = e.name
  /\ versions[e.version].rows[e.order].price = e.price

AsksFit ==
  /\ \A i \in DOMAIN events : EventFits(events[i])
  /\ \A c \in Person : pending[c] # None =>
       IF pending[c].do = "kind" THEN pending[c].version \in WithAreas
       ELSE EventFits(pending[c].event)

\* A version with the work areas of an upload has its numbers.
FromSheet(n, r) ==
  versions[n].areas = r.areas /\ r.areas # 0 => DOMAIN versions[n].rows = DOMAIN r.sheet

\* Versions come from uploads, no more than were read; a load is of an earlier upload
\* or the latest.
HistoryFits ==
  /\ est.applied <= raw.uploads /\ Len(versions) <= est.applied
  /\ load # None =>
       /\ est.applied < load.raw.uploads /\ load.raw.uploads <= raw.uploads
       /\ load.raw.uploads = raw.uploads => load.raw = raw
       /\ load.raw.areas <= raw.areas
       /\ load.raw.areas = raw.areas => load.raw.sheet = raw.sheet
       /\ \A n \in DOMAIN versions : FromSheet(n, load.raw)
  /\ Len(events) <= MaxEvents
  /\ \A n \in DOMAIN versions :
       /\ versions[n].areas <= raw.areas /\ FromSheet(n, raw)
       /\ versions[n].areas = 0 <=> DOMAIN versions[n].rows = {}

OneBaseline == \A b, c \in Baseline : b = c
BaselinePlaced ==
  /\ \A b \in Baseline :
       /\ b \in WithAreas
       /\ \/ versions[b].status = "sold"
          \/ \E n \in DOMAIN versions : n > b /\ versions[n].status = "sold"
                                        /\ versions[n].areas = versions[b].areas
       /\ \A n \in WithAreas : n < b => versions[n].status # "sold"
  /\ Baseline = {} => \A n \in DOMAIN versions : versions[n].status = "sold" => n \notin WithAreas

EstInv ==
  /\ EstShapes /\ AsksFit /\ HistoryFits
  /\ OneBaseline /\ BaselinePlaced /\ NewOrdersSuggested /\ LatestShowsUploads

-----------------------------------------------------------------------------
(* The operators. *)

\* A set of natural numbers has a least element.
LEMMA LeastOfSome ==
  ASSUME NEW S, S \subseteq Nat, S # {}
  PROVE  Min(S) \in S /\ \A y \in S : Min(S) <= y
<1>1. PICK x \in S : \A y \in S : ~(<<y, x>> \in OpToRel(<, Nat))
  BY NatLessThanWellFounded, WFMin
<1>2. \A y \in S : x \in Nat /\ y \in Nat
  OBVIOUS
<1>3. \A y \in S : ~(y < x)
  BY <1>1, <1>2, Zenon DEF OpToRel
<1>4. \A y \in S : x <= y
  BY <1>2, <1>3
<1> QED BY <1>4 DEF Min

\* A bounded one has a greatest.
LEMMA GreatestOfSome ==
  ASSUME NEW n \in Nat, NEW S, S \subseteq 1..n, S # {}
  PROVE  Max(S) \in S /\ \A y \in S : y <= Max(S)
<1> DEFINE D == {n - x : x \in S}
<1>1. D \subseteq Nat /\ D # {}
  <2>1. \A x \in S : x \in 1..n /\ n - x \in Nat
    OBVIOUS
  <2> QED BY <2>1
<1>2. PICK m \in D : \A y \in D : m <= y
  BY <1>1, LeastOfSome
<1>3. PICK x \in S : m = n - x
  OBVIOUS
<1>4. ASSUME NEW y \in S PROVE x >= y
  <2>1. n - y \in D /\ m <= n - y
    BY <1>2
  <2> QED BY <1>3, <2>1
<1> HIDE DEF D
<1>5. \E z \in S : \A y \in S : z >= y
  BY <1>4
<1>6. Max(S) \in S /\ \A y \in S : Max(S) >= y
  BY <1>5 DEF Max
<1>7. \A y \in S : y \in Int
  OBVIOUS
<1> QED BY <1>6, <1>7

\* The rows of a version.
LEMMA VersionIs ==
  ASSUME EstShapes, NEW n \in DOMAIN versions
  PROVE  /\ n \in 1..Len(versions) /\ versions[n] \in VersionRow /\ versions[n].rows \in AreaRows
         /\ versions[n].areas \in Nat /\ versions[n].status \in Statuses
         /\ \A o \in DOMAIN versions[n].rows : o \in Order /\ versions[n].rows[o] \in AreaRow
<1>1. versions \in Seq(VersionRow)
  BY DEF EstShapes
<1>2. n \in 1..Len(versions) /\ versions[n] \in VersionRow
  BY <1>1
<1>3. versions[n].rows \in AreaRows /\ versions[n].areas \in Nat /\ versions[n].status \in Statuses
  BY <1>2 DEF VersionRow
<1> QED BY <1>2, <1>3 DEF AreaRows

\* The version whose work areas are shown is the latest that has any.
LEMMA LatestIs ==
  ASSUME EstShapes
  PROVE  /\ WithAreas \subseteq 1..Len(versions) /\ Len(versions) \in Nat
         /\ WithAreas # {} => LatestAreas \in WithAreas /\ \A n \in WithAreas : n <= LatestAreas
<1>1. versions \in Seq(VersionRow)
  BY DEF EstShapes
<1>2. WithAreas \subseteq 1..Len(versions) /\ Len(versions) \in Nat
  BY <1>1 DEF WithAreas
<1> QED BY <1>2, GreatestOfSome DEF LatestAreas

\* Writing kinds changes nothing else of the rows.
LEMMA SetKindsIs ==
  ASSUME NEW rows \in AreaRows,
         NEW kinds \in UNION {[S -> {"original", "change_order"}] : S \in SUBSET Order}
  PROVE  /\ SetKinds(rows, kinds) \in AreaRows /\ DOMAIN SetKinds(rows, kinds) = DOMAIN rows
         /\ \A o \in DOMAIN rows :
              /\ SetKinds(rows, kinds)[o].name = rows[o].name
              /\ SetKinds(rows, kinds)[o].kept = rows[o].kept
              /\ SetKinds(rows, kinds)[o].price = rows[o].price
              /\ SetKinds(rows, kinds)[o].suggested = rows[o].suggested
<1>1. PICK S \in SUBSET Order : rows \in [S -> AreaRow] /\ IsFiniteSet(S)
  BY DEF AreaRows
<1>2. ASSUME NEW o \in S
      PROVE  /\ SetKinds(rows, kinds)[o] \in AreaRow
             /\ SetKinds(rows, kinds)[o].name = rows[o].name
             /\ SetKinds(rows, kinds)[o].kept = rows[o].kept
             /\ SetKinds(rows, kinds)[o].price = rows[o].price
             /\ SetKinds(rows, kinds)[o].suggested = rows[o].suggested
  <2>1. rows[o] \in AreaRow /\ o \in DOMAIN rows
    BY <1>1
  <2>2. CASE o \in DOMAIN kinds
    <3>1. SetKinds(rows, kinds)[o] = [rows[o] EXCEPT !.kind = kinds[o]]
      BY <2>1, <2>2 DEF SetKinds
    <3>2. kinds[o] \in {"original", "change_order"}
      BY <2>2
    <3> QED BY <2>1, <3>1, <3>2 DEF AreaRow
  <2>3. CASE o \notin DOMAIN kinds
    BY <2>1, <2>3 DEF SetKinds
  <2> QED BY <2>2, <2>3
<1>3. DOMAIN SetKinds(rows, kinds) = S /\ DOMAIN rows = S
  BY <1>1 DEF SetKinds
<1>4. SetKinds(rows, kinds) \in [S -> AreaRow]
  <2>1. SetKinds(rows, kinds) = [o \in S |-> SetKinds(rows, kinds)[o]]
    BY <1>3 DEF SetKinds
  <2> QED BY <1>2, <2>1
<1> QED BY <1>1, <1>2, <1>3, <1>4 DEF AreaRows

\* The rows of a new version are those of its sheet.
LEMMA RowsAre ==
  ASSUME NEW sheet \in Sheet, NEW base, NEW previous \in AreaRows
  PROVE  /\ Rows(sheet, base, previous) \in AreaRows
         /\ DOMAIN Rows(sheet, base, previous) = DOMAIN sheet
         /\ \A o \in DOMAIN sheet :
              /\ Rows(sheet, base, previous)[o].kept = sheet[o].kept
              /\ Rows(sheet, base, previous)[o].suggested <=> Suggested(o, sheet, base)
<1>1. /\ DOMAIN sheet \in SUBSET Order /\ IsFiniteSet(DOMAIN sheet)
      /\ \A o \in DOMAIN sheet : sheet[o].name \in STRING /\ sheet[o].kept \in BOOLEAN
                                 /\ sheet[o].price \in Nat
  BY EstimateConstants
<1>2. \A o \in DOMAIN sheet : Suggested(o, sheet, base) \in BOOLEAN
  BY DEF Suggested
<1>3. \A o \in DOMAIN sheet : Carried(o, sheet, previous) \in {"none", "original", "change_order"}
  BY DEF Carried, AreaRows, AreaRow
<1>4. Rows(sheet, base, previous) =
        [o \in DOMAIN sheet |->
           [name |-> sheet[o].name, kept |-> sheet[o].kept, price |-> sheet[o].price,
            suggested |-> Suggested(o, sheet, base), kind |-> Carried(o, sheet, previous)]]
  BY DEF Rows
<1>5. \A o \in DOMAIN sheet :
        [name |-> sheet[o].name, kept |-> sheet[o].kept, price |-> sheet[o].price,
         suggested |-> Suggested(o, sheet, base), kind |-> Carried(o, sheet, previous)] \in AreaRow
  BY <1>1, <1>2, <1>3 DEF AreaRow
<1>6. Rows(sheet, base, previous) \in [DOMAIN sheet -> AreaRow]
  BY <1>4, <1>5
<1> QED BY <1>1, <1>4, <1>6 DEF AreaRows

-----------------------------------------------------------------------------
(* A version is made. *)

\* The rows a load gives a version.
RowsOfLoad(r, rows) ==
  /\ rows \in AreaRows
  /\ r.areas = 0 => rows = NoRows
  /\ r.areas # 0 =>
       /\ DOMAIN rows = DOMAIN r.sheet
       /\ \A o \in DOMAIN rows :
            /\ rows[o].kept = r.sheet[o].kept
            /\ Baseline # {} =>
                 (rows[o].suggested <=> Suggested(o, r.sheet, versions[Max(Baseline)].rows))

\* One version more; the b-th becomes the baseline.
VersionAdded(r, rows, b) ==
  /\ versions' \in Seq(VersionRow) /\ Len(versions') = Len(versions) + 1
  /\ \A k \in 1..Len(versions) :
       /\ versions'[k].areas = versions[k].areas /\ versions'[k].status = versions[k].status
       /\ versions'[k].rows = versions[k].rows
       /\ versions'[k].baseline <=> (versions[k].baseline \/ b = k)
  /\ versions'[Len(versions) + 1].areas = r.areas
  /\ versions'[Len(versions) + 1].status = r.status
  /\ versions'[Len(versions) + 1].rows = rows
  /\ versions'[Len(versions) + 1].baseline <=> (b = Len(versions) + 1)

LEMMA NoRowsIs == NoRows \in AreaRows /\ DOMAIN NoRows = {}
<1>1. {} \in SUBSET Order /\ NoRows \in [{} -> AreaRow] /\ DOMAIN NoRows = {} /\ IsFiniteSet({})
  BY FS_EmptySet DEF NoRows
<1> QED BY <1>1 DEF AreaRows

\* A function of an empty domain is the one without rows.
LEMMA EmptyIsNoRows == ASSUME NEW rows \in AreaRows, DOMAIN rows = {} PROVE rows = NoRows
BY DEF AreaRows, NoRows

LEMMA MadeVersionAdds ==
  ASSUME EstShapes, NEW r \in Uploaded, SheetThere(r), NEW previous \in AreaRows,
         versions' = MadeVersion(r, previous)
  PROVE  \E rows \in AreaRows : /\ RowsOfLoad(r, rows)
                                /\ VersionAdded(r, rows, NewBaseline(r, rows, Len(versions) + 1))
<1>1. PICK base : base = IF Baseline = {} THEN NoRows ELSE versions[Max(Baseline)].rows
  OBVIOUS
<1>2. PICK rows : rows = IF r.areas = 0 THEN NoRows
                         ELSE Rows(r.sheet, IF Baseline = {} THEN r.sheet ELSE base, previous)
  OBVIOUS
<1>3. PICK b : b = NewBaseline(r, rows, Len(versions) + 1)
  OBVIOUS
<1>4. RowsOfLoad(r, rows)
  <2>1. CASE r.areas = 0
    BY <1>2, <2>1, NoRowsIs DEF RowsOfLoad
  <2>2. CASE r.areas # 0
    <3>1. r.sheet \in Sheet
      BY <2>2 DEF SheetThere
    <3>2. CASE Baseline = {}
      <4>1. rows = Rows(r.sheet, r.sheet, previous)
        BY <1>2, <2>2, <3>2
      <4> QED BY <2>2, <3>1, <3>2, <4>1, RowsAre DEF RowsOfLoad
    <3>3. CASE Baseline # {}
      <4>1. rows = Rows(r.sheet, versions[Max(Baseline)].rows, previous)
        BY <1>1, <1>2, <2>2, <3>3
      <4> QED BY <2>2, <3>1, <4>1, RowsAre DEF RowsOfLoad
    <3> QED BY <3>2, <3>3
  <2> QED BY <2>1, <2>2
<1>5. PICK old : old = [k \in DOMAIN versions |->
                          [versions[k] EXCEPT !.baseline = @ \/ b = k]]
  OBVIOUS
<1>6. PICK new : new = [areas |-> r.areas, status |-> r.status, rows |-> rows,
                        baseline |-> b = Len(versions) + 1]
  OBVIOUS
<1>7. versions' = Append(old, new)
  BY <1>1, <1>2, <1>3, <1>5, <1>6, Zenon DEF MadeVersion
<1>8. versions \in Seq(VersionRow) /\ Len(versions) \in Nat /\ DOMAIN versions = 1..Len(versions)
  BY DEF EstShapes
<1>9. new \in VersionRow /\ new.areas = r.areas /\ new.status = r.status /\ new.rows = rows
      /\ (new.baseline <=> b = Len(versions) + 1)
  <2>1. rows \in AreaRows /\ r.areas \in Nat /\ r.status \in Statuses
    BY <1>4 DEF RowsOfLoad, Uploaded
  <2> QED BY <1>6, <2>1 DEF VersionRow
<1>10. \A k \in 1..Len(versions) :
         /\ old[k] \in VersionRow
         /\ old[k].areas = versions[k].areas /\ old[k].status = versions[k].status
         /\ old[k].rows = versions[k].rows
         /\ old[k].baseline <=> (versions[k].baseline \/ b = k)
  <2> SUFFICES ASSUME NEW k \in 1..Len(versions)
               PROVE  /\ old[k] \in VersionRow
                      /\ old[k].areas = versions[k].areas /\ old[k].status = versions[k].status
                      /\ old[k].rows = versions[k].rows
                      /\ old[k].baseline <=> (versions[k].baseline \/ b = k)
    OBVIOUS
  <2>1. PICK v : v = versions[k]
    OBVIOUS
  <2>2. v \in VersionRow
    BY <1>8, <2>1
  <2>3. old[k] = [v EXCEPT !.baseline = v.baseline \/ b = k]
    BY <1>5, <1>8, <2>1
  <2>4. PICK x \in BOOLEAN : x <=> (v.baseline \/ b = k)
    OBVIOUS
  <2>5. (v.baseline \/ b = k) = x
    BY <2>4
  <2>6. old[k] = [v EXCEPT !.baseline = x]
    BY <2>3, <2>5
  <2> QED BY <2>1, <2>2, <2>4, <2>6 DEF VersionRow
<1>11. old \in Seq(VersionRow) /\ Len(old) = Len(versions)
  <2>1. old \in [1..Len(versions) -> VersionRow]
    BY <1>5, <1>8, <1>10
  <2> QED BY <1>8, <2>1
<1>12. /\ versions' \in Seq(VersionRow) /\ Len(versions') = Len(versions) + 1
       /\ \A k \in 1..Len(versions) : versions'[k] = old[k]
       /\ versions'[Len(versions) + 1] = new
  BY <1>7, <1>8, <1>9, <1>11
<1>13. VersionAdded(r, rows, b)
  BY <1>9, <1>10, <1>12 DEF VersionAdded
<1> QED BY <1>3, <1>4, <1>13 DEF RowsOfLoad

-----------------------------------------------------------------------------
(* What later versions and confirmed kinds leave alone. *)

SameVersion(v, w) ==
  /\ w.areas = v.areas /\ w.status = v.status /\ DOMAIN w.rows = DOMAIN v.rows
  /\ \A o \in DOMAIN v.rows :
       /\ w.rows[o].name = v.rows[o].name /\ w.rows[o].kept = v.rows[o].kept
       /\ w.rows[o].price = v.rows[o].price /\ w.rows[o].suggested = v.rows[o].suggested

VersionsGrow ==
  /\ versions' \in Seq(VersionRow) /\ Len(versions) <= Len(versions')
  /\ \A n \in 1..Len(versions) : SameVersion(versions[n], versions'[n])

EventsGrow == \A i \in DOMAIN events : i \in DOMAIN events' /\ events'[i] = events[i]

VersionsStay ==
  /\ VersionsGrow /\ Len(versions') = Len(versions)
  /\ \A n \in 1..Len(versions) : versions'[n].baseline <=> versions[n].baseline

LEMMA UnchangedStays == ASSUME EstShapes, versions' = versions PROVE VersionsStay
<1>1. versions \in Seq(VersionRow) /\ Len(versions) \in Nat
  BY DEF EstShapes
<1> QED BY <1>1 DEF VersionsStay, VersionsGrow, SameVersion

LEMMA GrowKeeps ==
  ASSUME EstShapes, VersionsGrow
  PROVE  /\ \A n \in WithAreas : n \in WithAreas'
         /\ \A e : EventFits(e) => EventFits(e)'
         /\ \A e : Broken(e) => Broken(e)'
<1>1. /\ versions \in Seq(VersionRow) /\ versions' \in Seq(VersionRow)
      /\ Len(versions) \in Nat /\ Len(versions') \in Nat /\ Len(versions) <= Len(versions')
      /\ DOMAIN versions = 1..Len(versions) /\ DOMAIN versions' = 1..Len(versions')
  BY DEF EstShapes, VersionsGrow
<1>2. \A n \in DOMAIN versions : n \in DOMAIN versions' /\ SameVersion(versions[n], versions'[n])
  BY <1>1 DEF VersionsGrow
<1>3. \A n \in WithAreas : n \in WithAreas'
  BY <1>2 DEF WithAreas, SameVersion
<1>4. ASSUME NEW e, EventFits(e) PROVE EventFits(e)'
  <2>1. e.version \in WithAreas' /\ e.version \in DOMAIN versions
    BY <1>3, <1>4 DEF EventFits, WithAreas
  <2> QED BY <1>2, <1>4, <2>1 DEF EventFits, SameVersion
<1>5. ASSUME NEW e, Broken(e) PROVE Broken(e)'
  <2>1. PICK n \in WithAreas : n > e.version /\ Breaks(e, n)
    BY <1>5 DEF Broken, Later
  <2>2. n \in WithAreas' /\ SameVersion(versions[n], versions'[n])
    BY <1>2, <1>3 DEF WithAreas
  <2>3. Breaks(e, n)'
    BY <2>1, <2>2 DEF Breaks, SameVersion
  <2> QED BY <2>1, <2>2, <2>3 DEF Broken, Later
<1> QED BY <1>3, <1>4, <1>5

LEMMA StayKeeps ==
  ASSUME EstInv, VersionsStay
  PROVE  /\ OneBaseline' /\ BaselinePlaced' /\ NewOrdersSuggested'
         /\ \A n \in DOMAIN versions' :
              /\ n \in DOMAIN versions /\ versions'[n].areas = versions[n].areas
              /\ DOMAIN versions'[n].rows = DOMAIN versions[n].rows
<1>1. /\ versions \in Seq(VersionRow) /\ versions' \in Seq(VersionRow)
      /\ Len(versions) \in Nat /\ Len(versions') = Len(versions)
      /\ DOMAIN versions = 1..Len(versions) /\ DOMAIN versions' = DOMAIN versions
  BY DEF EstInv, EstShapes, VersionsStay, VersionsGrow
<1>2. \A n \in DOMAIN versions : /\ SameVersion(versions[n], versions'[n])
                                 /\ versions'[n].baseline <=> versions[n].baseline
  BY <1>1 DEF VersionsStay, VersionsGrow
<1>3. Baseline' = Baseline /\ WithAreas' = WithAreas
  BY <1>1, <1>2 DEF Baseline, WithAreas, SameVersion
<1>4. OneBaseline'
  BY <1>3 DEF EstInv, OneBaseline
<1>5. \A n \in DOMAIN versions : versions'[n].areas = versions[n].areas
                                 /\ versions'[n].status = versions[n].status
                                 /\ DOMAIN versions'[n].rows = DOMAIN versions[n].rows
  BY <1>2 DEF SameVersion
<1>6. Baseline \subseteq DOMAIN versions /\ WithAreas \subseteq DOMAIN versions
  BY DEF Baseline, WithAreas
<1>7. BaselinePlaced'
  BY <1>1, <1>3, <1>5, <1>6 DEF EstInv, BaselinePlaced
<1>8. NewOrdersSuggested'
  <2> SUFFICES ASSUME NEW b \in Baseline, NEW n \in DOMAIN versions, n > b,
                      NEW o \in NewOrders(versions'[b].rows, versions'[n].rows)
               PROVE  versions'[n].rows[o].suggested
    BY <1>1, <1>3 DEF NewOrdersSuggested
  <2>1. SameVersion(versions[b], versions'[b]) /\ SameVersion(versions[n], versions'[n])
    BY <1>2, <1>6
  <2>2. o \in NewOrders(versions[b].rows, versions[n].rows) /\ o \in DOMAIN versions[n].rows
    BY <2>1 DEF NewOrders, SameVersion
  <2>3. versions[n].rows[o].suggested
    BY <2>2 DEF EstInv, NewOrdersSuggested
  <2> QED BY <2>1, <2>2, <2>3 DEF SameVersion
<1> QED BY <1>1, <1>4, <1>5, <1>7, <1>8

\* The events and the requests under way.
LEMMA AsksStay ==
  ASSUME EstInv, VersionsGrow, UNCHANGED <<events, pending>>
  PROVE  AsksFit'
<1>1. ASSUME NEW i \in DOMAIN events PROVE EventFits(events[i])'
  <2>1. PICK e : e = events[i] /\ e = events'[i]
    OBVIOUS
  <2>2. EventFits(e)
    BY <2>1 DEF EstInv, AsksFit
  <2> QED BY <2>1, <2>2, GrowKeeps DEF EstInv
<1>2. ASSUME NEW c \in Person, pending[c] # None
      PROVE  IF pending[c].do = "kind" THEN pending[c].version \in WithAreas'
             ELSE EventFits(pending[c].event)'
  <2>1. PICK q : q = pending[c] /\ q = pending'[c]
    OBVIOUS
  <2>2. IF q.do = "kind" THEN q.version \in WithAreas ELSE EventFits(q.event)
    BY <1>2, <2>1 DEF EstInv, AsksFit
  <2>3. IF q.do = "kind" THEN q.version \in WithAreas' ELSE EventFits(q.event)'
    BY <2>2, GrowKeeps DEF EstInv
  <2> QED BY <2>1, <2>3
<1> QED BY <1>1, <1>2 DEF AsksFit

-----------------------------------------------------------------------------
(* Uploads and the reads of the normalizer. *)

LEMMA UploadKeeps ==
  ASSUME EstInv,
         \/ \E s \in {"pending", "sold"} : UploadHeader(s)
         \/ \E s \in Sheet : UploadAreas(s)
  PROVE  EstInv'
<1>1. /\ raw \in Uploaded /\ SheetThere(raw) /\ raw.uploads \in Nat /\ raw.areas \in Nat
      /\ raw.uploads < MaxUploads /\ MaxUploads \in Nat
  BY EstimateConstants DEF EstInv, EstShapes, Uploaded, UploadHeader, UploadAreas
<1>2. UNCHANGED <<est, versions, load, role, events, pending>>
  BY DEF UploadHeader, UploadAreas
<1>3. /\ raw' \in Uploaded /\ SheetThere(raw') /\ raw'.uploads = raw.uploads + 1
      /\ \/ raw'.areas = raw.areas /\ raw'.sheet = raw.sheet
         \/ raw'.areas = raw.uploads + 1
  <2>1. CASE \E s \in {"pending", "sold"} : UploadHeader(s)
    <3>1. PICK s \in {"pending", "sold"} : raw' = [raw EXCEPT !.status = s, !.uploads = @ + 1]
      BY <2>1 DEF UploadHeader
    <3>2. raw' = [status |-> s, areas |-> raw.areas, sheet |-> raw.sheet,
                  uploads |-> raw.uploads + 1]
      BY <1>1, <3>1 DEF Uploaded
    <3>3. raw.sheet \in Sheet \cup {None} /\ s \in Statuses /\ raw.uploads + 1 \in Nat
          /\ raw.areas <= raw.uploads + 1 /\ (raw.areas # 0 => raw.sheet \in Sheet)
      BY <1>1 DEF Uploaded, SheetThere, Statuses
    <3>4. raw' \in Uploaded
      BY <1>1, <3>2, <3>3 DEF Uploaded
    <3> QED BY <3>2, <3>3, <3>4 DEF SheetThere
  <2>2. CASE \E s \in Sheet : UploadAreas(s)
    <3>1. PICK s \in Sheet : raw' = [raw EXCEPT !.sheet = s, !.areas = raw.uploads + 1, !.uploads = @ + 1]
      BY <2>2 DEF UploadAreas
    <3>2. raw' = [status |-> raw.status, areas |-> raw.uploads + 1, sheet |-> s,
                  uploads |-> raw.uploads + 1]
      BY <1>1, <3>1 DEF Uploaded
    <3>3. raw.status \in Statuses /\ raw.uploads + 1 \in Nat /\ raw.uploads + 1 <= raw.uploads + 1
      BY <1>1 DEF Uploaded
    <3>4. raw' \in Uploaded
      BY <3>2, <3>3 DEF Uploaded
    <3> QED BY <3>2, <3>3, <3>4 DEF SheetThere
  <2> QED BY <2>1, <2>2
<1>4. VersionsStay /\ VersionsGrow
  BY <1>2, UnchangedStays DEF EstInv, VersionsStay
<1>5. OneBaseline' /\ BaselinePlaced' /\ NewOrdersSuggested' /\ AsksFit'
  BY <1>2, <1>4, StayKeeps, AsksStay
<1>6. EstShapes'
  BY <1>1, <1>2, <1>3 DEF EstInv, EstShapes
<1>7. raw.areas <= raw.uploads /\ raw'.areas \in Nat
  BY <1>1, <1>3 DEF SheetThere, Uploaded
<1>8. ASSUME NEW n \in DOMAIN versions
      PROVE  versions[n].areas <= raw'.areas /\ FromSheet(n, raw)'
  <2>1. versions[n].areas \in Nat /\ versions[n].areas <= raw.areas /\ FromSheet(n, raw)
    BY VersionIs DEF EstInv, HistoryFits
  <2>2. CASE raw'.areas = raw.areas /\ raw'.sheet = raw.sheet
    BY <1>2, <2>1, <2>2 DEF FromSheet
  <2>3. CASE raw'.areas = raw.uploads + 1
    <3>1. versions'[n].areas # raw'.areas /\ versions[n].areas <= raw'.areas
      BY <1>1, <1>2, <1>7, <2>1, <2>3
    <3> QED BY <3>1 DEF FromSheet
  <2> QED BY <1>3, <2>2, <2>3
<1>9. load # None =>
        /\ est.applied < load.raw.uploads /\ load.raw.uploads <= raw'.uploads
        /\ load.raw.uploads # raw'.uploads
        /\ load.raw.areas <= raw'.areas
        /\ load.raw.areas = raw'.areas => load.raw.sheet = raw'.sheet
        /\ \A n \in DOMAIN versions : FromSheet(n, load.raw)
  <2> SUFFICES ASSUME load # None
               PROVE  /\ est.applied < load.raw.uploads /\ load.raw.uploads <= raw'.uploads
                      /\ load.raw.uploads # raw'.uploads
                      /\ load.raw.areas <= raw'.areas
                      /\ load.raw.areas = raw'.areas => load.raw.sheet = raw'.sheet
                      /\ \A n \in DOMAIN versions : FromSheet(n, load.raw)
    OBVIOUS
  <2>1. load.raw.uploads \in Nat /\ load.raw.areas \in Nat
    BY DEF EstInv, EstShapes, Uploaded
  <2>2. /\ est.applied < load.raw.uploads /\ load.raw.uploads <= raw.uploads
        /\ load.raw.areas <= raw.areas
        /\ load.raw.areas = raw.areas => load.raw.sheet = raw.sheet
        /\ \A n \in DOMAIN versions : FromSheet(n, load.raw)
    BY DEF EstInv, HistoryFits
  <2> QED BY <1>1, <1>3, <1>7, <2>1, <2>2
<1>10. est.applied \in Nat /\ est.applied <= raw.uploads
  BY DEF EstInv, EstShapes, HistoryFits
<1>11. est'.applied <= raw'.uploads /\ est'.applied # raw'.uploads
  BY <1>1, <1>2, <1>3, <1>10
<1>12. HistoryFits'
  <2>1. \A n \in DOMAIN versions : versions[n].areas = 0 <=> DOMAIN versions[n].rows = {}
    BY DEF EstInv, HistoryFits
  <2>2. Len(versions) <= est.applied /\ Len(events) <= MaxEvents
    BY DEF EstInv, HistoryFits
  <2> QED BY <1>2, <1>8, <1>9, <1>11, <2>1, <2>2 DEF HistoryFits, FromSheet
<1>13. LatestShowsUploads'
  BY <1>11 DEF LatestShowsUploads
<1> QED BY <1>5, <1>6, <1>12, <1>13 DEF EstInv

LEMMA NormalizeReadKeeps == ASSUME EstInv, NormalizeRead PROVE EstInv'
<1>1. /\ UNCHANGED <<raw, est, versions, role, events, pending>>
      /\ est.applied < raw.uploads
      /\ load' = [raw |-> raw, previous |-> IF WithAreas = {} THEN NoRows ELSE Shown]
  BY DEF NormalizeRead
<1>2. (IF WithAreas = {} THEN NoRows ELSE Shown) \in AreaRows
  <2>1. CASE WithAreas = {}
    BY <2>1, NoRowsIs
  <2>2. CASE WithAreas # {}
    <3>1. LatestAreas \in DOMAIN versions
      BY <2>2, LatestIs DEF EstInv, WithAreas
    <3> QED BY <2>2, <3>1, VersionIs DEF EstInv, Shown
  <2> QED BY <2>1, <2>2
<1>3. load' \in [raw : Uploaded, previous : AreaRows] /\ load'.raw = raw
  BY <1>1, <1>2 DEF EstInv, EstShapes
<1>4. EstShapes'
  BY <1>1, <1>3 DEF EstInv, EstShapes
<1>5. VersionsStay /\ VersionsGrow
  BY <1>1, UnchangedStays DEF EstInv, VersionsStay
<1>6. OneBaseline' /\ BaselinePlaced' /\ NewOrdersSuggested' /\ AsksFit'
  BY <1>1, <1>5, StayKeeps, AsksStay
<1>7. HistoryFits'
  <2>1. raw.uploads \in Nat /\ raw.areas \in Nat
    BY DEF EstInv, EstShapes, Uploaded
  <2>2. \A n \in DOMAIN versions : FromSheet(n, raw)
    BY DEF EstInv, HistoryFits
  <2> QED BY <1>1, <1>3, <2>1, <2>2 DEF EstInv, HistoryFits, FromSheet
<1>8. LatestShowsUploads'
  BY <1>1 DEF EstInv, LatestShowsUploads
<1> QED BY <1>4, <1>6, <1>7, <1>8 DEF EstInv

\* A load that is lost, another role.
LEMMA AsideKeeps ==
  ASSUME EstInv, UNCHANGED <<raw, est, versions, events, pending>>,
         load' = None \/ load' = load, role' \in {"none", "original", "change_order"}
  PROVE  EstInv'
<1>1. EstShapes'
  BY DEF EstInv, EstShapes
<1>2. VersionsStay /\ VersionsGrow
  BY UnchangedStays DEF EstInv, VersionsStay
<1>3. OneBaseline' /\ BaselinePlaced' /\ NewOrdersSuggested' /\ AsksFit'
  BY <1>2, StayKeeps, AsksStay
<1>4. HistoryFits' /\ LatestShowsUploads'
  BY DEF EstInv, HistoryFits, FromSheet, LatestShowsUploads
<1> QED BY <1>1, <1>3, <1>4 DEF EstInv

-----------------------------------------------------------------------------
(* People's requests. *)

AskFits(q) ==
  /\ q \in KindAsk \cup EventAsk
  /\ IF q.do = "kind" THEN q.version \in WithAreas ELSE EventFits(q.event)

LEMMA AskKeeps ==
  ASSUME EstInv, NEW c \in Person, NEW q, AskFits(q), AskFor(c, q)
  PROVE  EstInv'
<1>1. UNCHANGED <<raw, est, versions, load, role, events>> /\ pending' = [pending EXCEPT ![c] = q]
  BY DEF AskFor
<1>2. pending \in [Person -> KindAsk \cup EventAsk \cup {None}]
  BY DEF EstInv, EstShapes
<1>3. EstShapes'
  BY <1>1, <1>2 DEF EstInv, EstShapes, AskFits
<1>4. VersionsStay /\ VersionsGrow
  BY <1>1, UnchangedStays DEF EstInv, VersionsStay
<1>5. OneBaseline' /\ BaselinePlaced' /\ NewOrdersSuggested'
  BY <1>4, StayKeeps
<1>6. HistoryFits' /\ LatestShowsUploads'
  BY <1>1 DEF EstInv, HistoryFits, FromSheet, LatestShowsUploads
<1>7. AsksFit'
  <2>1. \A e : EventFits(e) => EventFits(e)'
    BY <1>1 DEF EventFits, WithAreas
  <2>2. ASSUME NEW i \in DOMAIN events' PROVE EventFits(events[i])'
    <3>1. PICK e : e = events[i] /\ e = events'[i]
      BY <1>1
    <3>2. EventFits(e)
      BY <1>1, <2>2, <3>1 DEF EstInv, AsksFit
    <3> QED BY <2>1, <3>1, <3>2
  <2>3. ASSUME NEW d \in Person, pending'[d] # None
        PROVE  IF pending'[d].do = "kind" THEN pending'[d].version \in WithAreas'
               ELSE EventFits(pending[d].event)'
    <3>1. PICK p : p = pending'[d]
      OBVIOUS
    <3>2. p = q \/ p = pending[d]
      BY <1>1, <1>2, <3>1
    <3>3. IF p.do = "kind" THEN p.version \in WithAreas ELSE EventFits(p.event)
      BY <2>3, <3>1, <3>2 DEF EstInv, AsksFit, AskFits
    <3>4. IF p.do = "kind" THEN p.version \in WithAreas' ELSE EventFits(p.event)'
      BY <1>1, <2>1, <3>3 DEF WithAreas
    <3> QED BY <3>1, <3>4
  <2> QED BY <2>2, <2>3 DEF AsksFit
<1> QED BY <1>3, <1>5, <1>6, <1>7 DEF EstInv

\* A work area that is shown.
LEMMA ShownIs ==
  ASSUME EstInv, WithAreas # {}
  PROVE  /\ LatestAreas \in WithAreas /\ LatestAreas \in DOMAIN versions /\ LatestAreas \in Nat
         /\ Shown = versions[LatestAreas].rows /\ Shown \in AreaRows
         /\ \A o \in DOMAIN Shown : o \in Order /\ Shown[o] \in AreaRow
<1>1. LatestAreas \in WithAreas
  BY LatestIs DEF EstInv
<1>2. LatestAreas \in DOMAIN versions
  BY <1>1 DEF WithAreas
<1>3. LatestAreas \in Nat
  BY <1>2 DEF EstInv, EstShapes
<1> QED BY <1>1, <1>2, <1>3, VersionIs DEF EstInv, Shown

\* The event that decides.
LEMMA LatestEventIs ==
  ASSUME EstInv, NEW o, EventsOn(o) # {}
  PROVE  LatestEvent(o) \in ApprovalEvent /\ EventFits(LatestEvent(o)) /\ LatestEvent(o).order = o
<1>1. events \in Seq(ApprovalEvent) /\ Len(events) \in Nat /\ DOMAIN events = 1..Len(events)
  BY DEF EstInv, EstShapes
<1>2. EventsOn(o) \subseteq 1..Len(events)
  BY <1>1 DEF EventsOn
<1>3. Max(EventsOn(o)) \in EventsOn(o)
  BY <1>1, <1>2, GreatestOfSome
<1>4. PICK i \in DOMAIN events : i = Max(EventsOn(o)) /\ events[i].order = o
  BY <1>3 DEF EventsOn
<1>5. LatestEvent(o) = events[i] /\ events[i] \in ApprovalEvent /\ EventFits(events[i])
  BY <1>1, <1>4 DEF LatestEvent, EstInv, AsksFit
<1> QED BY <1>4, <1>5

LEMMA RequestKeeps ==
  ASSUME EstInv, NEW c \in Person,
         \/ \E o \in Order, k \in {"original", "change_order"} : ConfirmKind(c, o, k)
         \/ ConfirmSuggested(c)
         \/ \E o \in Order : ApproveChangeOrder(c, o) \/ WithdrawApproval(c, o)
  PROVE  EstInv'
<1>1. ASSUME NEW o \in Order, NEW k \in {"original", "change_order"}, ConfirmKind(c, o, k)
      PROVE  EstInv'
  <2>1. PICK q : q = [do |-> "kind", version |-> LatestAreas, kinds |-> [p \in {o} |-> k]]
    OBVIOUS
  <2>2. WithAreas # {} /\ AskFor(c, q)
    BY <1>1, <2>1 DEF ConfirmKind
  <2>3. [p \in {o} |-> k] \in UNION {[S -> {"original", "change_order"}] : S \in SUBSET Order}
    <3>1. {o} \in SUBSET Order /\ [p \in {o} |-> k] \in [{o} -> {"original", "change_order"}]
      OBVIOUS
    <3> QED BY <3>1
  <2>4. AskFits(q)
    BY <2>1, <2>2, <2>3, ShownIs DEF AskFits, KindAsk
  <2> QED BY <2>2, <2>4, AskKeeps
<1>2. ASSUME ConfirmSuggested(c) PROVE EstInv'
  <2>1. PICK S : S = {o \in DOMAIN Shown : Shown[o].kept /\ Shown[o].kind = "none"}
    OBVIOUS
  <2>2. PICK q : q = [do |-> "kind", version |-> LatestAreas,
                      kinds |-> [o \in S |-> IF Shown[o].suggested THEN "change_order"
                                             ELSE "original"]]
    OBVIOUS
  <2>3. WithAreas # {} /\ AskFor(c, q)
    BY <1>2, <2>1, <2>2, Zenon DEF ConfirmSuggested
  <2>4. [o \in S |-> IF Shown[o].suggested THEN "change_order" ELSE "original"]
          \in UNION {[T -> {"original", "change_order"}] : T \in SUBSET Order}
    <3>1. S \in SUBSET Order
      BY <2>1, <2>3, ShownIs
    <3>2. [o \in S |-> IF Shown[o].suggested THEN "change_order" ELSE "original"]
            \in [S -> {"original", "change_order"}]
      OBVIOUS
    <3> QED BY <3>1, <3>2
  <2>5. AskFits(q)
    BY <2>2, <2>3, <2>4, ShownIs DEF AskFits, KindAsk
  <2> QED BY <2>3, <2>5, AskKeeps
<1>3. ASSUME NEW o \in Order, ApproveChangeOrder(c, o) PROVE EstInv'
  <2>1. PICK e : e = [order |-> o, action |-> "approved", version |-> LatestAreas,
                      name |-> Shown[o].name, price |-> Shown[o].price]
    OBVIOUS
  <2>2. PICK q : q = [do |-> "event", event |-> e]
    OBVIOUS
  <2>3. WithAreas # {} /\ o \in DOMAIN Shown /\ Shown[o].kept /\ AskFor(c, q)
    BY <1>3, <2>1, <2>2 DEF ApproveChangeOrder
  <2>4. Shown[o].name \in STRING /\ Shown[o].price \in Nat
    BY <2>3, ShownIs DEF AreaRow
  <2>5. e \in ApprovalEvent /\ EventFits(e)
    BY <2>1, <2>3, <2>4, ShownIs DEF ApprovalEvent, EventFits
  <2>6. AskFits(q)
    BY <2>2, <2>5 DEF AskFits, EventAsk
  <2> QED BY <2>3, <2>6, AskKeeps
<1>4. ASSUME NEW o \in Order, WithdrawApproval(c, o) PROVE EstInv'
  <2>1. PICK l : l = LatestEvent(o)
    OBVIOUS
  <2>2. PICK e : e = [l EXCEPT !.action = "withdrawn"]
    OBVIOUS
  <2>3. PICK q : q = [do |-> "event", event |-> e]
    OBVIOUS
  <2>4. EventsOn(o) # {} /\ AskFor(c, q)
    BY <1>4, <2>1, <2>2, <2>3 DEF WithdrawApproval, Approved
  <2>5. l \in ApprovalEvent /\ EventFits(l)
    BY <2>1, <2>4, LatestEventIs
  <2>6. e \in ApprovalEvent /\ e.version = l.version /\ e.order = l.order /\ e.name = l.name
        /\ e.price = l.price
    BY <2>2, <2>5 DEF ApprovalEvent
  <2>7. EventFits(e)
    BY <2>5, <2>6 DEF EventFits
  <2>8. AskFits(q)
    BY <2>3, <2>6, <2>7 DEF AskFits, EventAsk
  <2> QED BY <2>4, <2>8, AskKeeps
<1> QED BY <1>1, <1>2, <1>3, <1>4

LEMMA WriteKeeps ==
  ASSUME EstInv, NEW c \in Person, WriteRequest(c)
  PROVE  EstInv' /\ VersionsGrow /\ EventsGrow
<1>1. PICK q : q = pending[c]
  OBVIOUS
<1>2. /\ q # None /\ q \in KindAsk \cup EventAsk
      /\ IF q.do = "kind" THEN q.version \in WithAreas ELSE EventFits(q.event)
      /\ pending' = [pending EXCEPT ![c] = None] /\ UNCHANGED <<raw, est, load, role>>
      /\ pending \in [Person -> KindAsk \cup EventAsk \cup {None}]
      /\ versions \in Seq(VersionRow) /\ events \in Seq(ApprovalEvent)
  BY <1>1 DEF WriteRequest, EstInv, EstShapes, AsksFit
<1>3. IF q.do = "kind"
      THEN /\ versions' = [versions EXCEPT ![q.version].rows = SetKinds(@, q.kinds)]
           /\ UNCHANGED events
      ELSE /\ Len(events) < MaxEvents
           /\ events' = Append(events, q.event)
           /\ UNCHANGED versions
  BY <1>1, Zenon DEF WriteRequest
<1>4. VersionsStay /\ events' \in Seq(ApprovalEvent) /\ Len(events') <= MaxEvents
      /\ \A i \in DOMAIN events' : \/ i \in DOMAIN events /\ events'[i] = events[i]
                                   \/ events'[i] = q.event /\ EventFits(q.event)
  <2>1. CASE q.do = "kind"
    <3>1. /\ versions' = [versions EXCEPT ![q.version].rows = SetKinds(@, q.kinds)]
          /\ events' = events
      BY <1>3, <2>1
    <3>2. q \in KindAsk /\ q.version \in DOMAIN versions
      BY <1>2, <2>1 DEF KindAsk, EventAsk, WithAreas
    <3>3. PICK v : v = versions[q.version]
      OBVIOUS
    <3>4. v \in VersionRow /\ v.rows \in AreaRows
      BY <3>2, <3>3, VersionIs DEF EstInv
    <3>5. PICK rows : rows = SetKinds(v.rows, q.kinds)
      OBVIOUS
    <3>6. /\ rows \in AreaRows /\ DOMAIN rows = DOMAIN v.rows
          /\ \A o \in DOMAIN v.rows :
               /\ rows[o].name = v.rows[o].name /\ rows[o].kept = v.rows[o].kept
               /\ rows[o].price = v.rows[o].price /\ rows[o].suggested = v.rows[o].suggested
      BY <3>2, <3>4, <3>5, SetKindsIs DEF KindAsk
    <3>7. PICK w : w = [v EXCEPT !.rows = rows]
      OBVIOUS
    <3>8. /\ w \in VersionRow /\ w.areas = v.areas /\ w.status = v.status /\ w.rows = rows
          /\ w.baseline = v.baseline
      BY <3>4, <3>6, <3>7 DEF VersionRow
    <3>9. SameVersion(v, w)
      BY <3>6, <3>8 DEF SameVersion
    <3>10. versions' = [versions EXCEPT ![q.version] = w]
      BY <3>1, <3>3, <3>5, <3>7
    <3>11. /\ versions' \in Seq(VersionRow) /\ Len(versions') = Len(versions)
           /\ Len(versions) \in Nat
           /\ \A n \in 1..Len(versions) : versions'[n] = IF n = q.version THEN w ELSE versions[n]
      BY <1>2, <3>2, <3>8, <3>10
    <3>12. \A n \in 1..Len(versions) : SameVersion(versions[n], versions'[n])
                                       /\ (versions'[n].baseline <=> versions[n].baseline)
      <4> SUFFICES ASSUME NEW n \in 1..Len(versions)
                   PROVE  SameVersion(versions[n], versions'[n])
                          /\ (versions'[n].baseline <=> versions[n].baseline)
        OBVIOUS
      <4>1. CASE n = q.version
        BY <3>3, <3>8, <3>9, <3>11, <4>1
      <4>2. CASE n # q.version
        BY <3>11, <4>2 DEF SameVersion
      <4> QED BY <4>1, <4>2
    <3>13. VersionsStay
      BY <3>11, <3>12 DEF VersionsStay, VersionsGrow
    <3>14. Len(events) <= MaxEvents
      BY DEF EstInv, HistoryFits
    <3> QED BY <1>2, <3>1, <3>13, <3>14
  <2>2. CASE q.do # "kind"
    <3>1. Len(events) < MaxEvents /\ events' = Append(events, q.event) /\ versions' = versions
      BY <1>3, <2>2
    <3>2. q.event \in ApprovalEvent /\ EventFits(q.event)
      BY <1>2, <2>2 DEF KindAsk, EventAsk
    <3>3. VersionsStay
      BY <3>1, UnchangedStays DEF EstInv
    <3>4. events' \in Seq(ApprovalEvent) /\ Len(events') = Len(events) + 1
      BY <1>2, <3>1, <3>2
    <3>5. \A i \in DOMAIN events' : \/ i \in DOMAIN events /\ events'[i] = events[i]
                                    \/ events'[i] = q.event
      BY <1>2, <3>1
    <3>6. Len(events') <= MaxEvents
      BY <1>2, <3>1, <3>4, EstimateConstants
    <3> QED BY <3>2, <3>3, <3>4, <3>5, <3>6
  <2> QED BY <2>1, <2>2
<1>5. VersionsGrow /\ versions' \in Seq(VersionRow)
  BY <1>4 DEF VersionsStay, VersionsGrow
<1>6. EstShapes'
  BY <1>2, <1>4, <1>5 DEF EstInv, EstShapes
<1>7. OneBaseline' /\ BaselinePlaced' /\ NewOrdersSuggested'
  BY <1>4, StayKeeps
<1>8. HistoryFits' /\ LatestShowsUploads'
  <2>1. \A n \in DOMAIN versions' :
          /\ n \in DOMAIN versions /\ versions'[n].areas = versions[n].areas
          /\ DOMAIN versions'[n].rows = DOMAIN versions[n].rows
    BY <1>4, StayKeeps
  <2>2. Len(versions') = Len(versions) /\ Len(versions) \in Nat /\ Len(events') <= MaxEvents
    BY <1>2, <1>4 DEF VersionsStay
  <2>3. HistoryFits'
    BY <1>2, <2>1, <2>2 DEF EstInv, HistoryFits, FromSheet
  <2>4. versions # << >> => versions' # << >> /\ versions'[Len(versions)].areas = versions[Len(versions)].areas
    <3> SUFFICES ASSUME versions # << >>
                 PROVE  versions' # << >>
                        /\ versions'[Len(versions)].areas = versions[Len(versions)].areas
      OBVIOUS
    <3>1. Len(versions) \in 1..Len(versions) /\ Len(versions') # 0
      BY <1>2, <2>2
    <3>2. Len(versions) \in DOMAIN versions'
      BY <1>5, <2>2, <3>1
    <3> QED BY <2>1, <3>1, <3>2
  <2> QED BY <1>2, <2>2, <2>3, <2>4 DEF EstInv, LatestShowsUploads
<1>9. AsksFit'
  <2>1. ASSUME NEW i \in DOMAIN events' PROVE EventFits(events[i])'
    <3>1. PICK e : e = events'[i]
      OBVIOUS
    <3>2. EventFits(e)
      BY <1>4, <2>1, <3>1 DEF EstInv, AsksFit
    <3> QED BY <1>5, <3>1, <3>2, GrowKeeps DEF EstInv
  <2>2. ASSUME NEW d \in Person, pending'[d] # None
        PROVE  IF pending'[d].do = "kind" THEN pending'[d].version \in WithAreas'
               ELSE EventFits(pending[d].event)'
    <3>1. PICK p : p = pending'[d]
      OBVIOUS
    <3>2. p = pending[d]
      BY <1>2, <2>2, <3>1
    <3>3. IF p.do = "kind" THEN p.version \in WithAreas ELSE EventFits(p.event)
      BY <2>2, <3>1, <3>2 DEF EstInv, AsksFit
    <3>4. IF p.do = "kind" THEN p.version \in WithAreas' ELSE EventFits(p.event)'
      BY <1>5, <3>3, GrowKeeps DEF EstInv
    <3> QED BY <3>1, <3>4
  <2> QED BY <2>1, <2>2 DEF AsksFit
<1>10. EventsGrow
  <2>1. CASE q.do = "kind"
    BY <1>3, <2>1 DEF EventsGrow
  <2>2. CASE q.do # "kind"
    <3>1. events' = Append(events, q.event)
      BY <1>3, <2>2
    <3> QED BY <1>2, <3>1 DEF EventsGrow
  <2> QED BY <2>1, <2>2
<1> QED BY <1>5, <1>6, <1>7, <1>8, <1>9, <1>10 DEF EstInv

-----------------------------------------------------------------------------
(* The commit of the normalizer. *)

\* A load that makes no version.
LEMMA CommitAsideKeeps ==
  ASSUME EstInv, load # None, versions' = versions, load' = None,
         UNCHANGED <<raw, role, events, pending>>,
         NEW s \in Statuses, est' = [status |-> s, applied |-> load.raw.uploads],
         load.raw.status # "none" => s = load.raw.status /\ ~SomethingNew(load.raw)
  PROVE  EstInv'
<1>1. /\ load.raw \in Uploaded /\ load.raw.uploads \in Nat /\ est.applied \in Nat
      /\ raw \in Uploaded /\ raw.uploads \in Nat
      /\ versions \in Seq(VersionRow) /\ Len(versions) \in Nat
  BY DEF EstInv, EstShapes, Uploaded
<1>2. /\ est.applied < load.raw.uploads /\ load.raw.uploads <= raw.uploads
      /\ load.raw.uploads = raw.uploads => load.raw = raw
  BY DEF EstInv, HistoryFits
<1>3. EstShapes'
  BY <1>1 DEF EstInv, EstShapes
<1>4. VersionsStay /\ VersionsGrow
  BY UnchangedStays DEF EstInv, VersionsStay
<1>5. OneBaseline' /\ BaselinePlaced' /\ NewOrdersSuggested' /\ AsksFit'
  BY <1>4, StayKeeps, AsksStay
<1>6. est'.applied = load.raw.uploads /\ est'.status = s
  OBVIOUS
<1>7. Len(versions) <= load.raw.uploads
  BY <1>1, <1>2 DEF EstInv, HistoryFits
<1>8. HistoryFits'
  BY <1>1, <1>2, <1>6, <1>7 DEF EstInv, HistoryFits, FromSheet
<1>9. LatestShowsUploads'
  BY <1>2, <1>6 DEF LatestShowsUploads, SomethingNew
<1> QED BY <1>3, <1>5, <1>8, <1>9 DEF EstInv

\* Which version becomes the baseline.
LEMMA NewBaselineIs ==
  ASSUME EstInv, NEW r \in Uploaded, NEW rows \in AreaRows, RowsOfLoad(r, rows),
         SheetThere(r), \A n \in DOMAIN versions : FromSheet(n, r),
         NEW b, b = NewBaseline(r, rows, Len(versions) + 1)
  PROVE  /\ b \in 0..Len(versions) + 1
         /\ Baseline # {} => b = 0
         /\ b # 0 => r.areas # 0 /\ r.status = "sold"
         /\ b \in 1..Len(versions) =>
              /\ b = Len(versions) /\ versions[b].areas = r.areas
              /\ DOMAIN versions[b].rows = DOMAIN rows
         /\ Baseline = {} /\ r.status = "sold" /\ r.areas # 0 => b # 0
<1>1. Len(versions) \in Nat /\ DOMAIN versions = 1..Len(versions)
      /\ versions \in Seq(VersionRow)
  BY DEF EstInv, EstShapes
<1>2. rows = NoRows <=> r.areas = 0
  <2>1. CASE r.areas # 0
    <3>1. r.sheet \in Sheet /\ DOMAIN rows = DOMAIN r.sheet
      BY <2>1 DEF SheetThere, RowsOfLoad
    <3>2. DOMAIN rows # {}
      BY <3>1, EstimateConstants
    <3> QED BY <2>1, <3>2, NoRowsIs
  <2> QED BY <2>1 DEF RowsOfLoad
<1>3. CASE r.status = "sold" /\ Baseline = {} /\ rows # NoRows
  <2>1. b = IF (versions = << >> \/ versions[Len(versions)].areas # r.areas) \/ WithAreas = {}
            THEN Len(versions) + 1 ELSE LatestAreas
    BY <1>3 DEF NewBaseline
  <2>2. CASE (versions = << >> \/ versions[Len(versions)].areas # r.areas) \/ WithAreas = {}
    <3>1. b = Len(versions) + 1
      BY <2>1, <2>2
    <3> QED BY <1>1, <1>2, <1>3, <3>1
  <2>3. CASE ~((versions = << >> \/ versions[Len(versions)].areas # r.areas) \/ WithAreas = {})
    <3>1. b = LatestAreas /\ versions # << >> /\ versions[Len(versions)].areas = r.areas
      BY <2>1, <2>3
    <3>2. Len(versions) \in DOMAIN versions /\ Len(versions) >= 1
      BY <1>1, <3>1
    <3>3. r.areas \in Nat /\ r.areas # 0
      BY <1>2, <1>3 DEF Uploaded
    <3>4. Len(versions) \in WithAreas
      BY <3>1, <3>2, <3>3 DEF WithAreas
    <3>5. /\ LatestAreas \in WithAreas /\ LatestAreas \in 1..Len(versions)
          /\ Len(versions) <= LatestAreas
      BY <3>4, LatestIs DEF EstInv
    <3>6. b = Len(versions)
      BY <1>1, <3>1, <3>5
    <3>7. FromSheet(b, r) /\ DOMAIN rows = DOMAIN r.sheet
      BY <3>2, <3>3, <3>6 DEF RowsOfLoad
    <3>8. DOMAIN versions[b].rows = DOMAIN rows
      BY <3>1, <3>3, <3>6, <3>7 DEF FromSheet
    <3> QED BY <1>1, <1>2, <1>3, <3>1, <3>2, <3>3, <3>6, <3>8
  <2> QED BY <2>2, <2>3
<1>4. CASE ~(r.status = "sold" /\ Baseline = {} /\ rows # NoRows)
  <2>1. b = 0
    BY <1>4 DEF NewBaseline
  <2> QED BY <1>1, <1>2, <1>4, <2>1
<1> QED BY <1>3, <1>4

\* A load that makes one.
LEMMA NewVersionKeeps ==
  ASSUME EstInv, load # None, NEW r, r = load.raw, r.status # "none",
         NEW rows \in AreaRows, RowsOfLoad(r, rows),
         NEW b, b = NewBaseline(r, rows, Len(versions) + 1), VersionAdded(r, rows, b),
         est' = [status |-> r.status, applied |-> r.uploads], load' = None,
         UNCHANGED <<raw, role, events, pending>>
  PROVE  EstInv' /\ VersionsGrow
<1>1. PICK newest : newest = Len(versions) + 1
  OBVIOUS
<1>2. /\ r \in Uploaded /\ SheetThere(r) /\ r.uploads \in Nat /\ r.areas \in Nat
      /\ raw \in Uploaded /\ raw.uploads \in Nat /\ raw.areas \in Nat /\ est.applied \in Nat
      /\ versions \in Seq(VersionRow) /\ Len(versions) \in Nat
      /\ DOMAIN versions = 1..Len(versions)
  BY DEF EstInv, EstShapes, Uploaded
<1>3. /\ est.applied < r.uploads /\ r.uploads <= raw.uploads
      /\ r.uploads = raw.uploads => r = raw
      /\ r.areas <= raw.areas /\ (r.areas = raw.areas => r.sheet = raw.sheet)
      /\ \A n \in DOMAIN versions : FromSheet(n, r)
      /\ Len(versions) <= est.applied
  BY DEF EstInv, HistoryFits
<1>4. /\ versions' \in Seq(VersionRow) /\ Len(versions') = newest /\ newest \in Nat
      /\ DOMAIN versions' = 1..newest /\ newest \notin 1..Len(versions) /\ newest \in 1..newest
      /\ \A k \in 1..Len(versions) :
           /\ k \in 1..newest /\ k < newest
           /\ versions'[k].areas = versions[k].areas /\ versions'[k].status = versions[k].status
           /\ versions'[k].rows = versions[k].rows
           /\ versions'[k].baseline <=> (versions[k].baseline \/ b = k)
      /\ \A k \in 1..newest : k = newest \/ k \in 1..Len(versions)
      /\ versions'[newest].areas = r.areas /\ versions'[newest].status = r.status
      /\ versions'[newest].rows = rows
      /\ versions'[newest].baseline <=> b = newest
  <2>1. /\ versions' \in Seq(VersionRow) /\ Len(versions') = newest
        /\ \A k \in 1..Len(versions) :
             /\ versions'[k].areas = versions[k].areas /\ versions'[k].status = versions[k].status
             /\ versions'[k].rows = versions[k].rows
             /\ versions'[k].baseline <=> (versions[k].baseline \/ b = k)
        /\ versions'[newest].areas = r.areas /\ versions'[newest].status = r.status
        /\ versions'[newest].rows = rows
        /\ versions'[newest].baseline <=> b = newest
    BY <1>1, Zenon DEF VersionAdded
  <2>2. /\ newest \in Nat /\ newest \notin 1..Len(versions) /\ newest \in 1..newest
        /\ \A k \in 1..Len(versions) : k \in 1..newest /\ k < newest
        /\ \A k \in 1..newest : k = newest \/ k \in 1..Len(versions)
    BY <1>1, <1>2
  <2>3. DOMAIN versions' = 1..newest
    BY <2>1
  <2> QED BY <2>1, <2>2, <2>3
<1>5. VersionsGrow
  BY <1>1, <1>2, <1>4 DEF VersionsGrow, SameVersion
<1>6. EstShapes'
  <2>1. [status |-> r.status, applied |-> r.uploads] \in [status : Statuses, applied : Nat]
    BY <1>2 DEF Uploaded
  <2> QED BY <1>4, <2>1 DEF EstInv, EstShapes
<1>7. AsksFit'
  BY <1>5, AsksStay
<1>8. /\ b \in 0..newest
      /\ Baseline # {} => b = 0
      /\ b # 0 => r.areas # 0 /\ r.status = "sold"
      /\ b \in 1..Len(versions) =>
           /\ b = Len(versions) /\ versions[b].areas = r.areas
           /\ DOMAIN versions[b].rows = DOMAIN rows
      /\ Baseline = {} /\ r.status = "sold" /\ r.areas # 0 => b # 0
  BY <1>1, <1>2, <1>3, NewBaselineIs
<1>9. HistoryFits'
  <2>1. est'.applied = r.uploads /\ Len(versions') <= r.uploads
    BY <1>1, <1>2, <1>3, <1>4
  <2>2. r.areas = 0 <=> DOMAIN rows = {}
    <3>1. CASE r.areas = 0
      BY <3>1, NoRowsIs DEF RowsOfLoad
    <3>2. CASE r.areas # 0
      <4>1. r.sheet \in Sheet /\ DOMAIN rows = DOMAIN r.sheet
        BY <1>2, <3>2 DEF SheetThere, RowsOfLoad
      <4> QED BY <3>2, <4>1, EstimateConstants
    <3> QED BY <3>1, <3>2
  <2>3. ASSUME NEW n \in 1..Len(versions)
        PROVE  /\ versions'[n].areas <= raw.areas
               /\ versions'[n].areas = raw.areas /\ raw.areas # 0 =>
                    DOMAIN versions'[n].rows = DOMAIN raw.sheet
               /\ versions'[n].areas = 0 <=> DOMAIN versions'[n].rows = {}
    BY <1>2, <1>4, <2>3 DEF EstInv, HistoryFits, FromSheet
  <2>4. /\ versions'[newest].areas <= raw.areas
        /\ versions'[newest].areas = raw.areas /\ raw.areas # 0 =>
             DOMAIN versions'[newest].rows = DOMAIN raw.sheet
        /\ versions'[newest].areas = 0 <=> DOMAIN versions'[newest].rows = {}
    BY <1>3, <1>4, <2>2 DEF RowsOfLoad
  <2>5. \A n \in DOMAIN versions' : /\ versions'[n].areas <= raw.areas /\ FromSheet(n, raw)'
                                    /\ versions'[n].areas = 0 <=> DOMAIN versions'[n].rows = {}
    BY <1>4, <2>3, <2>4 DEF FromSheet
  <2>6. Len(events) <= MaxEvents
    BY DEF EstInv, HistoryFits
  <2> QED BY <1>3, <2>1, <2>5, <2>6 DEF HistoryFits
<1>10. /\ \A k \in 1..newest : k \in Baseline' <=> (k \in Baseline \/ k = b)
       /\ \A k \in Baseline' : k \in 1..newest
       /\ \A k \in Baseline : k \in 1..Len(versions)
  BY <1>2, <1>4 DEF Baseline
<1>11. /\ \A k \in 1..Len(versions) : k \in WithAreas' <=> k \in WithAreas
       /\ newest \in WithAreas' <=> r.areas # 0
       /\ \A k \in WithAreas' : k \in 1..newest
       /\ \A k \in WithAreas : k \in 1..Len(versions)
  BY <1>2, <1>4 DEF WithAreas
<1>12. OneBaseline'
  BY <1>8, <1>10 DEF EstInv, OneBaseline
<1>13. BaselinePlaced'
  <2>1. CASE Baseline # {}
    <3>1. Baseline' = Baseline
      <4>1. \A k \in 1..newest : k # b
        BY <1>4, <1>8, <2>1
      <4>2. \A k \in Baseline : k \in 1..newest
        BY <1>4, <1>10
      <4> QED BY <1>10, <4>1, <4>2
    <3>2. ASSUME NEW x \in Baseline
          PROVE  /\ x \in WithAreas'
                 /\ \/ versions'[x].status = "sold"
                    \/ \E n \in DOMAIN versions' : n > x /\ versions'[n].status = "sold"
                                                   /\ versions'[n].areas = versions'[x].areas
                 /\ \A n \in WithAreas' : n < x => versions'[n].status # "sold"
      <4>1. /\ x \in WithAreas /\ x \in 1..Len(versions)
            /\ \/ versions[x].status = "sold"
               \/ \E n \in DOMAIN versions : n > x /\ versions[n].status = "sold"
                                             /\ versions[n].areas = versions[x].areas
            /\ \A n \in WithAreas : n < x => versions[n].status # "sold"
        BY <1>10, <3>2 DEF EstInv, BaselinePlaced
      <4>2. ASSUME NEW n \in WithAreas', n < x PROVE versions'[n].status # "sold"
        <5>1. n \in 1..Len(versions)
          BY <1>4, <1>11, <4>1, <4>2
        <5> QED BY <1>4, <1>11, <4>1, <4>2, <5>1
      <4>3. versions[x].status = "sold" => versions'[x].status = "sold"
        BY <1>4, <4>1
      <4>4. ASSUME NEW n \in DOMAIN versions, n > x, versions[n].status = "sold",
                   versions[n].areas = versions[x].areas
            PROVE  n \in DOMAIN versions' /\ n > x /\ versions'[n].status = "sold"
                   /\ versions'[n].areas = versions'[x].areas
        BY <1>2, <1>4, <4>1, <4>4
      <4> QED BY <1>11, <4>1, <4>2, <4>3, <4>4
    <3> QED BY <2>1, <3>1, <3>2 DEF BaselinePlaced
  <2>2. CASE Baseline = {} /\ b = 0
    <3>1. Baseline' = {}
      BY <1>10, <2>2
    <3>2. ASSUME NEW n \in 1..newest, versions'[n].status = "sold" PROVE n \notin WithAreas'
      <4>1. CASE n = newest
        BY <1>4, <1>8, <1>11, <2>2, <3>2, <4>1
      <4>2. CASE n \in 1..Len(versions)
        BY <1>2, <1>4, <1>11, <2>2, <3>2, <4>2 DEF EstInv, BaselinePlaced
      <4> QED BY <1>4, <4>1, <4>2
    <3> QED BY <1>4, <3>1, <3>2 DEF BaselinePlaced
  <2>3. CASE Baseline = {} /\ b # 0
    <3>1. b \in 1..newest /\ b \in Baseline' /\ \A x \in Baseline' : x = b
      BY <1>4, <1>8, <1>10, <2>3
    <3>2. r.areas # 0 /\ r.status = "sold"
      BY <1>8, <2>3
    <3>3. \A n \in WithAreas : versions[n].status # "sold"
      BY <1>2, <1>11, <2>3 DEF EstInv, BaselinePlaced
    <3>4. ASSUME NEW n \in WithAreas', n < b PROVE versions'[n].status # "sold"
      <4>1. n \in 1..Len(versions)
        BY <1>4, <1>11, <3>1, <3>4
      <4> QED BY <1>4, <1>11, <3>3, <4>1
    <3>5. b \in WithAreas' /\ \/ versions'[b].status = "sold"
                              \/ newest > b /\ versions'[newest].status = "sold"
                                 /\ versions'[newest].areas = versions'[b].areas
      <4>1. CASE b = newest
        BY <1>4, <1>11, <3>2, <4>1
      <4>2. CASE b \in 1..Len(versions)
        <5>1. versions[b].areas = r.areas /\ b \in WithAreas
          BY <1>2, <1>8, <3>2, <4>2 DEF WithAreas
        <5> QED BY <1>4, <1>11, <3>2, <4>2, <5>1
      <4> QED BY <1>4, <3>1, <4>1, <4>2
    <3> QED BY <1>4, <3>1, <3>4, <3>5 DEF BaselinePlaced
  <2> QED BY <2>1, <2>2, <2>3
<1>14. NewOrdersSuggested'
  <2> SUFFICES ASSUME NEW x \in Baseline', NEW n \in 1..newest, n > x,
                      NEW o \in NewOrders(versions'[x].rows, versions'[n].rows)
               PROVE  versions'[n].rows[o].suggested
    BY <1>4 DEF NewOrdersSuggested
  <2>1. x \in 1..Len(versions)
    BY <1>4, <1>10
  <2>2. versions'[x].rows = versions[x].rows
    BY <1>4, <2>1
  <2>3. CASE n \in 1..Len(versions)
    <3>1. x # b
      BY <1>2, <1>8, <2>1, <2>3
    <3>2. x \in Baseline
      BY <1>10, <3>1
    <3>3. o \in NewOrders(versions[x].rows, versions[n].rows)
      BY <1>4, <2>2, <2>3
    <3>4. versions[n].rows[o].suggested
      BY <1>2, <2>3, <3>2, <3>3 DEF EstInv, NewOrdersSuggested
    <3> QED BY <1>4, <2>3, <3>4
  <2>4. CASE n = newest /\ x = b
    <3>1. DOMAIN versions[x].rows = DOMAIN rows
      BY <1>8, <2>1, <2>4
    <3>2. o \in DOMAIN rows /\ o \notin DOMAIN versions[x].rows
      BY <1>4, <2>2, <2>4 DEF NewOrders
    <3> QED BY <3>1, <3>2
  <2>5. CASE n = newest /\ x \in Baseline
    <3>1. versions'[n].rows = rows
      BY <1>4, <2>5
    <3>2. o \in DOMAIN rows /\ rows[o].kept /\ o \notin DOMAIN versions[x].rows
      BY <2>2, <3>1 DEF NewOrders
    <3>3. r.areas # 0
      BY <3>2, NoRowsIs DEF RowsOfLoad
    <3>4. Max(Baseline) = x
      <4>1. Baseline = {x}
        BY <2>5 DEF EstInv, OneBaseline
      <4>2. x >= x
        BY <2>1
      <4> QED BY <4>1, <4>2 DEF Max
    <3>5. /\ DOMAIN rows = DOMAIN r.sheet /\ rows[o].kept = r.sheet[o].kept
          /\ rows[o].suggested <=> Suggested(o, r.sheet, versions[x].rows)
      BY <2>5, <3>2, <3>3, <3>4 DEF RowsOfLoad
    <3>6. o \in NewOrders(versions[x].rows, r.sheet)
      BY <3>2, <3>5 DEF NewOrders
    <3> QED BY <3>1, <3>5, <3>6 DEF Suggested
  <2> QED BY <1>4, <1>10, <2>3, <2>4, <2>5
<1>15. LatestShowsUploads'
  <2>1. est'.status = r.status /\ est'.applied = r.uploads /\ versions' # << >>
    BY <1>4
  <2> QED BY <1>3, <1>4, <2>1 DEF LatestShowsUploads
<1> QED BY <1>5, <1>6, <1>7, <1>9, <1>12, <1>13, <1>14, <1>15 DEF EstInv

LEMMA NormalizeCommitKeeps == ASSUME EstInv, NormalizeCommit PROVE EstInv' /\ VersionsGrow
<1>1. PICK r : r = load.raw
  OBVIOUS
<1>2. /\ load # None /\ load' = None /\ UNCHANGED <<raw, role, events, pending>>
      /\ r \in Uploaded /\ SheetThere(r) /\ load.previous \in AreaRows
      /\ est \in [status : Statuses, applied : Nat] /\ est.status \in Statuses
      /\ r.status \in Statuses
  BY <1>1 DEF NormalizeCommit, EstInv, EstShapes, Uploaded
<1>3. IF r.status = "none"
      THEN /\ est' = [est EXCEPT !.applied = r.uploads]
           /\ UNCHANGED versions
      ELSE /\ est' = [status |-> r.status, applied |-> r.uploads]
           /\ versions' = IF SomethingNew(r) THEN MadeVersion(r, load.previous) ELSE versions
  BY <1>1, Zenon DEF NormalizeCommit
<1>4. CASE r.status = "none"
  <2>1. est' = [status |-> est.status, applied |-> r.uploads] /\ versions' = versions
    BY <1>2, <1>3, <1>4
  <2>2. VersionsGrow
    BY <2>1, UnchangedStays DEF EstInv, VersionsStay
  <2> QED BY <1>1, <1>2, <1>4, <2>1, <2>2, CommitAsideKeeps
<1>5. CASE r.status # "none" /\ ~SomethingNew(r)
  <2>1. est' = [status |-> r.status, applied |-> r.uploads] /\ versions' = versions
    BY <1>3, <1>5
  <2>2. VersionsGrow
    BY <2>1, UnchangedStays DEF EstInv, VersionsStay
  <2> QED BY <1>1, <1>2, <1>5, <2>1, <2>2, CommitAsideKeeps
<1>6. CASE r.status # "none" /\ SomethingNew(r)
  <2>1. /\ est' = [status |-> r.status, applied |-> r.uploads]
        /\ versions' = MadeVersion(r, load.previous)
    BY <1>3, <1>6
  <2>2. PICK rows \in AreaRows :
          /\ RowsOfLoad(r, rows)
          /\ VersionAdded(r, rows, NewBaseline(r, rows, Len(versions) + 1))
    BY <1>2, <2>1, MadeVersionAdds DEF EstInv
  <2>3. PICK b : b = NewBaseline(r, rows, Len(versions) + 1)
    OBVIOUS
  <2>4. VersionAdded(r, rows, b)
    BY <2>2, <2>3
  <2> QED BY <1>1, <1>2, <1>6, <2>1, <2>2, <2>3, <2>4, NewVersionKeeps
<1> QED BY <1>4, <1>5, <1>6

-----------------------------------------------------------------------------
(* Every step, and what follows. *)

LEMMA EstStart == EstInit => EstInv
<1> SUFFICES ASSUME EstInit PROVE EstInv
  OBVIOUS
<1>1. /\ raw = [status |-> "none", areas |-> 0, sheet |-> None, uploads |-> 0]
      /\ est = [status |-> "none", applied |-> 0] /\ versions = << >> /\ load = None
      /\ role = "none" /\ events = << >> /\ pending = [c \in Person |-> None]
  BY DEF EstInit
<1>2. Len(versions) = 0 /\ DOMAIN versions = {} /\ Len(events) = 0 /\ DOMAIN events = {}
  BY <1>1
<1>3. EstShapes
  <2>1. raw \in Uploaded /\ SheetThere(raw) /\ raw.uploads <= MaxUploads
    BY <1>1, EstimateConstants DEF Uploaded, Statuses, SheetThere
  <2>2. est \in [status : Statuses, applied : Nat]
    BY <1>1 DEF Statuses
  <2>3. versions \in Seq(VersionRow) /\ events \in Seq(ApprovalEvent)
    BY <1>1
  <2> QED BY <1>1, <2>1, <2>2, <2>3 DEF EstShapes
<1>4. AsksFit
  BY <1>1, <1>2 DEF AsksFit
<1>5. HistoryFits
  BY <1>1, <1>2, EstimateConstants DEF HistoryFits
<1>6. OneBaseline /\ BaselinePlaced /\ NewOrdersSuggested
  BY <1>2 DEF OneBaseline, BaselinePlaced, NewOrdersSuggested, Baseline
<1>7. LatestShowsUploads
  BY <1>1 DEF LatestShowsUploads
<1> QED BY <1>3, <1>4, <1>5, <1>6, <1>7 DEF EstInv

LEMMA EstStep == EstInv /\ [EstNext]_estVars => EstInv' /\ VersionsGrow /\ EventsGrow
<1> SUFFICES ASSUME EstInv, [EstNext]_estVars PROVE EstInv' /\ VersionsGrow /\ EventsGrow
  OBVIOUS
<1>1. ASSUME UNCHANGED <<versions, events>> PROVE VersionsGrow /\ EventsGrow
  BY <1>1, UnchangedStays DEF EstInv, VersionsStay, EventsGrow
<1>2. CASE UNCHANGED estVars
  <2>1. UNCHANGED <<raw, est, versions, load, role, events, pending>>
    BY <1>2 DEF estVars
  <2> QED BY <1>1, <2>1, AsideKeeps DEF EstInv, EstShapes
<1>3. CASE \/ \E s \in {"pending", "sold"} : UploadHeader(s)
           \/ \E s \in Sheet : UploadAreas(s)
  BY <1>1, <1>3, UploadKeeps DEF UploadHeader, UploadAreas
<1>4. CASE NormalizeRead
  BY <1>1, <1>4, NormalizeReadKeeps DEF NormalizeRead
<1>5. CASE NormalizeCommit
  BY <1>5, NormalizeCommitKeeps DEF NormalizeCommit, EventsGrow
<1>6. CASE NormalizeCrash
  BY <1>1, <1>6, AsideKeeps DEF NormalizeCrash, EstInv, EstShapes
<1>7. ASSUME NEW c \in Person,
             \/ \E o \in Order, k \in {"original", "change_order"} : ConfirmKind(c, o, k)
             \/ ConfirmSuggested(c)
             \/ \E o \in Order : ApproveChangeOrder(c, o) \/ WithdrawApproval(c, o)
      PROVE  EstInv' /\ VersionsGrow /\ EventsGrow
  <2>1. UNCHANGED <<versions, events>>
    BY <1>7, Zenon DEF ConfirmKind, ConfirmSuggested, ApproveChangeOrder, WithdrawApproval, AskFor
  <2> QED BY <1>1, <1>7, <2>1, RequestKeeps
<1>8. ASSUME NEW c \in Person, WriteRequest(c) PROVE EstInv' /\ VersionsGrow /\ EventsGrow
  BY <1>8, WriteKeeps
<1>9. ASSUME NEW to \in {"none", "original", "change_order"}, SetRole(to)
      PROVE  EstInv' /\ VersionsGrow /\ EventsGrow
  BY <1>1, <1>9, AsideKeeps DEF SetRole
<1> QED BY <1>2, <1>3, <1>4, <1>5, <1>6, <1>7, <1>8, <1>9 DEF EstNext

LEMMA EstInvApprovals == EstInv => ApprovalsHold
<1> SUFFICES ASSUME EstInv PROVE ApprovalsHold
  OBVIOUS
<1>1. ASSUME NEW o \in Order, Applies(o)
      PROVE  /\ WithAreas # {} /\ o \in DOMAIN Shown /\ Shown[o].kept
             /\ Shown[o].price = LatestEvent(o).price /\ Shown[o].name = LatestEvent(o).name
             /\ FirstSeen(o) <= LatestEvent(o).version
  <2>1. PICK e : e = LatestEvent(o)
    OBVIOUS
  <2>2. /\ EventsOn(o) # {} /\ ~Broken(e) /\ e \in ApprovalEvent /\ EventFits(e) /\ e.order = o
    BY <1>1, <2>1, LatestEventIs DEF Applies, Approved, StateApplies
  <2>3. e.version \in WithAreas /\ e.version \in Nat
    BY <2>2 DEF EventFits, ApprovalEvent
  <2>4. /\ LatestAreas \in WithAreas /\ LatestAreas \in Nat /\ Shown = versions[LatestAreas].rows
        /\ e.version <= LatestAreas
    BY <2>3, ShownIs, LatestIs DEF EstInv
  <2>5. \A n \in WithAreas : n \in Nat
    BY LatestIs DEF EstInv
  <2>6. ASSUME NEW n \in WithAreas, n >= e.version
        PROVE  /\ o \in DOMAIN versions[n].rows /\ versions[n].rows[o].kept
               /\ versions[n].rows[o].name = e.name /\ versions[n].rows[o].price = e.price
    <3>1. CASE n = e.version
      BY <2>2, <3>1 DEF EventFits
    <3>2. CASE n > e.version
      <4>1. ~Breaks(e, n)
        BY <2>2, <3>2 DEF Broken, Later
      <4> QED BY <2>2, <4>1 DEF Breaks
    <3> QED BY <2>3, <2>5, <2>6, <3>1, <3>2
  <2>7. /\ o \in DOMAIN Shown /\ Shown[o].kept /\ Shown[o].name = e.name /\ Shown[o].price = e.price
    BY <2>3, <2>4, <2>6
  <2>8. FirstSeen(o) <= e.version
    <3>1. PICK S : S = {n \in WithAreas :
                          \A k \in WithAreas : k >= n =>
                            o \in DOMAIN versions[k].rows /\ versions[k].rows[o].name = Shown[o].name}
      OBVIOUS
    <3>2. e.version \in S
      BY <2>3, <2>6, <2>7, <3>1
    <3>3. S \subseteq Nat
      BY <2>5, <3>1
    <3>4. Min(S) <= e.version
      BY <3>2, <3>3, LeastOfSome
    <3> QED BY <3>1, <3>4 DEF FirstSeen
  <2> QED BY <2>1, <2>3, <2>7, <2>8
<1>2. ApprovedAtShownPrice /\ SeenBeforeApproved
  BY <1>1 DEF ApprovedAtShownPrice, SeenBeforeApproved, Kept
<1>3. UnapprovedTie
  <2> SUFFICES ASSUME role # "none", WithAreas # {} PROVE Contract.unapproved = PriceOf(Unapproved)
    BY DEF UnapprovedTie
  <2>1. role = "original" \/ role = "change_order"
    BY DEF EstInv, EstShapes
  <2>2. {o \in Kept : IsChangeOrder(o) /\ ~Applies(o)} = Unapproved
    BY <2>1 DEF IsChangeOrder, Unapproved
  <2>3. Contract.unapproved = PriceOf({o \in Kept : IsChangeOrder(o) /\ ~Applies(o)})
    BY DEF Contract
  <2> QED BY <2>2, <2>3
<1> QED BY <1>2, <1>3 DEF ApprovalsHold

LEMMA EstInvHistory ==
  EstInv => EstTypeOK /\ BaselineAtSale /\ NewOrdersSuggested /\ LatestShowsUploads
<1> SUFFICES ASSUME EstInv
             PROVE  EstTypeOK /\ BaselineAtSale /\ NewOrdersSuggested /\ LatestShowsUploads
  OBVIOUS
<1>1. /\ raw.uploads \in Nat /\ raw.uploads <= MaxUploads /\ MaxUploads \in Nat
      /\ est.applied \in Nat /\ est.applied <= raw.uploads
      /\ Len(versions) \in Nat /\ Len(versions) <= est.applied
  BY EstimateConstants DEF EstInv, EstShapes, HistoryFits, Uploaded
<1>2. ASSUME NEW n \in DOMAIN versions
      PROVE  /\ \A o \in DOMAIN versions[n].rows : versions[n].rows[o] \in AreaRow
             /\ versions[n].areas = 0 => versions[n].rows = NoRows
  <2>1. versions[n].rows \in AreaRows
        /\ \A o \in DOMAIN versions[n].rows : versions[n].rows[o] \in AreaRow
    BY VersionIs DEF EstInv
  <2>2. versions[n].areas = 0 => DOMAIN versions[n].rows = {}
    BY DEF EstInv, HistoryFits
  <2> QED BY <2>1, <2>2, EmptyIsNoRows
<1>3. Len(events) <= MaxEvents
      /\ \A i \in DOMAIN events : events[i].order \in DOMAIN versions[events[i].version].rows
  BY DEF EstInv, HistoryFits, AsksFit, EventFits
<1>4. EstTypeOK
  BY <1>1, <1>2, <1>3 DEF EstTypeOK
<1>5. Cardinality(Baseline) <= 1
  <2>1. CASE Baseline = {}
    BY <2>1, FS_EmptySet
  <2>2. CASE Baseline # {}
    <3>1. PICK b : Baseline = {b}
      BY <2>2 DEF EstInv, OneBaseline
    <3> QED BY <3>1, FS_Singleton
  <2> QED BY <2>1, <2>2
<1>6. BaselineAtSale
  BY <1>5 DEF EstInv, BaselinePlaced, BaselineAtSale
<1> QED BY <1>4, <1>6 DEF EstInv

\* Whatever arrives while a person is approving, an approval that counts is for the work
\* area as it is shown, at the agreed price, on a version that had it, and the list of
\* unapproved change orders adds up to the contract's figure (jobs/service.py
\* approval_state, unapproved_change_orders; jobs/contract.py job_contract).
THEOREM ApprovalsKeepHolding == EstSpec => []ApprovalsHold
<1> QED BY EstStart, EstStep, EstInvApprovals, PTL DEF EstSpec

\* An approval that a later version broke is never revived by another version, kind or
\* role (jobs/service.py approval_state: the versions after the approval are read, all
\* of them).
THEOREM BreaksAreForGood == EstSpec => BreakIsForGood
<1>1. ASSUME EstInv, [EstNext]_estVars
      PROVE  \A i \in DOMAIN events :
               (events[i].action = "approved" /\ Broken(events[i])) => Broken(events[i])'
  <2> SUFFICES ASSUME NEW i \in DOMAIN events, Broken(events[i]) PROVE Broken(events[i])'
    OBVIOUS
  <2>1. VersionsGrow /\ EventsGrow /\ EstShapes
    BY <1>1, EstStep DEF EstInv
  <2>2. PICK e : e = events[i] /\ e = events'[i]
    BY <2>1 DEF EventsGrow
  <2>3. Broken(e)'
    BY <2>1, <2>2, GrowKeeps
  <2> QED BY <2>2, <2>3
<1>2. EstInv /\ [EstNext]_estVars =>
        [\A i \in DOMAIN events :
           (events[i].action = "approved" /\ Broken(events[i])) => Broken(events[i])']_estVars
  BY <1>1
<1> QED BY <1>2, EstStart, EstStep, PTL DEF EstSpec, BreakIsForGood


\* What some of the work areas shown come to.
LEMMA PriceIs ==
  ASSUME EstInv, WithAreas # {}, NEW f, f = [o \in DOMAIN Shown |-> Shown[o].price],
         NEW S, S \subseteq DOMAIN Shown
  PROVE  PriceOf(S) = SumFunctionOnSet(f, S) /\ IsFiniteSet(S) /\ Addable(f, S) /\ PriceOf(S) \in Int
<1>1. PICK T : T = DOMAIN Shown
  OBVIOUS
<1>2. Shown = versions[LatestAreas].rows /\ Shown \in AreaRows
  BY ShownIs
<1>3. IsFiniteSet(T) /\ \A o \in T : Shown[o] \in AreaRow
  BY <1>1, <1>2 DEF AreaRows
<1>4. IsFiniteSet(S)
  BY <1>1, <1>3, FS_Subset
<1>5. PICK g : g = [o \in S |-> Shown[o].price]
  OBVIOUS
<1>6. \A o \in S : g[o] = f[o] /\ f[o] \in Int
  BY <1>1, <1>3, <1>5 DEF AreaRow
<1>7. Addable(f, S) /\ DOMAIN g = S
  BY <1>5, <1>6 DEF Addable
<1>8. SumFunction(g) = SumFunctionOnSet(f, S)
  BY <1>4, <1>6, <1>7, SumOverDomain
<1>9. SumFunctionOnSet(f, S) \in Int
  BY <1>4, <1>7, SumIsWhole
<1> QED BY <1>4, <1>5, <1>7, <1>8, <1>9 DEF PriceOf

\* The work areas of two figures are those of both.
LEMMA PricesOfBoth ==
  ASSUME EstInv, WithAreas # {}, NEW S, NEW T, S \subseteq DOMAIN Shown, T \subseteq DOMAIN Shown, S \cap T = {}
  PROVE  PriceOf(S \cup T) = PriceOf(S) + PriceOf(T)
<1>1. PICK f : f = [o \in DOMAIN Shown |-> Shown[o].price]
  OBVIOUS
<1>2. S \cup T \subseteq DOMAIN Shown
  OBVIOUS
<1>3. PriceOf(S) = SumFunctionOnSet(f, S) /\ IsFiniteSet(S) /\ Addable(f, S)
  BY <1>1, PriceIs
<1>4. PriceOf(T) = SumFunctionOnSet(f, T) /\ IsFiniteSet(T) /\ Addable(f, T)
  BY <1>1, PriceIs
<1>5. PriceOf(S \cup T) = SumFunctionOnSet(f, S \cup T)
  BY <1>1, <1>2, PriceIs
<1> QED BY <1>3, <1>4, <1>5, SumUnion

\* The figures of a contract are of work areas apart, which together are all that
\* are kept.
LEMMA EstInvContract == EstInv => ContractCountsOnce
<1> SUFFICES ASSUME EstInv, role # "none", WithAreas # {}
             PROVE  Contract.original + Contract.approved + Contract.unapproved + Contract.toConfirm
                      = PriceOf(Kept)
  BY DEF ContractCountsOnce
<1>1. role = "original" \/ role = "change_order"
  BY DEF EstInv, EstShapes
<1>2. Kept \subseteq DOMAIN Shown
  BY DEF Kept
<1>3. PICK A : A = {o \in Kept : IsChangeOrder(o) /\ Applies(o)}
  OBVIOUS
<1>4. PICK U : U = {o \in Kept : IsChangeOrder(o) /\ ~Applies(o)}
  OBVIOUS
<1>5. Contract.approved = PriceOf(A) /\ Contract.unapproved = PriceOf(U)
  BY <1>3, <1>4 DEF Contract
<1>6. A \subseteq DOMAIN Shown /\ U \subseteq DOMAIN Shown /\ A \cup U \subseteq DOMAIN Shown /\ A \cap U = {}
  BY <1>2, <1>3, <1>4
<1>7. PriceOf(A \cup U) = PriceOf(A) + PriceOf(U)
  BY <1>6, PricesOfBoth
<1>8. PriceOf(A) \in Int /\ PriceOf(U) \in Int
  BY <1>6, PriceIs
<1>9. CASE role = "change_order"
  <2>1. A \cup U = Kept
    BY <1>3, <1>4, <1>9 DEF IsChangeOrder
  <2>2. Contract.original = 0 /\ Contract.toConfirm = 0
    BY <1>9 DEF Contract
  <2>3. PICK a \in Int, u \in Int : a = PriceOf(A) /\ u = PriceOf(U)
    BY <1>8
  <2>4. PriceOf(Kept) = a + u /\ Contract.approved = a /\ Contract.unapproved = u
    BY <2>1, <2>3, <1>5, <1>7
  <2>5. 0 + a + u + 0 = a + u
    OBVIOUS
  <2> QED BY <2>2, <2>4, <2>5
<1>10. CASE role = "original"
  <2>1. PICK O : O = {o \in Kept : Shown[o].kind = "original"}
    OBVIOUS
  <2>2. PICK N : N = {o \in Kept : Shown[o].kind = "none"}
    OBVIOUS
  <2>3. Contract.original = PriceOf(O) /\ Contract.toConfirm = PriceOf(N)
    BY <1>10, <2>1, <2>2 DEF Contract
  <2>4. \A o \in Kept : Shown[o].kind \in {"none", "original", "change_order"}
    <3>1. \A o \in DOMAIN Shown : Shown[o] \in AreaRow
      BY ShownIs
    <3> QED BY <1>2, <3>1 DEF AreaRow
  <2>5. \A o \in Kept : IsChangeOrder(o) <=> Shown[o].kind = "change_order"
    BY <1>10 DEF IsChangeOrder
  <2>6. PICK C : C = A \cup U
    OBVIOUS
  <2>7. C = {o \in Kept : Shown[o].kind = "change_order"}
    BY <2>5, <2>6, <1>3, <1>4
  <2>8. O \cup N \subseteq DOMAIN Shown /\ O \subseteq DOMAIN Shown /\ N \subseteq DOMAIN Shown
        /\ O \cap N = {} /\ (O \cup N) \cap C = {}
    BY <2>1, <2>2, <2>7, <1>2
  <2>9. (O \cup N) \cup C = Kept
    BY <2>1, <2>2, <2>4, <2>7
  <2>10. PriceOf(O \cup N) = PriceOf(O) + PriceOf(N)
    BY <2>8, PricesOfBoth
  <2>11. PriceOf((O \cup N) \cup C) = PriceOf(O \cup N) + PriceOf(C)
    BY <1>6, <2>6, <2>8, PricesOfBoth
  <2>12. PriceOf(O) \in Int /\ PriceOf(N) \in Int
    BY <2>8, PriceIs
  <2>13. PICK a \in Int, u \in Int : a = PriceOf(A) /\ u = PriceOf(U)
    BY <1>8
  <2>14. PICK x \in Int, n \in Int : x = PriceOf(O) /\ n = PriceOf(N)
    BY <2>12
  <2>15. /\ Contract.approved = a /\ Contract.unapproved = u
         /\ Contract.original = x /\ Contract.toConfirm = n
    BY <2>3, <2>13, <2>14, <1>5
  <2>16. PriceOf(O \cup N) = x + n /\ PriceOf(C) = a + u
    BY <2>6, <2>10, <2>13, <2>14, <1>7
  <2>17. PriceOf(Kept) = (x + n) + (a + u)
    BY <2>9, <2>11, <2>16
  <2>18. (x + n) + (a + u) = x + a + u + n
    OBVIOUS
  <2> QED BY <2>15, <2>17, <2>18
<1> QED BY <1>1, <1>9, <1>10

\* However uploads, loads, crashes and people's kinds interleave, every upload that was
\* read is the latest version, there is one baseline, the work areas in force when the
\* estimate was first known as sold, a number it lacks is suggested as a change order
\* from then on, and every kept price is in exactly one figure of the contract
\* (estimates/normalize.py _make_version; estimates/versions.py compare;
\* jobs/contract.py job_contract).
THEOREM VersionsKeepFollowing == EstSpec => []VersionsFollow
<1>1. EstInv => VersionsFollow
  BY EstInvHistory, EstInvContract DEF VersionsFollow
<1> QED BY <1>1, EstStart, EstStep, PTL DEF EstSpec

-----------------------------------------------------------------------------
(* ReviewExceptions.                                                        *)

Raisable == Issue \cup {NoIssue}
Events == {"none", "raised", "raised_again", "reopened", "resolved", "dismissed"}
RunRec == [pc : {"idle", "begun", "collected", "loaded"}, raised : [Keys -> Raisable],
           loaded : [Keys -> Row], clean : BOOLEAN]
PersonRec == [doing : {"nothing", "dismiss", "reopen", "assign"}, key : Keys,
              loaded : Row, user : Members \cup {Nobody}]

-----------------------------------------------------------------------------
(* The inductive invariant. *)

TimesTyped ==
  elder \in [Transactions -> SUBSET Transactions] /\ passed \in [Transactions -> SUBSET Keys]

QueueShapes ==
  /\ source \in [Keys -> Raisable]
  /\ row \in [Keys -> Row]
  /\ shown \in [Keys -> Events] /\ overtaken \subseteq Keys
  /\ TimesTyped
  /\ judged \in [Keys -> Facts]
  /\ run \in [Runs -> RunRec]
  /\ person \in [Persons -> PersonRec]
  /\ fresh \in BOOLEAN

\* The CHECK constraints, and no flag on an identity that has no row.
Marked(r) ==
  /\ r.resolved = (r.status = "resolved")
  /\ r.dismissed = (r.status = "dismissed")

\* A row that was loaded is there; nothing deletes an exception.
RunLoadedThere ==
  \A r \in Runs, k \in Keys :
    run[r].pc = "loaded" /\ run[r].loaded[k].status # "absent" => row[k].status # "absent"

PersonLoadedThere ==
  \A p \in Persons : person[p].doing # "nothing" => row[person[p].key].status # "absent"

\* dismiss has seen an open row and reopen a dismissed one: each writes the status.
PersonSaw ==
  \A p \in Persons : /\ person[p].doing = "dismiss" => person[p].loaded.status = "open"
                     /\ person[p].doing = "reopen" => person[p].loaded.status = "dismissed"

\* A clean run holds what is committed.
CleanRun ==
  \A r \in Runs :
    /\ run[r].clean /\ run[r].pc \in {"collected", "loaded"} => run[r].raised = source
    /\ run[r].clean /\ run[r].pc = "loaded" => run[r].loaded = row

QueueInv ==
  /\ QueueShapes
  /\ \A k \in Keys : Marked(row[k])
  /\ RunLoadedThere
  /\ PersonLoadedThere
  /\ PersonSaw
  /\ HistoryExplainsStatus
  /\ CleanRun
  /\ FreshRunMirrors

-----------------------------------------------------------------------------
(* What a flush may do to a row. *)

LEMMA AbsentRowType == AbsentRow \in Row /\ Marked(AbsentRow)
<1>1. AnyFact \in Facts
  BY NonEmptyAssumption DEF AnyFact
<1> QED BY <1>1 DEF AbsentRow, Row, Marked, Severities

LEMMA IdleTypes == IdleRun \in RunRec /\ IdlePerson \in PersonRec
<1>1. (CHOOSE k \in Keys : TRUE) \in Keys
  BY NonEmptyAssumption
<1>2. IdleRun \in RunRec
  BY AbsentRowType DEF IdleRun, RunRec, Raisable
<1>3. IdlePerson \in PersonRec
  BY <1>1, AbsentRowType DEF IdlePerson, PersonRec
<1> QED BY <1>2, <1>3

LEMMA FlushedType ==
  ASSUME NEW cur \in Row, NEW loaded \in Row, NEW target \in Row
  PROVE  Flushed(cur, loaded, target) \in Row
BY DEF Flushed, Column, Row

\* The order of the times never says anything about the rows.
LEMMA TimesKept ==
  ASSUME TimesTyped, NEW x \in Transactions, NEW told \in SUBSET Keys,
         TakesTime(x) \/ Ends(x, told) \/ UNCHANGED times
  PROVE  TimesTyped'
<1>1. CASE TakesTime(x)
  <2>1. Timed \cup {x} \in SUBSET Transactions
    BY DEF Timed
  <2> QED BY <1>1, <2>1 DEF TakesTime, TimesTyped
<1>2. CASE Ends(x, told)
  <2>1. \A y \in Transactions : /\ elder[y] \ {x} \in SUBSET Transactions
                                /\ passed[y] \cup told \in SUBSET Keys /\ passed[y] \in SUBSET Keys
    BY DEF TimesTyped
  <2> QED BY <1>2, <2>1 DEF Ends, TimesTyped
<1> QED BY <1>1, <1>2 DEF times, TimesTyped

\* Every status is what some event tells.
LEMMA StatusHasEvent == ASSUME NEW r \in Row PROVE \E e \in Events : r.status = StatusAfter(e)
<1>1. /\ {"none", "raised", "resolved", "dismissed"} \subseteq Events
      /\ StatusAfter("none") = "absent" /\ StatusAfter("raised") = "open"
      /\ StatusAfter("resolved") = "resolved" /\ StatusAfter("dismissed") = "dismissed"
  BY DEF Events, StatusAfter
<1> QED BY <1>1 DEF Row

\* An event that is not overtaken is the one the history ends with.
LEMMA RecordedShown ==
  ASSUME QueueShapes, NEW x \in Transactions, NEW told \in SUBSET Keys,
         NEW kinds \in [Keys -> Events], Recorded(x, told, kinds)
  PROVE  /\ shown' \in [Keys -> Events] /\ overtaken' \subseteq Keys
         /\ \A k \in Keys \ overtaken' :
              IF k \in told THEN shown'[k] = kinds[k] ELSE k \notin overtaken /\ shown'[k] = shown[k]
BY DEF QueueShapes, Recorded

\* A flush over the row that was loaded writes the target itself.
LEMMA FlushedClean ==
  ASSUME NEW cur \in Row, NEW target \in Row
  PROVE  Flushed(cur, cur, target) = target
BY DEF Flushed, Column, Row

\* refresh changes the status of a row exactly when it adds an event, and then
\* to the status the event tells.
LEMMA TargetFacts ==
  ASSUME NEW old \in Row, NEW i \in Raisable
  PROVE  /\ Target(old, i) \in Row
         /\ StatusEvent(old, i) \in Events
         /\ StatusEvent(old, i) = "none" => Target(old, i).status = old.status
         /\ StatusEvent(old, i) # "none" =>
              /\ Target(old, i).status = StatusAfter(StatusEvent(old, i))
              /\ Target(old, i).status # old.status
              /\ Target(old, i).status # "absent"
         /\ Target(old, i).status = "resolved" /\ old.status # "resolved" => i = NoIssue
         /\ old.status = "absent" /\ i = NoIssue => Target(old, i) = old
<1>1. CASE i = NoIssue
  <2>1. Resolved(old) \in Row
    BY DEF Resolved, Row
  <2>2. Resolved(old).status = "resolved"
    BY DEF Resolved, Row
  <2> QED BY <1>1, <2>1, <2>2 DEF Target, StatusEvent, StatusAfter, Events, Row
<1>2. CASE i # NoIssue
  <2>1. i.stated \in Facts /\ i.severity \in Severities
    BY <1>2 DEF Raisable, Issue
  <2>2. Raised(i) \in Row /\ Raised(i).status = "open"
    BY <2>1, AbsentRowType DEF Raised, Row
  <2>3. Refreshed(old, i) \in Row
    BY <2>1 DEF Refreshed, Row
  <2>4. Refreshed(old, i).status = IF Reopens(old, i) THEN "open" ELSE old.status
    BY DEF Refreshed, Row
  <2> QED BY <1>2, <2>2, <2>3, <2>4 DEF Target, StatusEvent, StatusAfter, Events, Row, Reopens
<1> QED BY <1>1, <1>2

LEMMA FlushedStatus ==
  ASSUME NEW cur, NEW loaded, NEW target
  PROVE  Flushed(cur, loaded, target).status =
           IF target.status # loaded.status THEN target.status ELSE cur.status
BY DEF Flushed, Column

\* Where the CHECK constraints hold on a row that is there, its flags tell its status.
LEMMA ChecksMark ==
  ASSUME NEW r \in Row, r.status # "absent", Checks(r)
  PROVE  Marked(r)
<1>1. r.resolved \in BOOLEAN /\ r.dismissed \in BOOLEAN
  BY DEF Row
<1> QED BY <1>1 DEF Checks, Marked

\* A run's flush of one row, whatever was committed since the row was loaded.
LEMMA RunFlush ==
  ASSUME NEW cur \in Row, NEW l \in Row, NEW i \in Raisable, NEW e \in Events,
         Marked(cur), cur.status = StatusAfter(e),
         l.status # "absent" => cur.status # "absent",
         Checks(Flushed(cur, l, Target(l, i)))
  PROVE  LET new == Flushed(cur, l, Target(l, i))
             ev == StatusEvent(l, i)
         IN /\ new \in Row /\ Marked(new)
            /\ cur.status # "absent" => new.status # "absent"
            /\ new.status = StatusAfter(IF ev = "none" THEN e ELSE ev)
            /\ new.status = "resolved" /\ cur.status # "resolved" => i = NoIssue
<1> DEFINE T == Target(l, i)
<1> DEFINE new == Flushed(cur, l, T)
<1> DEFINE ev == StatusEvent(l, i)
<1>1. /\ T \in Row
      /\ ev = "none" => T.status = l.status
      /\ ev # "none" => T.status = StatusAfter(ev) /\ T.status # l.status /\ T.status # "absent"
      /\ T.status = "resolved" /\ l.status # "resolved" => i = NoIssue
      /\ l.status = "absent" /\ i = NoIssue => T = l
  BY TargetFacts
<1>2. new \in Row
  BY <1>1, FlushedType
<1>3. new.status = IF T.status # l.status THEN T.status ELSE cur.status
  BY FlushedStatus
<1> HIDE DEF T, new, ev
<1>4. new.status = StatusAfter(IF ev = "none" THEN e ELSE ev)
  BY <1>1, <1>3
<1>5. cur.status # "absent" => new.status # "absent"
  BY <1>1, <1>3
<1>6. new.status = "resolved" /\ cur.status # "resolved" => i = NoIssue
  BY <1>1, <1>3
<1>7. CASE new.status = "absent"
  <2>1. ev = "none" /\ cur.status = "absent" /\ l.status = "absent"
    BY <1>1, <1>3, <1>7
  <2>2. i = NoIssue
    BY <2>1 DEF ev, StatusEvent
  <2>3. T = l
    BY <1>1, <2>1, <2>2
  <2>4. new = cur
    BY <2>3 DEF new, Flushed, Column, Row
  <2> QED BY <2>4, <1>2, <1>4, <1>5, <1>6 DEF new, T, ev
<1>8. CASE new.status # "absent"
  <2>1. Checks(new)
    BY DEF new, T
  <2>2. Marked(new)
    BY <1>2, <1>8, <2>1, ChecksMark
  <2> QED BY <2>2, <1>2, <1>4, <1>5, <1>6 DEF new, T, ev
<1> QED BY <1>7, <1>8

\* What a person's transaction writes over the row it loaded.
LEMMA PersonTargetFacts ==
  ASSUME NEW a \in PersonRec, a.doing # "nothing"
  PROVE  /\ PersonTarget(a) \in Row
         /\ a.doing = "dismiss" => PersonTarget(a).status = "dismissed"
         /\ a.doing = "reopen" => PersonTarget(a).status = "open"
         /\ a.doing = "assign" => PersonTarget(a).status = a.loaded.status
<1> DEFINE D == [a.loaded EXCEPT !.status = "dismissed", !.dismissed = TRUE]
           O == [a.loaded EXCEPT !.status = "open", !.dismissed = FALSE]
           U == [a.loaded EXCEPT !.assigned = a.user]
<1>1. a.loaded \in Row /\ a.user \in Members \cup {Nobody}
  BY DEF PersonRec
<1>2. D \in Row /\ D.status = "dismissed"
  BY <1>1 DEF Row
<1>3. O \in Row /\ O.status = "open"
  BY <1>1 DEF Row
<1>4. U \in Row /\ U.status = a.loaded.status
  BY <1>1 DEF Row
<1>5. a.doing \in {"dismiss", "reopen", "assign"}
  BY DEF PersonRec
<1>6. PersonTarget(a) = CASE a.doing = "dismiss" -> D
                          [] a.doing = "reopen"  -> O
                          [] a.doing = "assign"  -> U
  BY DEF PersonTarget
<1> HIDE DEF D, O, U
<1> QED BY <1>2, <1>3, <1>4, <1>5, <1>6

\* A person's event, from what was done.
EventAfter(doing, e) == CASE doing = "dismiss" -> "dismissed"
                          [] doing = "reopen" -> "reopened"
                          [] OTHER -> e

\* A person's flush, whatever was committed since the row was loaded.
LEMMA PersonFlush ==
  ASSUME NEW a \in PersonRec, NEW cur \in Row, NEW e \in Events,
         a.doing # "nothing",
         a.doing = "dismiss" => a.loaded.status = "open",
         a.doing = "reopen" => a.loaded.status = "dismissed",
         cur.status = StatusAfter(e), cur.status # "absent",
         Checks(Flushed(cur, a.loaded, PersonTarget(a)))
  PROVE  LET new == Flushed(cur, a.loaded, PersonTarget(a))
         IN /\ new \in Row /\ Marked(new)
            /\ new.status # "absent"
            /\ new.status = StatusAfter(EventAfter(a.doing, e))
            /\ new.status = "resolved" => cur.status = "resolved"
<1> DEFINE T == PersonTarget(a)
<1> DEFINE new == Flushed(cur, a.loaded, T)
<1>1. /\ T \in Row
      /\ a.doing = "dismiss" => T.status = "dismissed"
      /\ a.doing = "reopen" => T.status = "open"
      /\ a.doing = "assign" => T.status = a.loaded.status
  BY PersonTargetFacts
<1>2. a.loaded \in Row /\ a.doing \in {"dismiss", "reopen", "assign"}
  BY DEF PersonRec
<1>3. new \in Row
  BY <1>1, <1>2, FlushedType
<1>4. new.status = IF T.status # a.loaded.status THEN T.status ELSE cur.status
  BY FlushedStatus
<1>5. Checks(new)
  OBVIOUS
<1> HIDE DEF T, new
<1>6. /\ new.status # "absent"
      /\ new.status = StatusAfter(EventAfter(a.doing, e))
      /\ new.status = "resolved" => cur.status = "resolved"
  <2>1. CASE a.doing = "dismiss"
    BY <2>1, <1>1, <1>4 DEF StatusAfter, EventAfter
  <2>2. CASE a.doing = "reopen"
    BY <2>2, <1>1, <1>4 DEF StatusAfter, EventAfter
  <2>3. CASE a.doing = "assign"
    <3>1. new.status = cur.status
      BY <2>3, <1>1, <1>4
    <3>2. EventAfter(a.doing, e) = e
      BY <2>3 DEF EventAfter
    <3> QED BY <3>1, <3>2
  <2> QED BY <1>2, <2>1, <2>2, <2>3
<1>7. Marked(new)
  BY <1>3, <1>5, <1>6, ChecksMark
<1> QED BY <1>3, <1>6, <1>7 DEF new, T

\* A clean run's target mirrors what was raised, and is the row itself when the
\* row mirrored it already; then there is no event either.
Mirrors(r, i) ==
  IF i = NoIssue
  THEN r.status \in {"absent", "resolved"}
  ELSE r.status \in {"open", "dismissed"} /\ r.stated = i.stated /\ r.severity = i.severity

LEMMA TargetMirrors ==
  ASSUME NEW old \in Row, NEW i \in Raisable
  PROVE  /\ Mirrors(Target(old, i), i)
         /\ Mirrors(old, i) => Target(old, i) = old /\ StatusEvent(old, i) = "none"
<1>1. CASE i = NoIssue
  <2>1. Resolved(old).status = "resolved"
    BY DEF Resolved, Row
  <2>2. Mirrors(Target(old, i), i)
    BY <1>1, <2>1 DEF Target, Mirrors
  <2>3. ASSUME Mirrors(old, i)
        PROVE  Target(old, i) = old /\ StatusEvent(old, i) = "none"
    BY <1>1, <2>3 DEF Target, Mirrors, StatusEvent
  <2> QED BY <2>2, <2>3
<1>2. CASE i # NoIssue
  <2>1. Raised(i).status = "open" /\ Raised(i).stated = i.stated /\ Raised(i).severity = i.severity
    BY DEF Raised, AbsentRow
  <2>2. /\ Refreshed(old, i).status = IF Reopens(old, i) THEN "open" ELSE old.status
        /\ Refreshed(old, i).stated = i.stated
        /\ Refreshed(old, i).severity = i.severity
    BY DEF Refreshed, Row
  <2>3. Mirrors(Target(old, i), i)
    BY <1>2, <2>1, <2>2 DEF Target, Mirrors, Reopens, Row
  <2>4. ASSUME Mirrors(old, i)
        PROVE  Target(old, i) = old /\ StatusEvent(old, i) = "none"
    <3>1. /\ old.status \in {"open", "dismissed"} /\ old.stated = i.stated
          /\ old.severity = i.severity
      BY <1>2, <2>4 DEF Mirrors
    <3>2. ~Reopens(old, i)
      BY <3>1 DEF Reopens
    <3>3. Refreshed(old, i) = old
      BY <3>1, <3>2 DEF Refreshed, Row
    <3> QED BY <1>2, <3>1, <3>3 DEF Target, StatusEvent
  <2> QED BY <2>3, <2>4
<1> QED BY <1>1, <1>2

-----------------------------------------------------------------------------
(* The invariant is inductive: one lemma per group of actions. *)

LEMMA StaleType ==
  ASSUME NEW rs \in [Runs -> RunRec]
  PROVE  /\ Stale(rs) \in [Runs -> RunRec]
         /\ \A r \in Runs : /\ Stale(rs)[r].pc = rs[r].pc
                            /\ Stale(rs)[r].loaded = rs[r].loaded
                            /\ Stale(rs)[r].raised = rs[r].raised
                            /\ Stale(rs)[r].clean = FALSE
<1>1. \A r \in Runs : /\ [rs[r] EXCEPT !.clean = FALSE] \in RunRec
                      /\ [rs[r] EXCEPT !.clean = FALSE].pc = rs[r].pc
                      /\ [rs[r] EXCEPT !.clean = FALSE].loaded = rs[r].loaded
                      /\ [rs[r] EXCEPT !.clean = FALSE].raised = rs[r].raised
                      /\ [rs[r] EXCEPT !.clean = FALSE].clean = FALSE
  BY DEF RunRec
<1> QED BY <1>1 DEF Stale

LEMMA InitIInv == Init => QueueInv
<1> SUFFICES ASSUME Init PROVE QueueInv
  OBVIOUS
<1> USE DEF Init
<1>1. AnyFact \in Facts
  BY NonEmptyAssumption DEF AnyFact
<1>2. QueueShapes
  BY <1>1, AbsentRowType, IdleTypes DEF QueueShapes, Raisable, Events, TimesTyped
<1>3. \A k \in Keys : Marked(row[k])
  BY AbsentRowType
<1>4. RunLoadedThere
  BY DEF RunLoadedThere, IdleRun
<1>5. PersonLoadedThere /\ PersonSaw
  BY DEF PersonLoadedThere, PersonSaw, IdlePerson
<1>6. HistoryExplainsStatus
  BY DEF HistoryExplainsStatus, StatusAfter, AbsentRow
<1>7. CleanRun /\ FreshRunMirrors
  BY DEF CleanRun, FreshRunMirrors, IdleRun
<1> QED BY <1>2, <1>3, <1>4, <1>5, <1>6, <1>7 DEF QueueInv

\* A new input makes every run stale.
LEMMA ChangeSourceStep ==
  ASSUME QueueInv, NEW k \in Keys, NEW i \in Raisable, ChangeSource(k, i)
  PROVE  QueueInv'
<1> USE DEF ChangeSource, history, times, TimesTyped
<1>1. /\ run' \in [Runs -> RunRec]
      /\ \A r \in Runs : /\ run'[r].pc = run[r].pc
                         /\ run'[r].loaded = run[r].loaded
                         /\ run'[r].clean = FALSE
  BY StaleType DEF QueueInv, QueueShapes
<1>2. QueueShapes'
  BY <1>1 DEF QueueInv, QueueShapes
<1>3. (\A kk \in Keys : Marked(row[kk]))'
  BY DEF QueueInv
<1>4. RunLoadedThere'
  BY <1>1 DEF QueueInv, RunLoadedThere
<1>5. PersonLoadedThere' /\ PersonSaw'
  BY DEF QueueInv, PersonLoadedThere, PersonSaw
<1>6. HistoryExplainsStatus'
  BY DEF QueueInv, HistoryExplainsStatus
<1>7. CleanRun' /\ FreshRunMirrors'
  BY <1>1 DEF CleanRun, FreshRunMirrors
<1> QED BY <1>2, <1>3, <1>4, <1>5, <1>6, <1>7 DEF QueueInv

\* The two reads of a run.
LEMMA ReadStep ==
  ASSUME QueueInv, NEW r \in Runs, BeginRun(r) \/ Collect(r) \/ LoadExisting(r)
  PROVE  QueueInv'
<1>0. TimesTyped'
  BY TimesKept DEF QueueInv, QueueShapes, BeginRun, Collect, LoadExisting, Transactions
<1>1. /\ UNCHANGED <<source, row, history, judged, person, fresh>>
      /\ run' \in [Runs -> RunRec]
      /\ \A q \in Runs : q # r => run'[q] = run[q]
      /\ \/ /\ run'[r].pc = "begun" /\ run'[r].clean = run[r].clean /\ run[r].pc = "idle"
            /\ run'[r].raised = run[r].raised
         \/ /\ run'[r].pc = "collected" /\ run'[r].raised = source
         \/ /\ run'[r].pc = "loaded" /\ run'[r].loaded = row
            /\ run[r].pc = "collected"
            /\ run'[r].raised = run[r].raised /\ run'[r].clean = run[r].clean
  <2>1. CASE Collect(r)
    <3>1. [run[r] EXCEPT !.pc = "collected", !.raised = source, !.clean = TRUE] \in RunRec
      BY DEF QueueInv, QueueShapes, RunRec
    <3>2. run' = [run EXCEPT ![r] = [run[r] EXCEPT !.pc = "collected", !.raised = source, !.clean = TRUE]]
      BY <2>1 DEF Collect, QueueInv, QueueShapes, RunRec
    <3>3. [run[r] EXCEPT !.pc = "collected", !.raised = source, !.clean = TRUE].pc = "collected"
      BY DEF QueueInv, QueueShapes, RunRec
    <3>4. [run[r] EXCEPT !.pc = "collected", !.raised = source, !.clean = TRUE].raised = source
      BY DEF QueueInv, QueueShapes, RunRec
    <3> QED BY <2>1, <3>1, <3>2, <3>3, <3>4 DEF Collect, QueueInv, QueueShapes
  <2>2. CASE LoadExisting(r)
    <3> DEFINE n == [run[r] EXCEPT !.pc = "loaded", !.loaded = row]
    <3>1. /\ n \in RunRec /\ n.pc = "loaded" /\ n.loaded = row
          /\ n.raised = run[r].raised /\ n.clean = run[r].clean
      BY DEF QueueInv, QueueShapes, RunRec
    <3>2. run' = [run EXCEPT ![r] = n]
      BY <2>2 DEF LoadExisting, QueueInv, QueueShapes, RunRec
    <3> HIDE DEF n
    <3> QED BY <2>2, <3>1, <3>2 DEF LoadExisting, QueueInv, QueueShapes
  <2>3. CASE BeginRun(r)
    <3> DEFINE n == [run[r] EXCEPT !.pc = "begun"]
    <3>1. n \in RunRec /\ n.pc = "begun" /\ n.raised = run[r].raised /\ n.clean = run[r].clean
      BY DEF QueueInv, QueueShapes, RunRec
    <3>2. run' = [run EXCEPT ![r] = n]
      BY <2>3 DEF BeginRun, QueueInv, QueueShapes, RunRec
    <3> HIDE DEF n
    <3> QED BY <2>3, <3>1, <3>2 DEF BeginRun, QueueInv, QueueShapes
  <2> QED BY <2>1, <2>2, <2>3
<1>2. QueueShapes'
  BY <1>0, <1>1 DEF QueueInv, QueueShapes, history
<1>3. (\A kk \in Keys : Marked(row[kk]))'
  BY <1>1 DEF QueueInv
<1>4. RunLoadedThere'
  BY <1>1 DEF QueueInv, RunLoadedThere
<1>5. PersonLoadedThere' /\ PersonSaw'
  BY <1>1 DEF QueueInv, PersonLoadedThere, PersonSaw
<1>6. HistoryExplainsStatus'
  BY <1>1 DEF QueueInv, HistoryExplainsStatus, history
<1>7. CleanRun'
  <2> SUFFICES ASSUME NEW q \in Runs
               PROVE  /\ run'[q].clean /\ run'[q].pc \in {"collected", "loaded"} => run'[q].raised = source'
                      /\ run'[q].clean /\ run'[q].pc = "loaded" => run'[q].loaded = row'
    BY DEF CleanRun
  <2>1. CASE q = r
    BY <2>1, <1>1 DEF QueueInv, CleanRun
  <2>2. CASE q # r
    BY <2>2, <1>1 DEF QueueInv, CleanRun
  <2> QED BY <2>1, <2>2
<1>8. FreshRunMirrors'
  BY <1>1 DEF QueueInv, FreshRunMirrors
<1> QED BY <1>2, <1>3, <1>4, <1>5, <1>6, <1>7, <1>8 DEF QueueInv

\* A run's commit.
LEMMA PersistShown ==
  ASSUME QueueInv, NEW r \in Runs, Persist(r)
  PROVE  /\ shown' \in [Keys -> Events] /\ overtaken' \subseteq Keys /\ TimesTyped'
         /\ \A k \in Keys \ overtaken' :
              IF k \in RunEvents(r) THEN shown'[k] = RunEvent(r, k)
              ELSE k \notin overtaken /\ shown'[k] = shown[k]
<1> DEFINE kinds == [k \in Keys |-> RunEvent(r, k)]
<1>1. /\ kinds \in [Keys -> Events] /\ RunEvents(r) \in SUBSET Keys /\ r \in Transactions
      /\ QueueShapes /\ TimesTyped
  BY TargetFacts DEF QueueInv, QueueShapes, RunRec, RunEvent, RunEvents, Transactions
<1>2. Recorded(r, RunEvents(r), kinds) /\ Ends(r, RunEvents(r))
  BY DEF Persist
<1>3. TimesTyped'
  BY <1>1, <1>2, TimesKept
<1>4. \A k \in Keys : kinds[k] = RunEvent(r, k)
  OBVIOUS
<1> HIDE DEF kinds
<1> QED BY <1>1, <1>2, <1>3, <1>4, RecordedShown

LEMMA PersistRows ==
  ASSUME QueueInv, NEW r \in Runs, Persist(r), NEW k \in Keys
  PROVE  /\ row'[k] \in Row /\ Marked(row'[k])
         /\ row[k].status # "absent" => row'[k].status # "absent"
         /\ k \notin overtaken' => row'[k].status = StatusAfter(shown'[k])
         /\ row'[k].status = "resolved" /\ row[k].status # "resolved" => run[r].raised[k] = NoIssue
<1> DEFINE l == run[r].loaded[k]
           i == run[r].raised[k]
<1>1. /\ row[k] \in Row /\ l \in Row /\ i \in Raisable /\ shown[k] \in Events
  BY DEF QueueInv, QueueShapes, RunRec
<1>2. /\ Marked(row[k])
      /\ k \notin overtaken => row[k].status = StatusAfter(shown[k])
      /\ l.status # "absent" => row[k].status # "absent"
  BY DEF QueueInv, HistoryExplainsStatus, RunLoadedThere, Persist
<1>3. PICK e \in Events : /\ row[k].status = StatusAfter(e)
                          /\ k \notin overtaken => e = shown[k]
  <2>1. CASE k \in overtaken
    <3>1. \E e \in Events : row[k].status = StatusAfter(e)
      BY <1>1, StatusHasEvent
    <3> QED BY <2>1, <3>1
  <2>2. CASE k \notin overtaken
    BY <1>1, <1>2, <2>2
  <2> QED BY <2>1, <2>2
<1>4. Checks(Flushed(row[k], l, Target(l, i)))
  BY DEF Persist, Persistable, RunWrites, RunTarget
<1>5. row'[k] = Flushed(row[k], l, Target(l, i))
  BY DEF Persist, RunWrites, RunTarget
<1>6. k \notin overtaken' =>
        IF StatusEvent(l, i) = "none" THEN k \notin overtaken /\ shown'[k] = shown[k]
        ELSE shown'[k] = StatusEvent(l, i)
  BY PersistShown DEF RunEvents, RunEvent
<1>7. StatusEvent(l, i) \in Events
  BY <1>1, TargetFacts
<1> HIDE DEF l, i
<1>8. /\ Flushed(row[k], l, Target(l, i)) \in Row /\ Marked(Flushed(row[k], l, Target(l, i)))
      /\ row[k].status # "absent" => Flushed(row[k], l, Target(l, i)).status # "absent"
      /\ Flushed(row[k], l, Target(l, i)).status =
           StatusAfter(IF StatusEvent(l, i) = "none" THEN e ELSE StatusEvent(l, i))
      /\ Flushed(row[k], l, Target(l, i)).status = "resolved" /\ row[k].status # "resolved" => i = NoIssue
  BY <1>1, <1>2, <1>4, <1>3, RunFlush
<1> QED BY <1>1, <1>3, <1>5, <1>6, <1>7, <1>8 DEF i

LEMMA PersistStep ==
  ASSUME QueueInv, NEW r \in Runs, Persist(r)
  PROVE  QueueInv'
<1>1. UNCHANGED <<source, judged, person>> /\ fresh' = run[r].clean /\ run[r].pc = "loaded"
  BY DEF Persist
<1>2. row' \in [Keys -> Row] /\ shown' \in [Keys -> Events] /\ overtaken' \subseteq Keys /\ TimesTyped'
  <2>1. DOMAIN row' = Keys /\ row' = [k \in Keys |-> row'[k]]
    BY DEF Persist
  <2>2. \A k \in Keys : row'[k] \in Row
    BY PersistRows
  <2> QED BY <2>1, <2>2, PersistShown
<1>3. /\ run' \in [Runs -> RunRec]
      /\ run'[r] = IdleRun
      /\ \A q \in Runs : q # r => /\ run'[q].pc = run[q].pc
                                  /\ run'[q].loaded = run[q].loaded
                                  /\ run'[q].clean => run'[q] = run[q] /\ row' = row
  <2>1. CASE row' = row
    <3>1. run' = [run EXCEPT ![r] = IdleRun]
      BY <2>1 DEF Persist
    <3> QED BY <2>1, <3>1, IdleTypes DEF QueueInv, QueueShapes
  <2>2. CASE row' # row
    <3>1. run' = [Stale(run) EXCEPT ![r] = IdleRun]
      BY <2>2 DEF Persist
    <3>2. /\ Stale(run) \in [Runs -> RunRec]
          /\ \A q \in Runs : /\ Stale(run)[q].pc = run[q].pc
                             /\ Stale(run)[q].loaded = run[q].loaded
                             /\ Stale(run)[q].clean = FALSE
      BY StaleType DEF QueueInv, QueueShapes
    <3> QED BY <3>1, <3>2, IdleTypes
  <2> QED BY <2>1, <2>2
<1>4. QueueShapes'
  BY <1>1, <1>2, <1>3 DEF QueueInv, QueueShapes, RunRec
<1>5. (\A k \in Keys : Marked(row[k]))'
  BY PersistRows
<1>6. RunLoadedThere'
  <2> SUFFICES ASSUME NEW q \in Runs, NEW k \in Keys, run'[q].pc = "loaded",
                      run'[q].loaded[k].status # "absent"
               PROVE  row'[k].status # "absent"
    BY DEF RunLoadedThere
  <2>1. q # r
    BY <1>3 DEF IdleRun
  <2>2. row[k].status # "absent"
    BY <2>1, <1>3 DEF QueueInv, RunLoadedThere
  <2> QED BY <2>2, PersistRows
<1>7. PersonLoadedThere'
  <2>1. \A p \in Persons : person[p].key \in Keys
    BY DEF QueueInv, QueueShapes, PersonRec
  <2> QED BY <2>1, <1>1, PersistRows DEF QueueInv, PersonLoadedThere
<1>8. PersonSaw'
  BY <1>1 DEF QueueInv, PersonSaw
<1>9. HistoryExplainsStatus'
  BY PersistRows DEF HistoryExplainsStatus
<1>10. CleanRun'
  BY <1>1, <1>3 DEF QueueInv, CleanRun, IdleRun
<1>11. FreshRunMirrors'
  <2> SUFFICES ASSUME run[r].clean, NEW k \in Keys
               PROVE  Mirrors(row'[k], source[k])
    BY <1>1 DEF FreshRunMirrors, Mirrors
  <2>1. run[r].loaded = row /\ run[r].raised = source
    BY <1>1 DEF QueueInv, CleanRun
  <2>2. row[k] \in Row /\ source[k] \in Raisable
    BY DEF QueueInv, QueueShapes
  <2>3. row'[k] = Flushed(row[k], row[k], Target(row[k], source[k]))
    BY <2>1 DEF Persist, RunWrites, RunTarget
  <2>4. row'[k] = Target(row[k], source[k])
    BY <2>2, <2>3, FlushedClean, TargetFacts
  <2> QED BY <2>2, <2>4, TargetMirrors
<1> QED BY <1>4, <1>5, <1>6, <1>7, <1>8, <1>9, <1>10, <1>11 DEF QueueInv

\* A run that is rolled back.
LEMMA RunFailsStep ==
  ASSUME QueueInv, NEW r \in Runs, RunFails(r)
  PROVE  QueueInv'
<1>1. /\ UNCHANGED <<source, row, history, judged, person, fresh>>
      /\ run' = [run EXCEPT ![r] = IdleRun]
  BY DEF RunFails
<1>2. QueueShapes'
  <2>1. TimesTyped'
    BY TimesKept DEF QueueInv, QueueShapes, RunFails, Transactions
  <2> QED BY <1>1, <2>1, IdleTypes DEF QueueInv, QueueShapes, history
<1>3. (\A k \in Keys : Marked(row[k]))'
  BY <1>1 DEF QueueInv
<1>4. RunLoadedThere'
  BY <1>1 DEF QueueInv, QueueShapes, RunLoadedThere, IdleRun
<1>5. PersonLoadedThere' /\ PersonSaw'
  BY <1>1 DEF QueueInv, PersonLoadedThere, PersonSaw
<1>6. HistoryExplainsStatus' /\ FreshRunMirrors'
  BY <1>1 DEF QueueInv, HistoryExplainsStatus, FreshRunMirrors, history
<1>7. CleanRun'
  BY <1>1 DEF QueueInv, QueueShapes, CleanRun, IdleRun
<1> QED BY <1>2, <1>3, <1>4, <1>5, <1>6, <1>7 DEF QueueInv

\* A person's request loads its row, or is refused: the table is as it was.
LEMMA PersonReadStep ==
  ASSUME QueueInv, NEW p \in Persons, NEW n \in PersonRec,
         person' = [person EXCEPT ![p] = n],
         n.doing # "nothing" => row[n.key].status # "absent",
         n.doing = "dismiss" => n.loaded.status = "open",
         n.doing = "reopen" => n.loaded.status = "dismissed",
         UNCHANGED <<source, row, history, judged, run, fresh>>, TimesTyped'
  PROVE  QueueInv'
<1>1. QueueShapes'
  BY DEF QueueInv, QueueShapes, history
<1>2. (\A k \in Keys : Marked(row[k]))'
  BY DEF QueueInv
<1>3. RunLoadedThere' /\ CleanRun'
  BY DEF QueueInv, RunLoadedThere, CleanRun
<1>4. PersonLoadedThere' /\ PersonSaw'
  <2> SUFFICES ASSUME NEW q \in Persons
               PROVE  /\ person'[q].doing # "nothing" => row[person'[q].key].status # "absent"
                      /\ person'[q].doing = "dismiss" => person'[q].loaded.status = "open"
                      /\ person'[q].doing = "reopen" => person'[q].loaded.status = "dismissed"
    BY DEF PersonLoadedThere, PersonSaw
  <2>1. person'[q] = IF q = p THEN n ELSE person[q]
    BY DEF QueueInv, QueueShapes
  <2> QED BY <2>1 DEF QueueInv, PersonLoadedThere, PersonSaw
<1>5. HistoryExplainsStatus' /\ FreshRunMirrors'
  BY DEF QueueInv, HistoryExplainsStatus, FreshRunMirrors, history
<1> QED BY <1>1, <1>2, <1>3, <1>4, <1>5 DEF QueueInv

LEMMA StartStep ==
  ASSUME QueueInv, NEW p \in Persons, NEW k \in Keys, NEW u \in Members \cup {Nobody},
         StartDismiss(p, k) \/ StartReopen(p, k) \/ StartAssign(p, k, u)
  PROVE  QueueInv'
<1>1. PICK d \in {"dismiss", "reopen", "assign"}, v \in Members \cup {Nobody} :
        /\ LoadRow(p, d, k, v)
        /\ d = "dismiss" => row[k].status = "open"
        /\ d = "reopen" => row[k].status = "dismissed"
  BY DEF StartDismiss, StartReopen, StartAssign
<1> DEFINE n == [doing |-> d, key |-> k, loaded |-> row[k], user |-> v]
<1>2. n \in PersonRec
  BY DEF QueueInv, QueueShapes, PersonRec
<1>3. /\ n.key = k /\ n.doing = d /\ n.loaded = row[k]
  OBVIOUS
<1>4. /\ person' = [person EXCEPT ![p] = n]
      /\ row[k].status # "absent"
      /\ UNCHANGED <<source, row, history, judged, run, fresh>> /\ TimesTyped'
  BY <1>1 DEF LoadRow, times, TimesTyped, QueueInv, QueueShapes
<1> HIDE DEF n
<1> QED BY <1>1, <1>2, <1>3, <1>4, PersonReadStep

LEMMA TakeTimeStep ==
  ASSUME QueueInv, NEW p \in Persons, TakeTime(p)
  PROVE  QueueInv'
<1>1. TimesTyped' /\ UNCHANGED <<source, row, history, judged, run, person, fresh>>
  BY TimesKept DEF QueueInv, QueueShapes, TakeTime, Transactions
<1> QED BY <1>1 DEF QueueInv, QueueShapes, history, Marked, RunLoadedThere, PersonLoadedThere, PersonSaw,
       HistoryExplainsStatus, CleanRun, FreshRunMirrors

LEMMA RefusedStep ==
  ASSUME QueueInv, NEW p \in Persons, ActionRefused(p)
  PROVE  QueueInv'
<1>1. IdlePerson \in PersonRec /\ IdlePerson.doing = "nothing"
  BY IdleTypes DEF IdlePerson
<1>2. /\ person' = [person EXCEPT ![p] = IdlePerson] /\ UNCHANGED <<source, row, history, judged, run, fresh>>
      /\ TimesTyped'
  BY TimesKept DEF ActionRefused, QueueInv, QueueShapes, Transactions
<1> QED BY <1>1, <1>2, PersonReadStep

\* A person's commit, on the row of the request.
LEMMA CommitRow ==
  ASSUME QueueInv, NEW p \in Persons, CommitAction(p)
  PROVE  /\ row' \in [Keys -> Row] /\ shown' \in [Keys -> Events] /\ judged' \in [Keys -> Facts]
         /\ overtaken' \subseteq Keys /\ TimesTyped'
         /\ \A k \in Keys : /\ Marked(row'[k])
                            /\ row[k].status # "absent" => row'[k].status # "absent"
                            /\ k \notin overtaken' => row'[k].status = StatusAfter(shown'[k])
                            /\ row'[k].status = "resolved" => row[k].status = "resolved"
<1> DEFINE a == person[p]
           kk == person[p].key
           new == Flushed(row[kk], a.loaded, PersonTarget(a))
           kinds == [k \in Keys |-> PersonEvent(a)]
<1>1. /\ a \in PersonRec /\ kk \in Keys /\ row[kk] \in Row /\ shown[kk] \in Events /\ a.loaded.stated \in Facts
      /\ PersonEvents(a) \in SUBSET Keys /\ p \in Transactions /\ QueueShapes /\ TimesTyped
  BY DEF QueueInv, QueueShapes, PersonRec, Row, PersonEvents, Transactions
<1>2. a.doing # "nothing" /\ Checks(new)
  BY DEF CommitAction
<1>3. /\ a.doing = "dismiss" => a.loaded.status = "open"
      /\ a.doing = "reopen" => a.loaded.status = "dismissed"
      /\ kk \notin overtaken => row[kk].status = StatusAfter(shown[kk])
      /\ row[kk].status # "absent"
  BY <1>1, <1>2 DEF QueueInv, PersonSaw, PersonLoadedThere, HistoryExplainsStatus
<1>4. PICK e \in Events : row[kk].status = StatusAfter(e) /\ (kk \notin overtaken => e = shown[kk])
  BY <1>1, <1>3, StatusHasEvent
<1>5. /\ row' = [row EXCEPT ![kk] = new]
      /\ Recorded(p, PersonEvents(a), kinds) /\ Ends(p, PersonEvents(a))
  BY DEF CommitAction
<1>6. judged' = [judged EXCEPT ![kk] = IF a.doing = "dismiss" THEN a.loaded.stated ELSE judged[kk]]
  BY <1>1 DEF CommitAction, QueueInv, QueueShapes
<1>7. /\ kinds \in [Keys -> Events] /\ \A k \in Keys : kinds[k] = PersonEvent(a)
      /\ PersonEvents(a) = IF a.doing \in {"dismiss", "reopen"} THEN {kk} ELSE {}
      /\ EventAfter(a.doing, e) = IF a.doing \in {"dismiss", "reopen"} THEN PersonEvent(a) ELSE e
  BY <1>1, <1>2 DEF Events, PersonEvent, PersonEvents, EventAfter, PersonRec
<1>8. /\ new \in Row /\ Marked(new) /\ new.status # "absent"
      /\ new.status = StatusAfter(EventAfter(a.doing, e))
      /\ new.status = "resolved" => row[kk].status = "resolved"
  BY <1>1, <1>2, <1>3, <1>4, PersonFlush
<1>9. /\ row \in [Keys -> Row] /\ judged \in [Keys -> Facts]
      /\ \A k \in Keys : Marked(row[k]) /\ (k \notin overtaken => row[k].status = StatusAfter(shown[k]))
  BY DEF QueueInv, QueueShapes, HistoryExplainsStatus
<1> HIDE DEF a, kk, new, kinds
<1>10. TimesTyped'
  BY <1>1, <1>5, TimesKept
<1>11. /\ shown' \in [Keys -> Events] /\ overtaken' \subseteq Keys
       /\ \A k \in Keys \ overtaken' : IF k \in PersonEvents(a) THEN shown'[k] = PersonEvent(a)
                                      ELSE k \notin overtaken /\ shown'[k] = shown[k]
  BY <1>1, <1>5, <1>7, RecordedShown
<1>12. row' \in [Keys -> Row] /\ judged' \in [Keys -> Facts]
  BY <1>1, <1>5, <1>6, <1>8, <1>9
<1>13. row'[kk] = new /\ \A k \in Keys : k # kk => row'[k] = row[k]
  BY <1>1, <1>5, <1>9
<1>14. ASSUME NEW k \in Keys
       PROVE  /\ Marked(row'[k])
              /\ row[k].status # "absent" => row'[k].status # "absent"
              /\ k \notin overtaken' => row'[k].status = StatusAfter(shown'[k])
              /\ row'[k].status = "resolved" => row[k].status = "resolved"
  <2>1. CASE k = kk
    <3>1. k \notin overtaken' => shown'[k] = EventAfter(a.doing, e)
      BY <1>4, <1>7, <1>11, <2>1
    <3> QED BY <2>1, <3>1, <1>8, <1>13
  <2>2. CASE k # kk
    <3>1. k \notin overtaken' => k \notin overtaken /\ shown'[k] = shown[k]
      BY <1>7, <1>11, <2>2
    <3> QED BY <2>2, <3>1, <1>9, <1>13
  <2> QED BY <2>1, <2>2
<1> QED BY <1>10, <1>11, <1>12, <1>14

LEMMA CommitStep ==
  ASSUME QueueInv, NEW p \in Persons, CommitAction(p)
  PROVE  QueueInv'
<1>1. /\ run' = Stale(run) /\ fresh' = FALSE /\ source' = source
      /\ person' = [person EXCEPT ![p] = IdlePerson]
  BY DEF CommitAction
<1>2. /\ run' \in [Runs -> RunRec]
      /\ \A r \in Runs : /\ run'[r].pc = run[r].pc
                         /\ run'[r].loaded = run[r].loaded
                         /\ run'[r].clean = FALSE
  BY <1>1, StaleType DEF QueueInv, QueueShapes
<1>3. QueueShapes'
  BY <1>1, <1>2, CommitRow, IdleTypes DEF QueueInv, QueueShapes
<1>4. (\A k \in Keys : Marked(row[k]))'
  BY CommitRow
<1>5. RunLoadedThere'
  BY <1>2, CommitRow DEF QueueInv, RunLoadedThere
<1>6. PersonLoadedThere' /\ PersonSaw'
  <2>1. \A q \in Persons : person[q].key \in Keys
    BY DEF QueueInv, QueueShapes, PersonRec
  <2>2. \A q \in Persons : person'[q] = IF q = p THEN IdlePerson ELSE person[q]
    BY <1>1 DEF QueueInv, QueueShapes
  <2>3. IdlePerson.doing = "nothing"
    BY DEF IdlePerson
  <2> QED BY <2>1, <2>2, <2>3, CommitRow DEF QueueInv, PersonLoadedThere, PersonSaw
<1>7. HistoryExplainsStatus'
  BY CommitRow DEF HistoryExplainsStatus
<1>8. CleanRun' /\ FreshRunMirrors'
  BY <1>1, <1>2 DEF CleanRun, FreshRunMirrors
<1> QED BY <1>3, <1>4, <1>5, <1>6, <1>7, <1>8 DEF QueueInv

LEMMA StutterStep == QueueInv /\ UNCHANGED vars => QueueInv'
BY DEF QueueInv, vars, history, times, TimesTyped, QueueShapes, Marked, RunLoadedThere, PersonLoadedThere, PersonSaw,
       HistoryExplainsStatus, CleanRun, FreshRunMirrors

LEMMA NextIInv == QueueInv /\ [Next]_vars => QueueInv'
<1> SUFFICES ASSUME QueueInv, [Next]_vars PROVE QueueInv'
  OBVIOUS
<1>1. CASE \E k \in Keys, i \in Issue \cup {NoIssue} : ChangeSource(k, i)
  BY <1>1, ChangeSourceStep DEF Raisable
<1>2. CASE \E r \in Runs : BeginRun(r) \/ Collect(r) \/ LoadExisting(r)
  BY <1>2, ReadStep
<1>3. CASE \E r \in Runs : Persist(r)
  BY <1>3, PersistStep
<1>4. CASE \E r \in Runs : RunFails(r)
  BY <1>4, RunFailsStep
<1>5. CASE \E p \in Persons : TakeTime(p) \/ CommitAction(p)
  BY <1>5, TakeTimeStep, CommitStep
<1>6. CASE \E p \in Persons : ActionRefused(p)
  BY <1>6, RefusedStep
<1>7. CASE \E p \in Persons, k \in Keys : StartDismiss(p, k) \/ StartReopen(p, k)
  BY <1>7, StartStep
<1>8. CASE \E p \in Persons, k \in Keys, u \in Members \cup {Nobody} : StartAssign(p, k, u)
  BY <1>8, StartStep
<1>9. CASE UNCHANGED vars
  BY <1>9, StutterStep
<1> QED BY <1>1, <1>2, <1>3, <1>4, <1>5, <1>6, <1>7, <1>8, <1>9 DEF Next

LEMMA Inductive == Spec => []QueueInv
BY InitIInv, NextIInv, PTL DEF Spec

-----------------------------------------------------------------------------
(* The theorems. *)

\* For any number of runs and people in flight the rows keep their shape, and
\* the resolution and dismissal columns are set exactly in their status.
THEOREM ExceptionsTyped == Spec => []TypeOK
<1>1. QueueInv => TypeOK
  BY DEF QueueInv, QueueShapes, TimesTyped, TypeOK, Marked, Raisable, Events, RunRec, PersonRec
<1> QED BY <1>1, Inductive, PTL

\* The last status event of an exception's page tells the status of the row, although
\* no transaction locks what it reads, unless a transaction that took its time before
\* that event's committed another one after it (service.py get_exception, run.py refresh).
THEOREM HistorySafe == Spec => []HistoryExplainsStatus
<1>1. QueueInv => HistoryExplainsStatus
  BY DEF QueueInv
<1> QED BY <1>1, Inductive, PTL

\* After a run that nothing overlapped the queue is what the generators raise.
THEOREM MirrorSafe == Spec => []FreshRunMirrors
<1>1. QueueInv => FreshRunMirrors
  BY DEF QueueInv
<1> QED BY <1>1, Inductive, PTL

\* Only refresh resolves, and only what its generators no longer raised.
THEOREM ResolvedByRun == Spec => OnlyRunResolves
<1> DEFINE P == \A k \in Keys : row[k].status # "resolved" /\ row'[k].status = "resolved" =>
                  \E r \in Runs : run[r].pc = "loaded" /\ run[r].raised[k] = NoIssue
<1>1. ASSUME QueueInv, [Next]_vars PROVE P
  <2>1. ASSUME NEW r \in Runs, Persist(r) PROVE P
    BY <1>1, <2>1, PersistRows DEF Persist
  <2>2. ASSUME NEW p \in Persons, CommitAction(p) PROVE P
    BY <1>1, <2>2, CommitRow
  <2>3. CASE UNCHANGED row
    BY <2>3
  <2> QED BY <1>1, <2>1, <2>2, <2>3
      DEF Next, vars, ChangeSource, BeginRun, TakeTime, Collect, LoadExisting, RunFails, ActionRefused,
          StartDismiss, StartReopen, StartAssign, LoadRow
<1> HIDE DEF P
<1>2. QueueInv /\ [Next]_vars => [P]_vars
  BY <1>1
<1>3. Spec => [][P]_vars
  BY <1>2, Inductive, PTL DEF Spec
<1> QED BY <1>3 DEF P, OnlyRunResolves

\* A run that begins and ends with nothing changed since the last one writes no
\* row and no event.
THEOREM SecondRunSafe == Spec => SecondRunWritesNothing
<1> DEFINE P == \A r \in Runs : fresh /\ run[r].clean /\ Persist(r) => UNCHANGED row /\ RunEvents(r) = {}
<1>1. ASSUME QueueInv PROVE P
  <2> SUFFICES ASSUME NEW r \in Runs, fresh, run[r].clean, Persist(r)
               PROVE  row' = row /\ RunEvents(r) = {}
    OBVIOUS
  <2>1. run[r].loaded = row /\ run[r].raised = source
    BY <1>1 DEF QueueInv, CleanRun, Persist
  <2>2. row \in [Keys -> Row] /\ source \in [Keys -> Raisable]
    BY <1>1 DEF QueueInv, QueueShapes
  <2>3. ASSUME NEW k \in Keys
        PROVE  RunWrites(r, k) = row[k] /\ RunEvent(r, k) = "none"
    <3>1. Mirrors(row[k], source[k])
      BY <1>1 DEF QueueInv, FreshRunMirrors, Mirrors
    <3>2. row[k] \in Row /\ source[k] \in Raisable
      BY <2>2
    <3>3. Target(row[k], source[k]) = row[k] /\ StatusEvent(row[k], source[k]) = "none"
      BY <3>1, <3>2, TargetMirrors
    <3>4. Flushed(row[k], row[k], row[k]) = row[k]
      BY <3>2, FlushedClean
    <3> QED BY <2>1, <3>3, <3>4 DEF RunWrites, RunTarget, RunEvent
  <2>4. row' = [k \in Keys |-> row[k]]
    BY <2>3 DEF Persist
  <2>5. RunEvents(r) = {}
    BY <2>3 DEF RunEvents
  <2> QED BY <2>2, <2>4, <2>5
<1> HIDE DEF P
<1>2. QueueInv /\ [Next]_vars => [P]_vars
  BY <1>1
<1>3. Spec => [][P]_vars
  BY <1>2, Inductive, PTL DEF Spec
<1> QED BY <1>3 DEF P, SecondRunWritesNothing

\* Whatever runs and people overlap, every row keeps its shape, the last status event of
\* its page tells its status unless that event was overtaken by one with an earlier time,
\* and a run nobody overlapped leaves the queue its generators raise (exceptions/run.py,
\* service.py).
THEOREM QueueIsMirror == Spec => []QueueMirrors
BY ExceptionsTyped, HistorySafe, MirrorSafe, PTL DEF QueueMirrors

\* Only a run resolves, and a run that finds nothing changed writes nothing.
THEOREM RunsAreDisciplined == Spec => RunDiscipline
BY ResolvedByRun, SecondRunSafe DEF RunDiscipline
================================================================================
