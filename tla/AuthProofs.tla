------------------------------ MODULE AuthProofs ------------------------------
(***************************************************************************)
(* Theorems about who may sign in and enter which company                  *)
(* (backend/app/auth), for any number of users, companies and browsers.    *)
(*                                                                         *)
(* Memberships: a firm keeps an administrator however requests interleave; *)
(* requests that never overlapped keep firm and client roles apart and     *)
(* finish a removal; only the two known orders of row locks close a circle.*)
(*                                                                         *)
(* Accounts: a person's account and sessions agree, however many requests  *)
(* read the user row and write it later; the throttle bounds its table.    *)
(***************************************************************************)
EXTENDS Memberships, Accounts, FiniteSetTheorems, TLAPS

\* Of the request that holds the firm row and is about to take the firm_admin role
\* from its target: another administrator was counted and cannot go before it ends.
AnotherIsLeft ==
  \A u \in Users :
    lock = u /\ req[u].op.role # "firm_admin" =>
      \E v \in Users : v # req[u].op.target /\ firm[v] = "firm_admin"

AdminInv == TypeOK /\ AdminStays /\ AnotherIsLeft

-----------------------------------------------------------------------------
(* Shapes. *)

\* A request that is begun, and no request at all, are requests.
LEMMA RequestType ==
  /\ \A pc \in {"enter", "begun", "decided"}, op \in AdminOps \cup OtherOps, c \in BOOLEAN :
       Request(pc, op, c) \in Requests
  /\ Idle \in Requests
<1>1. ASSUME NEW pc \in {"idle", "enter", "begun", "decided"},
             NEW op \in AdminOps \cup OtherOps, NEW c \in BOOLEAN
      PROVE  Request(pc, op, c) \in Requests
  BY DEF Request, Requests, OtherOps
<1>2. Op("none", Nobody, "none") \in OtherOps
  BY DEF OtherOps
<1> QED BY <1>1, <1>2 DEF Idle

\* A request with another place, another set of rows or another mark is a request.
LEMMA RequestExcept ==
  ASSUME NEW r \in Requests,
         NEW pc \in {"decided", "ended", "audit", "clean"},
         NEW own \in BOOLEAN, NEW todo \in SUBSET Tenants
  PROVE  /\ [r EXCEPT !.pc = pc] \in Requests /\ [r EXCEPT !.pc = pc].op = r.op
         /\ [r EXCEPT !.pc = pc, !.todo = todo] \in Requests
         /\ [r EXCEPT !.todo = todo] \in Requests
         /\ [r EXCEPT !.todo = todo].pc = r.pc /\ [r EXCEPT !.todo = todo].op = r.op
         /\ [r EXCEPT !.own = own] \in Requests
         /\ [r EXCEPT !.own = own].pc = r.pc /\ [r EXCEPT !.own = own].op = r.op
         /\ r.todo \in SUBSET Tenants
BY DEF Requests

\* The request that Starts has read its session and has no lock.
LEMMA StartsType ==
  ASSUME TypeOK, NEW u \in Users, NEW pc \in {"enter", "begun", "decided"},
         NEW op \in AdminOps \cup OtherOps, NEW c \in BOOLEAN,
         pc = "decided" => op.kind \notin Locked,
         Starts(u, Request(pc, op, c))
  PROVE  TypeOK' /\ req[u] = Idle
<1>1. /\ UNCHANGED <<firm, mem, sess, lock>>
      /\ req[u] = Idle
      /\ req' = [req EXCEPT ![u] = Request(pc, op, c)]
      /\ alone' \in BOOLEAN
  BY DEF Starts, TypeOK
<1>2. req' \in [Users -> Requests]
  BY <1>1, RequestType DEF TypeOK
<1>3. lock # u
  BY <1>1 DEF TypeOK, Idle, Request
<1>4. \A v \in Users : lock' = v <=> req'[v].pc = "decided" /\ req'[v].op.kind \in Locked
  BY <1>1, <1>3 DEF TypeOK, Request
<1> QED BY <1>1, <1>2, <1>4 DEF TypeOK

\* What EndAs leaves, when the others keep their place and their operation.
LEMMA EndAsType ==
  ASSUME TypeOK, NEW u \in Users, NEW r \in [Users -> Requests],
         \A v \in Users : r[v].pc = req[v].pc /\ r[v].op = req[v].op,
         EndAs(u, r)
  PROVE  /\ req' \in [Users -> Requests] /\ lock' \in Users \cup {Nobody} /\ alone' \in BOOLEAN
         /\ \A v \in Users : lock' = v <=> req'[v].pc = "decided" /\ req'[v].op.kind \in Locked
<1>1. req' \in [Users -> Requests] /\ lock' \in Users \cup {Nobody} /\ alone' \in BOOLEAN
  BY RequestType DEF EndAs, TypeOK
<1>2. ASSUME NEW v \in Users
      PROVE  lock' = v <=> req'[v].pc = "decided" /\ req'[v].op.kind \in Locked
  <2>1. CASE v = u
    BY <2>1, FirstAssumption DEF EndAs, TypeOK, Idle, Request
  <2>2. CASE v # u
    <3>1. req'[v] = r[v]
      BY <2>2 DEF EndAs
    <3>2. lock' = v <=> lock = v
      BY <2>2, FirstAssumption DEF EndAs
    <3> QED BY <3>1, <3>2 DEF TypeOK
  <2> QED BY <2>1, <2>2
<1> QED BY <1>1, <1>2

\* Nobody's place or operation changes when a row goes.
LEMMA WithoutRowType ==
  ASSUME TypeOK, NEW t \in Tenants, NEW v
  PROVE  /\ WithoutRow(t, v) \in [Users -> Requests]
         /\ \A w \in Users : /\ WithoutRow(t, v)[w].pc = req[w].pc
                             /\ WithoutRow(t, v)[w].op = req[w].op
<1>1. ASSUME NEW w \in Users
      PROVE  /\ WithoutRow(t, v)[w] \in Requests
             /\ WithoutRow(t, v)[w].pc = req[w].pc
             /\ WithoutRow(t, v)[w].op = req[w].op
  <2>1. req[w] \in Requests
    BY DEF TypeOK
  <2>2. /\ [req[w] EXCEPT !.todo = @ \ {t}] \in Requests
        /\ [req[w] EXCEPT !.todo = @ \ {t}].pc = req[w].pc
        /\ [req[w] EXCEPT !.todo = @ \ {t}].op = req[w].op
    BY <2>1 DEF Requests
  <2>3. WithoutRow(t, v)[w] = [req[w] EXCEPT !.todo = @ \ {t}] \/ WithoutRow(t, v)[w] = req[w]
    BY DEF WithoutRow
  <2> QED BY <2>1, <2>2, <2>3
<1> QED BY <1>1 DEF WithoutRow

LEMMA ClearedType ==
  ASSUME TypeOK, NEW u \in Users
  PROVE  Cleared(u) \in [Users -> Tenants \cup {"none", "open"}]
BY DEF Cleared, TypeOK

LEMMA LeftTenantType ==
  ASSUME NEW table \in [Users -> Tenants \cup {"none", "open"}], NEW t, NEW v \in Users
  PROVE  LeftTenant(table, t, v) \in [Users -> Tenants \cup {"none", "open"}]
BY DEF LeftTenant

\* What a request of each kind carries.
LEMMA OpType ==
  ASSUME NEW op \in AdminOps \cup OtherOps
  PROVE  /\ op.kind \in {"create", "change_role"} => op.target \in Users /\ op.role \in FirmRoles
         /\ op.kind = "remove" => op.target \in Users /\ op.role = "none"
         /\ op.kind = "link" => op.target \in Users
         /\ op.kind = "grant" => /\ op.target \in Users /\ op.tenant \in Tenants
                                 /\ op.role \in ClientRoles \cup {"entry"}
         /\ op.kind = "change_client" => /\ op.target \in Users /\ op.tenant \in Tenants
                                         /\ op.role \in ClientRoles
         /\ op.kind = "revoke" => op.target \in Users /\ op.tenant \in Tenants
BY DEF AdminOps, OtherOps, Op

-----------------------------------------------------------------------------
(* Every step keeps the types. *)

\* Each of the module's actions, for one user.
Step(u) ==
  \/ BeginEnter(u) \/ CommitEnter(u) \/ Expire(u) \/ BeginLogout(u)
  \/ \E op \in AdminOps : Begin(u, op)
  \/ Decide(u) \/ FinishFirm(u) \/ EndSessions(u) \/ FinishLink(u)
  \/ FinishMember(u) \/ Revoke(u)
  \/ Remove(u) \/ EndRemove(u) \/ Fails(u)
  \/ \E t \in Tenants : Clean(u, t)

\* The three ways a request begins: its type, and that it holds no lock.
LEMMA BeginsType ==
  ASSUME TypeOK, NEW u \in Users,
         BeginEnter(u) \/ BeginLogout(u) \/ \E op \in AdminOps : Begin(u, op)
  PROVE  /\ TypeOK'
         /\ UNCHANGED <<firm, lock>> /\ lock # u
         /\ \A v \in Users : v # u => req'[v] = req[v]
<1> DEFINE S(pc, op, c) == Starts(u, Request(pc, op, c))
<1>1. Clears(u) \in BOOLEAN
  BY DEF Clears
<1>2. \A k \in {"login", "enter", "logout"}, t \in Tenants \cup {"none", "open"} :
        Op(k, u, t) \in OtherOps /\ Op(k, u, t).kind \notin Locked
  BY DEF OtherOps, Op, Locked
<1>3. auto_selected_tenant(u) \in Tenants \cup {"open"}
  <2>1. CASE Cardinality(accessible_tenant_ids(u)) = 1
    <3>1. accessible_tenant_ids(u) # {}
      BY <2>1, FS_EmptySet
    <3>2. (CHOOSE t \in accessible_tenant_ids(u) : TRUE) \in accessible_tenant_ids(u)
      BY <3>1
    <3> QED BY <2>1, <3>2 DEF auto_selected_tenant, accessible_tenant_ids
  <2>2. CASE Cardinality(accessible_tenant_ids(u)) # 1
    BY <2>2 DEF auto_selected_tenant
  <2> QED BY <2>1, <2>2
<1>4. PICK pc \in {"enter", "begun", "decided"}, op \in AdminOps \cup OtherOps, c \in BOOLEAN :
        S(pc, op, c) /\ (pc = "decided" => op.kind \notin Locked)
  <2>1. CASE BeginEnter(u)
    <3>1. CASE S("enter", Op("login", u, auto_selected_tenant(u)), FALSE)
      BY <3>1, <1>2, <1>3
    <3>2. CASE \E t \in accessible_tenant_ids(u) : S("enter", Op("enter", u, t), Clears(u))
      <4>1. PICK t \in accessible_tenant_ids(u) : S("enter", Op("enter", u, t), Clears(u))
        BY <3>2
      <4>2. t \in Tenants
        BY DEF accessible_tenant_ids
      <4> QED BY <4>1, <4>2, <1>1, <1>2
    <3> QED BY <2>1, <3>1, <3>2 DEF BeginEnter
  <2>2. CASE BeginLogout(u)
    <3>1. S("decided", Op("logout", u, "none"), Clears(u))
      BY <2>2 DEF BeginLogout
    <3> QED BY <3>1, <1>1, <1>2
  <2>3. CASE \E op \in AdminOps : Begin(u, op)
    <3>1. PICK op \in AdminOps : S("begun", op, Clears(u))
      BY <2>3 DEF Begin
    <3> QED BY <3>1, <1>1
  <2> QED BY <2>1, <2>2, <2>3
<1>5. TypeOK' /\ req[u] = Idle
  BY <1>4, StartsType
<1>6. lock # u
  BY <1>5 DEF TypeOK, Idle, Request
<1> QED BY <1>4, <1>5, <1>6 DEF Starts, TypeOK

\* A step of a request that stays open leaves a function of requests, the lock its place.
LEMMA TypeStep ==
  ASSUME TypeOK, NEW u \in Users, Step(u)
  PROVE  TypeOK'
<1> DEFINE op == req[u].op
           v == op.target
<1>0. /\ req[u] \in Requests
      /\ op \in AdminOps \cup OtherOps
  BY DEF TypeOK, Requests
<1>a. \A w \in Users : req[w].pc = req[w].pc /\ req[w].op = req[w].op
  OBVIOUS
<1>b. ASSUME EndAs(u, req), firm' \in [Users -> FirmRoles \cup {"none"}],
             mem' \in [Tenants -> [Users -> ClientRoles \cup {"none", "entry"}]],
             sess' \in [Users -> Tenants \cup {"none", "open"}]
      PROVE  TypeOK'
  BY <1>b, <1>a, EndAsType DEF TypeOK
<1>1. CASE BeginEnter(u) \/ BeginLogout(u) \/ \E o \in AdminOps : Begin(u, o)
  BY <1>1, BeginsType
<1>2. CASE CommitEnter(u)
  <2>1. op.tenant \in Tenants \cup {"none", "open"}
    BY <1>0 DEF AdminOps, OtherOps, Op
  <2> QED BY <1>2, <1>b, <2>1 DEF CommitEnter, TypeOK
<1>3. CASE Expire(u)
  BY <1>3 DEF Expire, TypeOK
<1>4. CASE Decide(u)
  <2>1. RowsRead(op) \in SUBSET Tenants
    BY <1>0, OpType DEF RowsRead, entry_rows_in_firm
  <2>2. req' \in [Users -> Requests]
    <3>1. [req[u] EXCEPT !.pc = "decided", !.todo = RowsRead(op)] \in Requests
      BY <1>0, <2>1, RequestExcept
    <3>2. req' = [req EXCEPT ![u] = [req[u] EXCEPT !.pc = "decided", !.todo = RowsRead(op)]]
      BY <1>4 DEF Decide, TypeOK
    <3> QED BY <3>1, <3>2 DEF TypeOK
  <2>3. ASSUME NEW w \in Users
        PROVE  lock' = w <=> req'[w].pc = "decided" /\ req'[w].op.kind \in Locked
    <3>1. CASE w = u
      BY <1>4, <1>0, <3>1, FirstAssumption DEF Decide, TypeOK, Requests, TakesLock
    <3>2. CASE w # u
      BY <1>4, <3>2, FirstAssumption DEF Decide, TypeOK, TakesLock
    <3> QED BY <3>1, <3>2
  <2> QED BY <1>4, <2>2, <2>3 DEF Decide, TypeOK
<1>5. CASE FinishFirm(u)
  <2>1. op.role \in FirmRoles
    BY <1>5, <1>0, OpType DEF FinishFirm
  <2> QED BY <1>5, <1>b, <2>1, ClearedType DEF FinishFirm, TypeOK
<1>6. CASE EndSessions(u)
  <2>1. req' \in [Users -> Requests]
    <3>1. PICK pc \in {"ended", "audit"} : req' = [req EXCEPT ![u] = [req[u] EXCEPT !.pc = pc]]
      BY <1>6 DEF EndSessions, TypeOK
    <3>2. [req[u] EXCEPT !.pc = pc] \in Requests
      BY <1>0, RequestExcept
    <3> QED BY <3>1, <3>2 DEF TypeOK
  <2>2. ASSUME NEW w \in Users
        PROVE  lock' = w <=> req'[w].pc = "decided" /\ req'[w].op.kind \in Locked
    BY <1>6, <1>0 DEF EndSessions, TypeOK, Requests, Locked
  <2> QED BY <1>6, <2>1, <2>2 DEF EndSessions, TypeOK
<1>7. CASE FinishLink(u)
  BY <1>7, <1>b, ClearedType DEF FinishLink, TypeOK
<1>8. CASE FinishMember(u)
  <2>1. op.target \in Users /\ op.tenant \in Tenants /\ op.role \in ClientRoles \cup {"entry"}
    BY <1>8, <1>0, OpType DEF FinishMember
  <2> QED BY <1>8, <1>b, <2>1, ClearedType DEF FinishMember, TypeOK
<1>9. CASE Revoke(u)
  <2>1. v \in Users /\ op.tenant \in Tenants
    BY <1>9, <1>0, OpType DEF Revoke
  <2>2. LeftTenant(Cleared(u), op.tenant, v) \in [Users -> Tenants \cup {"none", "open"}]
    BY <2>1, ClearedType, LeftTenantType
  <2>3. PICK r \in {req, WithoutRow(op.tenant, v)} : EndAs(u, r)
    BY <1>9 DEF Revoke
  <2>4. r \in [Users -> Requests] /\ \A w \in Users : r[w].pc = req[w].pc /\ r[w].op = req[w].op
    BY <2>1, <2>3, WithoutRowType DEF TypeOK
  <2>5. mem' \in [Tenants -> [Users -> ClientRoles \cup {"none", "entry"}]]
    BY <1>9, <2>1 DEF Revoke, TypeOK
  <2> QED BY <1>9, <2>2, <2>3, <2>4, <2>5, EndAsType DEF Revoke, TypeOK
<1>10. CASE Remove(u)
  <2>1. v \in Users
    BY <1>10, <1>0, OpType DEF Remove
  <2>2. req' \in [Users -> Requests]
    <3> DEFINE q == [req EXCEPT ![u] = [req[u] EXCEPT !.pc = "clean"]]
    <3>1. q \in [Users -> Requests]
      BY <1>0, RequestExcept DEF TypeOK
    <3>2. [q[v] EXCEPT !.own = req[v] = Idle] \in Requests
      BY <2>1, <3>1, RequestExcept
    <3>3. req' = [q EXCEPT ![v] = [q[v] EXCEPT !.own = req[v] = Idle]]
      BY <1>10, <2>1 DEF Remove, TypeOK
    <3> QED BY <3>1, <3>2, <3>3
  <2>3. lock = u
    BY <1>10 DEF Remove, TypeOK, Locked
  <2>4. ASSUME NEW w \in Users
        PROVE  ~(req'[w].pc = "decided" /\ req'[w].op.kind \in Locked)
    BY <1>10, <1>0, <2>1, <2>3 DEF Remove, TypeOK, Requests
  <2> QED BY <1>10, <2>1, <2>2, <2>4, FirstAssumption DEF Remove, TypeOK
<1>11. CASE EndRemove(u)
  BY <1>11, <1>b, ClearedType DEF EndRemove, TypeOK
<1>12. CASE Fails(u)
  BY <1>12, <1>b DEF Fails, TypeOK
<1>13. CASE \E t \in Tenants : Clean(u, t)
  <2>1. PICK t \in Tenants : Clean(u, t)
    BY <1>13
  <2>2. /\ WithoutRow(t, v) \in [Users -> Requests]
        /\ \A w \in Users : /\ WithoutRow(t, v)[w].pc = req[w].pc
                            /\ WithoutRow(t, v)[w].op = req[w].op
    BY WithoutRowType
  <2>3. /\ req' \in [Users -> Requests]
        /\ \A w \in Users : req'[w].pc = req[w].pc /\ req'[w].op = req[w].op
    <3> DEFINE q == WithoutRow(t, v)
    <3>1. req' = [q EXCEPT ![u] = [q[u] EXCEPT !.todo = q[u].todo \ {t}]]
      BY <2>1, <2>2 DEF Clean
    <3>2. q[u] \in Requests /\ q[u].todo \ {t} \in SUBSET Tenants
      BY <2>2 DEF Requests
    <3> HIDE DEF q
    <3>3. /\ [q[u] EXCEPT !.todo = q[u].todo \ {t}] \in Requests
          /\ [q[u] EXCEPT !.todo = q[u].todo \ {t}].pc = q[u].pc
          /\ [q[u] EXCEPT !.todo = q[u].todo \ {t}].op = q[u].op
      BY <3>2, RequestExcept
    <3>4. q \in [Users -> Requests]
      BY <2>2 DEF q
    <3>5. \A w \in Users : req'[w].pc = q[w].pc /\ req'[w].op = q[w].op
      BY <3>1, <3>3, <3>4
    <3>6. req' \in [Users -> Requests]
      BY <3>1, <3>3, <3>4
    <3> QED BY <2>2, <3>5, <3>6 DEF q
  <2>4. mem' \in [Tenants -> [Users -> ClientRoles \cup {"none", "entry"}]]
    BY <2>1 DEF Clean, TypeOK
  <2>5. sess' \in [Users -> Tenants \cup {"none", "open"}]
    BY <2>1 DEF Clean, TypeOK, LeftTenant
  <2> QED BY <2>1, <2>3, <2>4, <2>5 DEF Clean, TypeOK
<1> QED BY <1>1, <1>2, <1>3, <1>4, <1>5, <1>6, <1>7, <1>8, <1>9, <1>10, <1>11, <1>12, <1>13 DEF Step

-----------------------------------------------------------------------------
(* An administrator is left. *)

\* A firm_admin who is not the last one is not alone.
LEMMA AnotherAdmin ==
  ASSUME TypeOK, NEW u \in Users, NEW v \in Users, Admins # {}, ~LastAdmin(u, v)
  PROVE  \E w \in Users : w # v /\ firm[w] = "firm_admin"
<1>1. CASE firm[v] = "firm_admin"
  <2>1. ~(Cardinality(Admins) <= 1)
    BY <1>1 DEF LastAdmin, HeldRole
  <2>2. Cardinality({v}) = 1
    BY FS_Singleton
  <2>3. Admins # {v}
    BY <2>1, <2>2
  <2> QED BY <1>1, <2>3 DEF Admins
<1>2. CASE firm[v] # "firm_admin"
  BY <1>2 DEF Admins
<1> QED BY <1>1, <1>2

\* A step that leaves the firm memberships alone, and gives the lock to nobody, leaves
\* the rest of the invariant alone.
LEMMA FirmUnchanged ==
  ASSUME AdminInv, UNCHANGED firm,
         \A w \in Users : lock' = w => lock = w /\ req'[w].op = req[w].op
  PROVE  AdminStays' /\ AnotherIsLeft'
BY DEF AdminInv, AdminStays, Admins, AnotherIsLeft

\* EndAs gives the lock to nobody.
LEMMA EndAsLock ==
  ASSUME NEW u \in Users, NEW r, DOMAIN r = Users,
         \A w \in Users : r[w].op = req[w].op,
         EndAs(u, r)
  PROVE  \A w \in Users : lock' = w => lock = w /\ req'[w].op = req[w].op
BY FirstAssumption DEF EndAs

\* Every step keeps the administrator.
LEMMA AdminStep ==
  ASSUME AdminInv, NEW u \in Users, Step(u)
  PROVE  AdminStays' /\ AnotherIsLeft'
<1> DEFINE op == req[u].op
           v == op.target
<1>0. /\ TypeOK /\ Admins # {}
      /\ req[u] \in Requests
      /\ op \in AdminOps \cup OtherOps
      /\ DOMAIN req = Users
  BY DEF AdminInv, AdminStays, TypeOK, Requests
<1>1. CASE BeginEnter(u) \/ BeginLogout(u) \/ \E o \in AdminOps : Begin(u, o)
  <2>1. /\ UNCHANGED <<firm, lock>> /\ lock # u
        /\ \A w \in Users : w # u => req'[w] = req[w]
    BY <1>0, <1>1, BeginsType
  <2> QED BY <2>1, FirmUnchanged
<1>2. CASE CommitEnter(u) \/ FinishLink(u) \/ FinishMember(u) \/ EndRemove(u) \/ Fails(u)
  <2>1. EndAs(u, req) /\ UNCHANGED firm
    BY <1>2 DEF CommitEnter, FinishLink, FinishMember, EndRemove, Fails
  <2>2. \A w \in Users : lock' = w => lock = w /\ req'[w].op = req[w].op
    BY <1>0, <2>1, EndAsLock
  <2> QED BY <2>1, <2>2, FirmUnchanged
<1>3. CASE Expire(u)
  BY <1>3, FirmUnchanged DEF Expire
<1>4. CASE Decide(u)
  <2>1. /\ UNCHANGED firm
        /\ Accepts(u, op)
        /\ \A w \in Users : req'[w].op = req[w].op
    BY <1>4, <1>0 DEF Decide, TypeOK
  <2>2. CASE ~TakesLock(op)
    BY <1>4, <2>1, <2>2, FirmUnchanged DEF Decide
  <2>3. CASE TakesLock(op)
    <3>1. lock' = u
      BY <1>4, <2>3 DEF Decide
    <3>2. v \in Users /\ (op.kind = "remove" => op.role = "none")
      BY <1>0, <2>3, OpType DEF TakesLock, Locked
    <3>3. op.role = "firm_admin" \/ ~LastAdmin(u, v)
      BY <2>1, <2>3, <3>2 DEF TakesLock, Locked, Accepts
    <3>4. op.role # "firm_admin" => \E w \in Users : w # v /\ firm[w] = "firm_admin"
      BY <1>0, <3>2, <3>3, AnotherAdmin
    <3> QED BY <2>1, <3>1, <3>4, <1>0 DEF AdminStays, Admins, AnotherIsLeft
  <2> QED BY <2>2, <2>3
<1>5. CASE FinishFirm(u)
  <2>1. /\ req[u].pc = "decided" /\ op.kind \in {"create", "change_role"}
        /\ FirmHolders(u) = {}
        /\ op.kind = "create" => firm[v] = "none"
        /\ firm' = firm \/ firm' = [firm EXCEPT ![v] = op.role]
        /\ EndAs(u, req)
    BY <1>5 DEF FinishFirm
  <2>2. v \in Users /\ op.role \in FirmRoles
    BY <1>0, <2>1, OpType
  <2>3. \A w \in Users : lock' # w
    BY <2>1, FirstAssumption DEF EndAs, FirmHolders
  <2>4. AnotherIsLeft'
    BY <2>3 DEF AnotherIsLeft
  <2>5. \E w \in Users : firm'[w] = "firm_admin"
    <3>1. CASE op.role = "firm_admin"
      BY <1>0, <2>1, <2>2, <3>1 DEF TypeOK, Admins
    <3>2. CASE op.kind = "create"
      BY <1>0, <2>1, <2>2, <3>2 DEF TypeOK, Admins
    <3>3. CASE op.kind = "change_role" /\ op.role # "firm_admin"
      <4>1. lock = u
        BY <1>0, <2>1, <3>3 DEF TypeOK, Locked
      <4>2. PICK w \in Users : w # v /\ firm[w] = "firm_admin"
        BY <3>3, <4>1 DEF AdminInv, AnotherIsLeft
      <4>3. firm'[w] = "firm_admin"
        BY <1>0, <2>1, <4>2 DEF TypeOK
      <4> QED BY <4>3
    <3> QED BY <2>1, <3>1, <3>2, <3>3
  <2> QED BY <2>4, <2>5 DEF AdminStays, Admins
<1>6. CASE EndSessions(u)
  <2>1. UNCHANGED <<firm, lock>> /\ \A w \in Users : req'[w].op = req[w].op
    BY <1>6, <1>0 DEF EndSessions, TypeOK, Requests
  <2> QED BY <2>1, FirmUnchanged
<1>7. CASE Revoke(u)
  <2>1. op.tenant \in Tenants
    BY <1>7, <1>0, OpType DEF Revoke
  <2>2. PICK r \in {req, WithoutRow(op.tenant, v)} : EndAs(u, r)
    BY <1>7 DEF Revoke
  <2>3. DOMAIN r = Users /\ \A w \in Users : r[w].op = req[w].op
    BY <1>0, <2>1, <2>2, WithoutRowType
  <2>4. \A w \in Users : lock' = w => lock = w /\ req'[w].op = req[w].op
    BY <2>2, <2>3, EndAsLock
  <2> QED BY <1>7, <2>4, FirmUnchanged DEF Revoke
<1>8. CASE Remove(u)
  <2>1. /\ lock = u
        /\ v \in Users /\ op.role = "none"
        /\ lock' = Nobody
        /\ firm' = [firm EXCEPT ![v] = "none"]
    BY <1>0, <1>8, OpType DEF Remove, TypeOK, Locked
  <2>2. PICK w \in Users : w # v /\ firm[w] = "firm_admin"
    BY <2>1 DEF AdminInv, AnotherIsLeft
  <2>3. firm'[w] = "firm_admin"
    BY <1>0, <2>1, <2>2 DEF TypeOK
  <2> QED BY <2>1, <2>3, FirstAssumption DEF AdminStays, Admins, AnotherIsLeft
<1>9. CASE \E t \in Tenants : Clean(u, t)
  <2>1. PICK t \in Tenants : Clean(u, t)
    BY <1>9
  <2>2. /\ WithoutRow(t, v) \in [Users -> Requests]
        /\ \A w \in Users : WithoutRow(t, v)[w].op = req[w].op
    BY <1>0, WithoutRowType
  <2>3. \A w \in Users : req'[w].op = req[w].op
    BY <2>1, <2>2 DEF Clean, Requests
  <2> QED BY <2>1, <2>3, FirmUnchanged DEF Clean
<1> QED BY <1>1, <1>2, <1>3, <1>4, <1>5, <1>6, <1>7, <1>8, <1>9 DEF Step

-----------------------------------------------------------------------------
(* Requests that follow one another. *)

\* What one request has read stays true until it writes.
Steady(u) ==
  LET r == req[u]
      v == r.op.target
  IN /\ r.pc = "decided" /\ r.op.kind = "create" => client_rows_in_firm(v) = {}
     /\ r.pc = "decided" /\ r.op.kind = "change_role" => firm[v] # "none"
     /\ r.pc = "decided" /\ r.op.kind \in {"grant", "change_client"} /\ r.op.role # "entry" =>
          firm[v] = "none"
     /\ r.pc = "decided" /\ r.op.kind = "remove" => entry_rows_in_firm(v) \subseteq r.todo
     /\ r.pc = "clean" =>
          r.op.kind = "remove" /\ firm[v] = "none" /\ entry_rows_in_firm(v) \subseteq r.todo

\* One request at a time, and the roles apart between and within requests.
OneByOne ==
  /\ \A u, w \in Users : req[u] # Idle /\ req[w] # Idle => u = w
  /\ \A u \in Users : firm[u] # "none" => client_rows_in_firm(u) = {}
  /\ \A u \in Users : Steady(u)

ApartInv == TypeOK /\ (alone => OneByOne)

\* A request in any other place asks nothing of the roles.
LEMMA IdleIsSteady ==
  ASSUME NEW w, req'[w].pc \notin {"decided", "clean"}
  PROVE  Steady(w)'
BY DEF Steady

\* Nobody has a request when the only one ends.
LEMMA EndsApart ==
  ASSUME TypeOK, OneByOne, NEW u \in Users, req[u] # Idle, NEW r, DOMAIN r = Users,
         \A w \in Users : req[w] = Idle => r[w] = req[w],
         EndAs(u, r)
  PROVE  /\ \A w \in Users : req'[w] = Idle
         /\ \A w \in Users : Steady(w)'
<1>1. ASSUME NEW w \in Users PROVE req'[w] = Idle
  BY <1>1 DEF EndAs, OneByOne
<1>2. ASSUME NEW w \in Users PROVE Steady(w)'
  BY <1>1, <1>2, IdleIsSteady DEF Idle, Request
<1> QED BY <1>1, <1>2

\* When nobody's roles change but through an end, the roles stay apart.
LEMMA QuietEnd ==
  ASSUME TypeOK, OneByOne, NEW u \in Users, req[u] # Idle, EndAs(u, req),
         \A w \in Users : firm'[w] # "none" => client_rows_in_firm(w)' = {}
  PROVE  OneByOne'
<1>1. DOMAIN req = Users
  BY DEF TypeOK
<1>2. /\ \A w \in Users : req'[w] = Idle
      /\ \A w \in Users : Steady(w)'
  BY <1>1, EndsApart
<1> QED BY <1>2 DEF OneByOne

\* A request begins while nobody has one.
LEMMA BeginsApart ==
  ASSUME TypeOK, OneByOne, NEW u \in Users,
         NEW pc \in {"enter", "begun", "decided"}, NEW op, NEW c,
         pc = "decided" => op.kind = "logout",
         Starts(u, Request(pc, op, c)), alone'
  PROVE  OneByOne'
<1>1. /\ req' = [req EXCEPT ![u] = Request(pc, op, c)]
      /\ \A w \in Users : w # u => req'[w] = Idle
      /\ UNCHANGED <<firm, mem>>
  BY DEF Starts, TypeOK
<1>2. req'[u].pc = pc /\ req'[u].op = op
  BY <1>1 DEF TypeOK, Request
<1>3. ASSUME NEW w \in Users PROVE Steady(w)'
  <2>1. CASE w # u
    BY <1>1, <2>1, IdleIsSteady DEF Idle, Request
  <2>2. CASE w = u
    BY <1>2, <2>2 DEF Steady
  <2> QED BY <2>1, <2>2
<1> QED BY <1>1, <1>3 DEF OneByOne, client_rows_in_firm

\* Every step of a request that overlaps none keeps the roles apart.
LEMMA ApartStep ==
  ASSUME TypeOK, OneByOne, NEW u \in Users, Step(u), alone'
  PROVE  OneByOne'
<1> DEFINE op == req[u].op
           v == op.target
<1>0. /\ req[u] \in Requests
      /\ op \in AdminOps \cup OtherOps
      /\ DOMAIN req = Users
      /\ Steady(u)
  BY DEF TypeOK, Requests, OneByOne
<1>a. ASSUME req[u].pc \in {"enter", "begun", "decided", "ended", "audit", "clean"}
      PROVE  req[u] # Idle /\ \A w \in Users : w # u => req[w] = Idle
  <2>1. Idle.pc = "idle"
    BY DEF Idle, Request
  <2>2. req[u] # Idle
    BY <1>a, <2>1
  <2> QED BY <2>2 DEF OneByOne
<1>b. \A w \in Users : firm[w] # "none" => client_rows_in_firm(w) = {}
  BY DEF OneByOne
<1>1. CASE BeginEnter(u) \/ BeginLogout(u) \/ \E o \in AdminOps : Begin(u, o)
  <2>1. PICK pc, o, c : /\ pc \in {"enter", "begun", "decided"}
                        /\ Starts(u, Request(pc, o, c))
                        /\ pc = "decided" => o.kind = "logout"
    <3>1. ASSUME NEW k \in {"enter", "begun"}, NEW o, NEW c, Starts(u, Request(k, o, c))
          PROVE  \E pc, p, d : /\ pc \in {"enter", "begun", "decided"}
                               /\ Starts(u, Request(pc, p, d))
                               /\ pc = "decided" => p.kind = "logout"
      BY <3>1
    <3>2. CASE BeginEnter(u)
      BY <3>1, <3>2 DEF BeginEnter
    <3>3. CASE BeginLogout(u)
      <4>1. Op("logout", u, "none").kind = "logout"
        BY DEF Op
      <4>2. Starts(u, Request("decided", Op("logout", u, "none"), Clears(u)))
        BY <3>3 DEF BeginLogout
      <4> HIDE DEF Op, Starts, Request, Clears
      <4> QED BY <4>1, <4>2
    <3>4. CASE \E o \in AdminOps : Begin(u, o)
      BY <3>1, <3>4 DEF Begin
    <3> QED BY <1>1, <3>2, <3>3, <3>4
  <2> QED BY <2>1, BeginsApart
<1>2. CASE CommitEnter(u) \/ FinishLink(u) \/ EndRemove(u)
  <2>1. EndAs(u, req) /\ UNCHANGED <<firm, mem>> /\ req[u] # Idle
    BY <1>2, <1>a DEF CommitEnter, FinishLink, EndRemove
  <2> QED BY <1>b, <2>1, QuietEnd DEF client_rows_in_firm
<1>3. CASE Fails(u)
  BY <1>3, <1>b, QuietEnd DEF Fails, client_rows_in_firm
<1>4. CASE Expire(u)
  BY <1>4 DEF Expire, OneByOne, Steady, client_rows_in_firm, entry_rows_in_firm
<1>5. CASE Decide(u)
  <2>1. /\ req[u].pc = "begun" /\ Accepts(u, op) /\ UNCHANGED <<firm, mem>>
        /\ req' = [req EXCEPT ![u] = [req[u] EXCEPT !.pc = "decided", !.todo = RowsRead(op)]]
    BY <1>5 DEF Decide, TypeOK
  <2>2. req'[u].op = op /\ req'[u].todo = RowsRead(op) /\ req'[u].pc = "decided"
    BY <1>0, <2>1 DEF Requests
  <2>3. \A w \in Users : w # u => req'[w] = Idle
    BY <1>0, <1>a, <2>1
  <2>4. Steady(u)'
    <3>1. op.kind = "create" => client_rows_in_firm(v) = {}
      BY <2>1 DEF Accepts, MayJoinFirm
    <3>2. op.kind = "change_role" => firm[v] # "none"
      BY <2>1 DEF Accepts
    <3>3. op.kind \in {"grant", "change_client"} /\ op.role # "entry" => firm[v] = "none"
      BY <2>1 DEF Accepts
    <3>4. op.kind = "remove" => entry_rows_in_firm(v) \subseteq RowsRead(op)
      BY DEF RowsRead
    <3> QED BY <2>1, <2>2, <3>1, <3>2, <3>3, <3>4 DEF Steady, client_rows_in_firm, entry_rows_in_firm
  <2>5. \A w \in Users : Steady(w)'
    BY <2>3, <2>4, IdleIsSteady DEF Idle, Request
  <2> QED BY <1>b, <2>1, <2>3, <2>5 DEF OneByOne, client_rows_in_firm
<1>6. CASE FinishFirm(u)
  <2>1. /\ req[u].pc = "decided" /\ op.kind \in {"create", "change_role"}
        /\ firm' = firm \/ firm' = [firm EXCEPT ![v] = op.role]
        /\ EndAs(u, req) /\ UNCHANGED mem
    BY <1>6 DEF FinishFirm
  <2>2. v \in Users
    BY <1>0, <2>1, OpType
  <2>3. client_rows_in_firm(v) = {}
    BY <1>0, <1>b, <2>1, <2>2 DEF Steady
  <2>4. ASSUME NEW w \in Users, firm'[w] # "none" PROVE client_rows_in_firm(w)' = {}
    BY <1>b, <2>1, <2>3, <2>4 DEF client_rows_in_firm, TypeOK
  <2> QED BY <1>a, <2>1, <2>4, QuietEnd
<1>7. CASE EndSessions(u)
  <2>1. PICK pc \in {"ended", "audit"} : req' = [req EXCEPT ![u] = [req[u] EXCEPT !.pc = pc]]
    BY <1>7 DEF EndSessions, TypeOK
  <2>2. req'[u].pc = pc
    BY <1>0, <2>1 DEF Requests
  <2>3. \A w \in Users : w # u => req'[w] = Idle
    BY <1>0, <1>7, <1>a, <2>1 DEF EndSessions
  <2>4. \A w \in Users : Steady(w)'
    BY <2>2, <2>3, IdleIsSteady DEF Idle, Request
  <2> QED BY <1>7, <1>b, <2>3, <2>4 DEF OneByOne, client_rows_in_firm, EndSessions
<1>8. CASE FinishMember(u)
  <2>1. /\ req[u].pc = "decided" /\ op.kind \in {"grant", "change_client"}
        /\ mem' = [mem EXCEPT ![op.tenant][v] = op.role]
        /\ EndAs(u, req) /\ UNCHANGED firm
    BY <1>8 DEF FinishMember
  <2>2. v \in Users /\ op.tenant \in Tenants /\ op.role \in ClientRoles \cup {"entry"}
    BY <1>0, <2>1, OpType
  <2>3. ASSUME NEW w \in Users, firm'[w] # "none" PROVE client_rows_in_firm(w)' = {}
    <3>1. client_rows_in_firm(w) = {}
      BY <1>b, <2>1, <2>3
    <3>2. ASSUME NEW t \in Tenants PROVE mem'[t][w] = mem[t][w] \/ (w = v /\ mem'[t][w] = op.role)
      BY <2>1, <2>2 DEF TypeOK
    <3>3. w = v => op.role \notin ClientRoles
      BY <1>0, <2>1, <2>2, <2>3, RolesAssumption DEF Steady
    <3> QED BY <3>1, <3>2, <3>3 DEF client_rows_in_firm
  <2> QED BY <1>a, <2>1, <2>3, QuietEnd
<1>9. CASE Revoke(u)
  <2>1. /\ req[u].pc = "decided" /\ op.kind = "revoke"
        /\ mem' = mem \/ mem' = [mem EXCEPT ![op.tenant][v] = "none"]
        /\ EndAs(u, req) \/ EndAs(u, WithoutRow(op.tenant, v))
        /\ UNCHANGED firm
    BY <1>9 DEF Revoke
  <2>2. v \in Users /\ op.tenant \in Tenants
    BY <1>0, <2>1, OpType
  <2>3. ASSUME NEW w \in Users, firm'[w] # "none" PROVE client_rows_in_firm(w)' = {}
    <3>1. client_rows_in_firm(w) = {}
      BY <1>b, <2>1, <2>3
    <3>2. ASSUME NEW t \in Tenants PROVE mem'[t][w] = mem[t][w] \/ mem'[t][w] = "none"
      BY <2>1, <2>2 DEF TypeOK
    <3> QED BY <3>1, <3>2, RolesAssumption DEF client_rows_in_firm
  <2>4. \A w \in Users : req[w] = Idle => WithoutRow(op.tenant, v)[w] = req[w]
    BY DEF WithoutRow, Idle, Request, Op
  <2>5. DOMAIN WithoutRow(op.tenant, v) = Users
    BY DEF WithoutRow
  <2>6. /\ \A w \in Users : req'[w] = Idle
        /\ \A w \in Users : Steady(w)'
    BY <1>0, <1>a, <2>1, <2>4, <2>5, EndsApart
  <2> QED BY <2>3, <2>6 DEF OneByOne
<1>10. CASE Remove(u)
  <2>1. /\ req[u].pc = "decided" /\ op.kind = "remove"
        /\ firm' = [firm EXCEPT ![v] = "none"]
        /\ UNCHANGED mem
        /\ req' = [req EXCEPT ![u].pc = "clean", ![v].own = req[v] = Idle]
    BY <1>10 DEF Remove
  <2>2. v \in Users /\ firm \in [Users -> FirmRoles \cup {"none"}]
    BY <1>0, <2>1, OpType DEF TypeOK
  <2>3. \A w \in Users : /\ req'[w].op = req[w].op /\ req'[w].todo = req[w].todo
                         /\ req'[w].pc = IF w = u THEN "clean" ELSE req[w].pc
                         /\ w # u => req'[w] = [req[w] EXCEPT !.own = TRUE] \/ req'[w] = req[w]
    <3> DEFINE q == [req EXCEPT ![u] = [req[u] EXCEPT !.pc = "clean"]]
    <3>1. req' = [q EXCEPT ![v] = [q[v] EXCEPT !.own = req[v] = Idle]]
      BY <1>0, <2>1, <2>2
    <3>2. \A w \in Users : /\ q[w].op = req[w].op /\ q[w].todo = req[w].todo
                           /\ q[w].pc = IF w = u THEN "clean" ELSE req[w].pc
                           /\ w # u => q[w] = req[w]
                           /\ q[w] \in Requests
      BY <1>0 DEF TypeOK, Requests
    <3>3. DOMAIN q = Users
      BY <1>0
    <3> HIDE DEF q
    <3>4. ASSUME NEW w \in Users, NEW b \in BOOLEAN
          PROVE  /\ [q[w] EXCEPT !.own = b].op = q[w].op /\ [q[w] EXCEPT !.own = b].todo = q[w].todo
                 /\ [q[w] EXCEPT !.own = b].pc = q[w].pc
      BY <3>2 DEF Requests
    <3>5. ASSUME NEW w \in Users, w # u PROVE req[w] = Idle
      BY <1>a, <2>1, <3>5
    <3>6. req[v] = Idle \/ v = u
      BY <2>2, <3>5
    <3>7. ASSUME NEW w \in Users
          PROVE  /\ w = v => req'[w] = [q[w] EXCEPT !.own = req[v] = Idle]
                 /\ w # v => req'[w] = q[w]
      BY <2>2, <3>1, <3>3
    <3>8. ASSUME NEW w \in Users
          PROVE  req'[w].op = q[w].op /\ req'[w].todo = q[w].todo /\ req'[w].pc = q[w].pc
      BY <3>4, <3>7
    <3>9. ASSUME NEW w \in Users, w # u
          PROVE  req'[w] = [req[w] EXCEPT !.own = TRUE] \/ req'[w] = req[w]
      BY <3>2, <3>6, <3>7, <3>9
    <3> QED BY <3>2, <3>8, <3>9
  <2>4. \A w \in Users : w # u => req'[w] = Idle
    <3>1. ASSUME NEW w \in Users, w # u PROVE req[w] = Idle
      BY <1>a, <2>1, <3>1
    <3>2. [Idle EXCEPT !.own = TRUE] = Idle
      <4>1. Idle \in Requests /\ Idle.own = TRUE
        BY RequestType DEF Idle, Request
      <4>2. ASSUME NEW r \in Requests, r.own = TRUE PROVE [r EXCEPT !.own = TRUE] = r
        BY <4>2 DEF Requests
      <4> QED BY <4>1, <4>2
    <3> QED BY <2>3, <3>1, <3>2
  <2>5. Steady(u)'
    <3>1. entry_rows_in_firm(v) \subseteq req[u].todo
      BY <1>0, <2>1 DEF Steady
    <3>2. firm'[v] = "none"
      BY <2>1, <2>2
    <3> QED BY <2>1, <2>3, <3>1, <3>2 DEF Steady, entry_rows_in_firm
  <2>6. \A w \in Users : Steady(w)'
    BY <2>4, <2>5, IdleIsSteady DEF Idle, Request
  <2> QED BY <1>b, <2>1, <2>2, <2>4, <2>6 DEF OneByOne, client_rows_in_firm
<1>11. CASE \E t \in Tenants : Clean(u, t)
  <2>1. PICK t \in Tenants : Clean(u, t)
    BY <1>11
  <2>2. /\ req[u].pc = "clean" /\ op.kind = "remove" /\ v \in Users /\ firm[v] = "none"
        /\ entry_rows_in_firm(v) \subseteq req[u].todo
        /\ mem' = [mem EXCEPT ![t][v] = "none"]
        /\ UNCHANGED firm
    BY <1>0, <2>1, OpType DEF Clean, Steady
  <2>3. \A w \in Users : WithoutRow(t, v)[w] = req[w]
    <3>1. ASSUME NEW w \in Users PROVE req[w].op.kind \notin {"change_client", "revoke"}
      BY <1>a, <2>2 DEF Idle, Request, Op
    <3> QED BY <3>1 DEF WithoutRow
  <2>4. WithoutRow(t, v) = req
    BY <1>0, <2>3 DEF WithoutRow, TypeOK
  <2>5. req' = [req EXCEPT ![u] = [req[u] EXCEPT !.todo = req[u].todo \ {t}]]
    BY <1>0, <2>1, <2>4 DEF Clean
  <2>6. /\ req'[u].op = op /\ req'[u].pc = "clean" /\ req'[u].todo = req[u].todo \ {t}
        /\ \A w \in Users : w # u => req'[w] = Idle
    BY <1>0, <1>a, <2>2, <2>5 DEF Requests
  <2>7. ASSUME NEW s \in Tenants, NEW w \in Users
        PROVE  mem'[s][w] = IF s = t /\ w = v THEN "none" ELSE mem[s][w]
    BY <2>2 DEF TypeOK
  <2>8. Steady(u)'
    <3>1. entry_rows_in_firm(v)' \subseteq req[u].todo \ {t}
      <4>1. ASSUME NEW s \in Tenants, mem'[s][v] = "entry"
            PROVE  s \in req[u].todo \ {t}
        <5>1. s # t /\ mem[s][v] = "entry"
          BY <2>2, <2>7, <4>1
        <5>2. s \in entry_rows_in_firm(v)
          BY <5>1 DEF entry_rows_in_firm
        <5> QED BY <2>2, <5>1, <5>2
      <4> QED BY <2>6, <4>1 DEF entry_rows_in_firm
    <3> QED BY <2>2, <2>6, <3>1 DEF Steady
  <2>9. \A w \in Users : Steady(w)'
    BY <2>6, <2>8, IdleIsSteady DEF Idle, Request
  <2>10. ASSUME NEW w \in Users, firm'[w] # "none" PROVE client_rows_in_firm(w)' = {}
    <3>1. client_rows_in_firm(w) = {}
      BY <1>b, <2>2, <2>10
    <3> QED BY <2>7, <3>1, RolesAssumption DEF client_rows_in_firm
  <2> QED BY <2>6, <2>9, <2>10 DEF OneByOne
<1> QED BY <1>1, <1>2, <1>3, <1>4, <1>5, <1>6, <1>7, <1>8, <1>9, <1>10, <1>11 DEF Step

\* No step makes overlapping requests not to have overlapped.
LEMMA StaysOverlapped ==
  ASSUME NEW u \in Users, Step(u), alone'
  PROVE  alone
BY DEF Step, BeginEnter, CommitEnter, Expire, BeginLogout, Begin, Decide, FinishFirm, EndSessions,
       FinishLink, FinishMember, Revoke, Remove, EndRemove, Fails, Clean, Starts, EndAs

LEMMA ApartInvariance == Spec => []ApartInv
<1>1. Init => ApartInv
  <2> SUFFICES ASSUME Init PROVE ApartInv
    OBVIOUS
  <2>1. TypeOK
    BY RequestType, FirstAssumption DEF Init, TypeOK, FirmRoles, Idle, Request
  <2>2. OneByOne
    BY RolesAssumption DEF Init, OneByOne, Steady, client_rows_in_firm, Idle, Request
  <2> QED BY <2>1, <2>2 DEF ApartInv
<1>2. ApartInv /\ [Next]_vars => ApartInv'
  <2> SUFFICES ASSUME ApartInv, [Next]_vars PROVE ApartInv'
    OBVIOUS
  <2>1. CASE Next
    <3>1. PICK u \in Users : Step(u)
      BY <2>1 DEF Next, Step
    <3>2. TypeOK'
      BY <3>1, TypeStep DEF ApartInv
    <3>3. ASSUME alone' PROVE OneByOne'
      BY <3>1, <3>3, StaysOverlapped, ApartStep DEF ApartInv
    <3> QED BY <3>2, <3>3 DEF ApartInv
  <2>2. CASE UNCHANGED vars
    BY <2>2 DEF vars, ApartInv, TypeOK, OneByOne, Steady, client_rows_in_firm, entry_rows_in_firm
  <2> QED BY <2>1, <2>2
<1> QED BY <1>1, <1>2, PTL DEF Spec

\* There is one firm row: who waits for its holder is not waited for by it, so a circle
\* goes over a session row.
LEMMA CirclesAreKnown == NoWaitCycle
<1> SUFFICES ASSUME NEW S \in SUBSET Users, Cycle(S),
                    \A u \in S : ~req[u].cleared /\ req[u].pc # "ended"
             PROVE  FALSE
  BY DEF NoWaitCycle
<1>1. ASSUME NEW u \in S PROVE \E w \in S : w # u /\ lock = w
  <2>1. PICK w \in S : w \in WaitsFor(u)
    BY DEF Cycle
  <2>2. ASSUME NEW x PROVE w \notin SessionHolders(u, x)
    BY DEF SessionHolders, HoldsSession
  <2>3. w \in FirmHolders(u)
    BY <2>1, <2>2 DEF WaitsFor
  <2> QED BY <2>3 DEF FirmHolders
<1>2. PICK u \in S : TRUE
  BY DEF Cycle
<1>3. PICK w \in S : lock = w
  BY <1>1, <1>2
<1> QED BY <1>1, <1>3

-----------------------------------------------------------------------------
(* The theorems. *)

\* The invariant: it holds in the initial state and every step of Next keeps it.
LEMMA AdminInvariance == Spec => []AdminInv
<1>1. Init => AdminInv
  <2> SUFFICES ASSUME Init PROVE AdminInv
    OBVIOUS
  <2>1. TypeOK
    BY RequestType, FirstAssumption DEF Init, TypeOK, FirmRoles, Idle, Request
  <2>2. AdminStays
    BY FirstAssumption DEF Init, AdminStays, Admins
  <2> QED BY <2>1, <2>2, FirstAssumption DEF Init, AdminInv, AnotherIsLeft
<1>2. AdminInv /\ [Next]_vars => AdminInv'
  <2> SUFFICES ASSUME AdminInv, [Next]_vars PROVE AdminInv'
    OBVIOUS
  <2>1. CASE Next
    <3>1. PICK u \in Users : Step(u)
      BY <2>1 DEF Next, Step
    <3> QED BY <3>1, TypeStep, AdminStep DEF AdminInv
  <2>2. CASE UNCHANGED vars
    BY <2>2 DEF vars, AdminInv, TypeOK, AdminStays, Admins, AnotherIsLeft
  <2> QED BY <2>1, <2>2
<1> QED BY <1>1, <1>2, PTL DEF Spec

\* The firm row is held by the one request that is changing or removing a firm
\* membership (_lock_firm), and every variable keeps its shape.
THEOREM LockIsExclusive == Spec => []TypeOK
<1>1. AdminInv => TypeOK
  BY DEF AdminInv
<1> QED BY <1>1, AdminInvariance, PTL

\* _lock_firm and _count_firm_admins: whoever demotes or removes whom, however requests
\* interleave and fail, the firm has an administrator, for any number of users.
THEOREM FirmKeepsAnAdmin == Spec => []AdminStays
<1>1. AdminInv => AdminStays
  BY DEF AdminInv
<1> QED BY <1>1, AdminInvariance, PTL

\* D-15 in create_firm_membership, change_firm_membership_role, create_membership and
\* change_membership_role: requests handled one after the other give nobody a firm role
\* and a client role, whatever fails between; and get_principal's clearing or an
\* activation link's early deletes are in every circle of waiting requests.
THEOREM RequestsStayApart == Spec => []RequestsApart
<1>1. ApartInv => RequestsApart
  BY CirclesAreKnown DEF ApartInv, OneByOne, RequestsApart, RolesApart
<1> QED BY <1>1, ApartInvariance, PTL

\* remove_firm_membership: a removal that answers and that no other request overlapped
\* leaves no firm role and no entry row, whatever interrupted removals left before it.
THEOREM RemovalsFinish == Spec => RemovalCleans
<1>1. ApartInv /\ [Next]_vars =>
        [\A u \in Users : alone /\ EndRemove(u) =>
           LET v == req[u].op.target IN firm[v] = "none" /\ entry_rows_in_firm(v) = {}]_vars
  <2> SUFFICES ASSUME ApartInv, NEW u \in Users, alone, EndRemove(u)
               PROVE  /\ firm[req[u].op.target] = "none"
                      /\ entry_rows_in_firm(req[u].op.target) = {}
    OBVIOUS
  <2> QED BY DEF ApartInv, OneByOne, Steady, EndRemove
<1> QED BY <1>1, ApartInvariance, PTL DEF Spec, RemovalCleans
-----------------------------------------------------------------------------
(* Accounts: the invariant. *)

Actor == Window \cup {Admin}
Asking(x) == asks[x] # Free

\* What a request has read and will write, whoever sends it.
AskRow(q) ==
  /\ q.old \in UserRow /\ q.new \in UserRow
  /\ q.ends \in {"none", "own", "all"}
  /\ q.opens \in SessionRow \cup {Free}
  /\ q.era \in Eras /\ q.seen \in BOOLEAN
  /\ q.era <= era /\ q.old.secret <= era /\ q.old.link <= era

\* An enrolment is made whole, only used up while it lasts, and cleared with every session.
KeepsEnrolment(old, new, ends) ==
  /\ new.secret \in {old.secret, 0}
  /\ new.enrolled => new.secret = old.secret
  /\ new.enrolled /\ ~old.enrolled => new.secret # 0
  /\ new.enrolled /\ old.enrolled => new.last >= old.last /\ new.codes \subseteq old.codes
  /\ old.enrolled /\ ~new.enrolled => new.secret = 0 /\ ends = "all"

\* A session with a second factor comes from a request that writes an enrolled row.
OpensVerified(q) ==
  q.opens # Free /\ q.opens.verified => q.new # q.old /\ q.new.enrolled /\ q.ends # "all"

\* What a request accepts is used up in the row it writes.
UsesUp(q) ==
  \/ q.accepts = Free
  \/ /\ q.accepts = <<"totp", q.old.secret, q.new.last>>
     /\ q.new.enrolled /\ (q.old.enrolled => q.old.last < q.new.last)
     /\ q.new # q.old
  \/ \E r \in q.old.codes :
       /\ q.accepts = <<"code", q.old.secret, r>>
       /\ q.old.enrolled /\ q.new.enrolled /\ r \notin q.new.codes
  \/ q.accepts = <<"link", q.old.link>> /\ q.old.link # 0 /\ q.new.link = 0

\* Only the administrator issues links, and each is new.
FreshLink(q) ==
  /\ q.ends = "all" /\ q.new.link = q.era + 1
  /\ q.new.link # user.link
  /\ \A y \in Actor : Asking(y) => asks[y].old.link # q.new.link
  /\ <<"link", q.new.link>> \notin taken

AskHolds(x) ==
  LET q == asks[x]
  IN /\ AskRow(q) /\ KeepsEnrolment(q.old, q.new, q.ends) /\ OpensVerified(q) /\ UsesUp(q)
     /\ IF x = Admin THEN FreshLink(q) ELSE q.new.link \in {q.old.link, 0}
     /\ ~torn => ~q.seen

\* A code accepted under the secret s: used up in the enrolment in force, or of an
\* earlier enrolment.
Spent(s, used) ==
  /\ s <= era
  /\ ~torn => /\ s # 0
              /\ user.enrolled => (s = user.secret => used)
              /\ ~user.enrolled => s < era /\ s # user.secret

TakenSpent ==
  /\ Free \notin taken
  /\ \A s \in Eras, c \in 0..(MaxTick + 1) : <<"totp", s, c>> \in taken => Spent(s, c <= user.last)
  /\ \A s \in Eras, r \in RecoveryCode : <<"code", s, r>> \in taken => Spent(s, r \notin user.codes)
  /\ \A n \in Eras : <<"link", n>> \in taken => n <= era /\ n # 0 /\ (~torn => n # user.link)

\* The requests that will each end the person's sessions.
Ending == {x \in Actor : Asking(x) /\ asks[x].ends = "all"}

AccountInv ==
  /\ AccountTypeOK /\ isFirm \in BOOLEAN /\ torn \in BOOLEAN /\ again \in BOOLEAN
  /\ DOMAIN asks = Actor /\ era # 0
  /\ era + Cardinality(Ending) <= MaxEra + Cardinality(Window) + 1
  /\ user.secret <= era /\ user.link <= era
  /\ \A x \in Actor : Asking(x) => AskHolds(x)
  /\ TakenSpent
  /\ SessionsCurrent /\ EnrolmentWhole /\ AcceptedOnce

-----------------------------------------------------------------------------
(* Accounts: the rows the operations write. *)

LEMMA EraIsNat ==
  /\ Eras \subseteq Nat /\ 0 \in Eras
  /\ Cardinality(Window) \in Nat /\ IsFiniteSet(Window)
  /\ IsFiniteSet(Actor) /\ Cardinality(Actor) = Cardinality(Window) + 1
<1>1. Cardinality(Window) \in Nat /\ IsFiniteSet(Window)
  BY AccountAssumption, FS_CardinalityType
<1>2. IsFiniteSet(Actor) /\ Cardinality(Actor) = Cardinality(Window) + 1
  BY AccountAssumption, FS_AddElement DEF Actor
<1> QED BY <1>1, <1>2, AccountAssumption DEF Eras

LEMMA RecordFailureRow ==
  ASSUME NEW u \in UserRow
  PROVE  /\ RecordFailure(u) \in UserRow
         /\ RecordFailure(u).secret = u.secret /\ RecordFailure(u).enrolled = u.enrolled
         /\ RecordFailure(u).last = u.last /\ RecordFailure(u).codes = u.codes
         /\ RecordFailure(u).link = u.link
<1> DEFINE n == IF u.span = "open" THEN u.count + 1 ELSE 1
<1>1. n \in Nat
  BY AccountAssumption DEF UserRow
<1>2. CASE n >= MaxFails
  <2>1. RecordFailure(u) = [u EXCEPT !.count = 0, !.span = "none", !.lock = "locked"]
    BY <1>2 DEF RecordFailure
  <2>2. 0 \in 0..MaxFails
    BY AccountAssumption
  <2> HIDE DEF n
  <2> QED BY <2>1, <2>2 DEF UserRow
<1>3. CASE ~(n >= MaxFails)
  <2>1. RecordFailure(u) = [u EXCEPT !.count = n, !.span = "open"] /\ n \in 0..MaxFails
    BY <1>1, <1>3, AccountAssumption DEF RecordFailure
  <2> HIDE DEF n
  <2> QED BY <2>1 DEF UserRow
<1> QED BY <1>2, <1>3

LEMMA ClearFailuresRow ==
  ASSUME NEW u \in UserRow
  PROVE  /\ ClearFailures(u) \in UserRow
         /\ ClearFailures(u).secret = u.secret /\ ClearFailures(u).enrolled = u.enrolled
         /\ ClearFailures(u).last = u.last /\ ClearFailures(u).codes = u.codes
         /\ ClearFailures(u).link = u.link
<1>1. 0 \in 0..MaxFails
  BY AccountAssumption
<1> QED BY <1>1 DEF UserRow, ClearFailures

LEMMA ClearPendingRow ==
  ASSUME NEW u \in UserRow
  PROVE  /\ ClearPendingTotp(u) \in UserRow
         /\ ClearPendingTotp(u).enrolled = u.enrolled
         /\ ClearPendingTotp(u).codes = u.codes /\ ClearPendingTotp(u).link = u.link
         /\ u.enrolled => ClearPendingTotp(u) = u
         /\ ~u.enrolled => ClearPendingTotp(u).secret = 0
<1>1. CASE u.enrolled
  BY <1>1 DEF ClearPendingTotp
<1>2. CASE ~u.enrolled
  <2>1. ClearPendingTotp(u) = [u EXCEPT !.secret = 0, !.last = 0]
    BY <1>2 DEF ClearPendingTotp
  <2>2. 0 \in Eras /\ 0 \in 0..(MaxTick + 1)
    BY EraIsNat, AccountAssumption
  <2> QED BY <1>2, <2>1, <2>2 DEF UserRow
<1> QED BY <1>1, <1>2

LEMMA SetPasswordRow ==
  ASSUME NEW u \in UserRow, era + 1 \in Eras
  PROVE  /\ SetPassword(u) \in UserRow
         /\ SetPassword(u).secret = u.secret /\ SetPassword(u).enrolled = u.enrolled
         /\ SetPassword(u).last = u.last /\ SetPassword(u).codes = u.codes
         /\ SetPassword(u).link = 0
<1> DEFINE c == ClearFailures(u)
<1>1. /\ c \in UserRow
      /\ c.secret = u.secret /\ c.enrolled = u.enrolled
      /\ c.last = u.last /\ c.codes = u.codes
  BY ClearFailuresRow
<1>2. SetPassword(u) = [c EXCEPT !.password = era + 1, !.link = 0, !.live = FALSE]
  BY DEF SetPassword
<1>3. 0 \in Eras
  BY EraIsNat
<1> HIDE DEF c
<1> QED BY <1>1, <1>2, <1>3 DEF UserRow

LEMMA LinkedRow ==
  ASSUME NEW u \in UserRow, era + 1 \in Eras
  PROVE  /\ Linked(u) \in UserRow
         /\ Linked(u).enrolled = u.enrolled /\ Linked(u).codes = u.codes
         /\ u.enrolled => Linked(u).secret = u.secret /\ Linked(u).last = u.last
         /\ ~u.enrolled => Linked(u).secret = 0
         /\ Linked(u).link = era + 1
<1> DEFINE c == ClearPendingTotp(u)
<1>1. /\ c \in UserRow
      /\ c.enrolled = u.enrolled /\ c.codes = u.codes
      /\ u.enrolled => c = u
      /\ ~u.enrolled => c.secret = 0
  BY ClearPendingRow
<1>2. Linked(u) = [c EXCEPT !.link = era + 1, !.live = TRUE]
  BY DEF Linked
<1> HIDE DEF c
<1> QED BY <1>1, <1>2 DEF UserRow

\* The columns that differ, written over the row that is there.
Merged(q) == [c \in DOMAIN user |-> IF q.new[c] # q.old[c] THEN q.new[c] ELSE user[c]]

LEMMA MergedRow ==
  ASSUME user \in UserRow, NEW q, q.old \in UserRow, q.new \in UserRow
  PROVE  /\ Merged(q) \in UserRow
         /\ q.new = q.old => Merged(q) = user
         /\ q.old = user => Merged(q) = q.new
         /\ Merged(q).secret \in {user.secret, q.new.secret}
         /\ Merged(q).link = IF q.new.link # q.old.link THEN q.new.link ELSE user.link
<1> DEFINE Column == {"password", "count", "span", "lock", "secret", "enrolled", "last", "codes",
                      "link", "live"}
<1>1. /\ DOMAIN user = Column /\ DOMAIN q.old = Column /\ DOMAIN q.new = Column
      /\ user = [c \in Column |-> user[c]] /\ q.new = [c \in Column |-> q.new[c]]
  BY DEF UserRow
<1>2. Merged(q) = [c \in Column |-> IF q.new[c] # q.old[c] THEN q.new[c] ELSE user[c]]
  BY <1>1 DEF Merged
<1>3. Merged(q) \in UserRow
  BY <1>2 DEF UserRow
<1>4. q.new = q.old => Merged(q) = user
  BY <1>1, <1>2
<1>5. q.old = user => Merged(q) = q.new
  <2> SUFFICES ASSUME q.old = user PROVE Merged(q) = q.new
    OBVIOUS
  <2>1. \A c \in Column : Merged(q)[c] = q.new[c]
    BY <1>2
  <2> QED BY <1>1, <1>2, <2>1
<1> QED BY <1>2, <1>3, <1>4, <1>5

-----------------------------------------------------------------------------
(* Accounts: a request reads the row. *)

LEMMA EndingFinite ==
  /\ IsFiniteSet(Ending) /\ Cardinality(Ending) \in Nat
  /\ Cardinality(Ending) <= Cardinality(Window) + 1
<1>1. Ending \subseteq Actor
  BY DEF Ending
<1> QED BY <1>1, EraIsNat, FS_Subset, FS_CardinalityType

LEMMA EndingFiniteNext ==
  /\ IsFiniteSet(Ending') /\ Cardinality(Ending') \in Nat
  /\ Cardinality(Ending') <= Cardinality(Window) + 1
<1>1. Ending' \subseteq Actor
  BY DEF Ending
<1> QED BY <1>1, EraIsNat, FS_Subset, FS_CardinalityType

\* What a request that begins in this state may write, and what it hands out.
MayAsk(x, new, ends, opens, accepts) ==
  /\ new \in UserRow /\ ends \in {"none", "own", "all"} /\ opens \in SessionRow \cup {Free}
  /\ KeepsEnrolment(user, new, ends)
  /\ opens # Free /\ opens.verified => new # user /\ new.enrolled /\ ends # "all"
  /\ UsesUp([old |-> user, new |-> new, accepts |-> accepts])
  /\ IF x = Admin THEN ends = "all" /\ new.link = era + 1 ELSE new.link \in {user.link, 0}
  /\ ends = "all" => era < MaxEra
  /\ ~torn => accepts \notin taken

\* A request that begins so keeps the invariant.
LEMMA AskKeeps ==
  ASSUME AccountInv, NEW x \in Actor, NEW new, NEW ends, NEW opens, NEW accepts,
         MayAsk(x, new, ends, opens, accepts),
         Ask(x, new, ends, opens, accepts)
  PROVE  AccountInv'
<1>1. PICK q : /\ q.old = user /\ q.new = new /\ q.ends = ends /\ q.opens = opens
               /\ q.accepts = accepts /\ q.era = era /\ q.seen = (accepts \in taken)
               /\ asks' = [asks EXCEPT ![x] = q]
  <2> DEFINE q == [old |-> user, new |-> new, ends |-> ends, opens |-> opens,
                   accepts |-> accepts, era |-> era, seen |-> accepts \in taken]
  <2> WITNESS q
  <2>1. asks' = [asks EXCEPT ![x] = q]
    BY DEF Ask
  <2> QED BY <2>1
<1>2. /\ asks' = [asks EXCEPT ![x] = q]
      /\ asks[x] = Free
      /\ UNCHANGED <<user, isFirm, held, tick, era, taken, torn, again>>
  BY <1>1 DEF Ask
<1>3. /\ DOMAIN asks' = Actor /\ asks'[x] = q
      /\ \A y \in Actor : y # x => asks'[y] = asks[y]
  BY <1>2 DEF AccountInv
<1>4. /\ user \in UserRow /\ era \in Eras /\ era \in Nat /\ user.link \in Nat
      /\ user.secret <= era /\ user.link <= era
  BY EraIsNat DEF AccountInv, AccountTypeOK, UserRow
<1>5. AskHolds(x)'
  <2>1. AskRow(q)'
    BY <1>1, <1>2, <1>4 DEF AskRow, MayAsk
  <2>2. KeepsEnrolment(q.old, q.new, q.ends) /\ OpensVerified(q)
    BY <1>1 DEF MayAsk, OpensVerified
  <2>3. UsesUp(q)
    BY <1>1 DEF MayAsk, UsesUp
  <2>4. ~torn => ~q.seen
    BY <1>1 DEF MayAsk
  <2>5. CASE x # Admin
    BY <1>1, <1>2, <1>3, <2>1, <2>2, <2>3, <2>4, <2>5
       DEF MayAsk, AskHolds, UsesUp, OpensVerified, KeepsEnrolment
  <2>6. CASE x = Admin
    <3>1. /\ q.ends = "all" /\ q.new.link = era + 1 /\ q.era = era /\ era < MaxEra
      BY <1>1, <2>6 DEF MayAsk
    <3>2. ASSUME NEW y \in Actor, asks'[y] # Free PROVE asks'[y].old.link # q.new.link
      <4>1. CASE y = x
        BY <1>1, <1>3, <1>4, <3>1, <4>1
      <4>2. CASE y # x
        <5>1. asks[y].old.link <= era /\ asks[y].old.link \in Nat
          BY <1>3, <3>2, <4>2, EraIsNat DEF AccountInv, Asking, AskHolds, AskRow, UserRow
        <5> QED BY <1>3, <1>4, <3>1, <4>2, <5>1
      <4> QED BY <4>1, <4>2
    <3>3. <<"link", q.new.link>> \notin taken
      <4>1. era + 1 \in Eras
        BY <1>4, <3>1, AccountAssumption, EraIsNat DEF Eras
      <4> QED BY <1>4, <3>1, <4>1 DEF AccountInv, TakenSpent
    <3>4. FreshLink(q)'
      BY <1>2, <1>4, <3>1, <3>2, <3>3 DEF FreshLink, Asking
    <3> QED BY <1>2, <1>3, <2>1, <2>2, <2>3, <2>4, <2>6, <3>4
         DEF AskHolds, UsesUp, OpensVerified, KeepsEnrolment
  <2> QED BY <2>5, <2>6
<1>6. ASSUME NEW y \in Actor, y # x, asks'[y] # Free PROVE AskHolds(y)'
  <2>1. asks'[y] = asks[y] /\ Asking(y) /\ AskHolds(y)
    BY <1>3, <1>6 DEF AccountInv, Asking
  <2> DEFINE p == asks[y]
  <2>2. y = Admin => FreshLink(p)'
    <3> SUFFICES ASSUME y = Admin PROVE FreshLink(p)'
      OBVIOUS
    <3>1. FreshLink(p)
      BY <2>1 DEF AskHolds
    <3>2. ASSUME NEW z \in Actor, asks'[z] # Free PROVE asks'[z].old.link # p.new.link
      BY <1>1, <1>3, <3>1, <3>2 DEF FreshLink, Asking
    <3> QED BY <1>2, <2>1, <3>1, <3>2 DEF FreshLink, Asking
  <2> QED BY <1>2, <2>1, <2>2 DEF AskHolds, AskRow, UsesUp, OpensVerified, KeepsEnrolment
<1>7. era' + Cardinality(Ending') <= MaxEra + Cardinality(Window) + 1
  <2>1. CASE ends = "all"
    BY <1>2, <1>4, <2>1, EndingFiniteNext, EraIsNat, AccountAssumption DEF MayAsk
  <2>2. CASE ends # "all"
    <3>1. Ending' \subseteq Ending
      BY <1>1, <1>3, <2>2 DEF Ending, Asking
    <3>2. Cardinality(Ending') <= Cardinality(Ending)
      BY <3>1, EndingFinite, FS_Subset
    <3> QED BY <1>2, <1>4, <3>2, EndingFinite, EndingFiniteNext, EraIsNat, AccountAssumption
             DEF AccountInv
  <2> QED BY <2>1, <2>2
<1>8. AccountTypeOK' /\ TakenSpent' /\ SessionsCurrent' /\ EnrolmentWhole' /\ AcceptedOnce'
  BY <1>2 DEF AccountInv, AccountTypeOK, TakenSpent, Spent, SessionsCurrent, EnrolmentWhole,
              AcceptedOnce
<1> QED BY <1>2, <1>3, <1>5, <1>6, <1>7, <1>8 DEF AccountInv, Asking

-----------------------------------------------------------------------------
(* Accounts: a request writes the row. *)

\* Uses of the three kinds are told apart.
LEMMA UsesDiffer ==
  \A a, b, c, d :
    /\ <<"totp", a, b>> = <<"totp", c, d>> => a = c /\ b = d
    /\ <<"code", a, b>> = <<"code", c, d>> => a = c /\ b = d
    /\ <<"link", a>> = <<"link", c>> => a = c
    /\ <<"totp", a, b>> # <<"code", c, d>>
    /\ <<"totp", a, b>> # <<"link", c>>
    /\ <<"code", a, b>> # <<"link", c>>
OBVIOUS

\* What Flush does, in terms of the request.
LEMMA FlushWrites ==
  ASSUME AccountInv, NEW x \in Actor, Flush(x)
  PROVE  /\ Asking(x) /\ AskHolds(x)
         /\ DOMAIN asks' = Actor /\ asks'[x] = Free
         /\ \A y \in Actor : y # x => asks'[y] = asks[y]
         /\ user' = Merged(asks[x])
         /\ era' = IF asks[x].ends = "all" THEN era + 1 ELSE era
         /\ torn' = (torn \/ (asks[x].new # asks[x].old /\ asks[x].old # user))
         /\ again' = (again \/ asks[x].seen)
         /\ taken' = IF asks[x].accepts = Free THEN taken ELSE taken \cup {asks[x].accepts}
         /\ UNCHANGED <<isFirm, tick>>
BY DEF Flush, AccountInv, Asking, Merged

\* The era moves by the requests that were to end the sessions.
LEMMA FlushEra ==
  ASSUME AccountInv, NEW x \in Actor, Flush(x)
  PROVE  /\ era' \in Eras /\ era' \in Nat /\ era \in Nat /\ era' # 0
         /\ era' >= era
         /\ era' + Cardinality(Ending') <= MaxEra + Cardinality(Window) + 1
<1>1. /\ era \in Nat /\ era # 0
      /\ era + Cardinality(Ending) <= MaxEra + Cardinality(Window) + 1
  BY EraIsNat DEF AccountInv, AccountTypeOK
<1>2. era' + Cardinality(Ending') <= MaxEra + Cardinality(Window) + 1
  <2>1. CASE asks[x].ends = "all"
    <3>1. x \in Ending /\ Ending' = Ending \ {x}
      BY <2>1, FlushWrites DEF Ending, Asking
    <3>2. Cardinality(Ending') = Cardinality(Ending) - 1
      BY <3>1, EndingFinite, FS_RemoveElement
    <3> QED BY <1>1, <2>1, <3>2, FlushWrites, EndingFinite, EraIsNat, AccountAssumption
  <2>2. CASE asks[x].ends # "all"
    <3>1. Ending' \subseteq Ending
      BY <2>2, FlushWrites DEF Ending, Asking
    <3>2. Cardinality(Ending') <= Cardinality(Ending)
      BY <3>1, EndingFinite, FS_Subset
    <3> QED BY <1>1, <2>2, <3>2, FlushWrites, EndingFinite, EndingFiniteNext, EraIsNat,
               AccountAssumption
  <2> QED BY <2>1, <2>2
<1>3. era' \in Nat /\ era' >= era /\ era' # 0
  BY <1>1, FlushWrites
<1>4. era' \in Eras
  BY <1>2, <1>3, EndingFiniteNext, EraIsNat, AccountAssumption DEF Eras
<1> QED BY <1>1, <1>2, <1>3, <1>4

\* While no write was lost, a request writes the row it read or nothing.
LEMMA FlushWhole ==
  ASSUME AccountInv, NEW x \in Actor, Flush(x)
  PROVE  /\ user' \in UserRow
         /\ user'.secret <= era' /\ user'.link <= era'
         /\ user'.link \in {user.link, asks[x].new.link}
         /\ ~torn' => /\ ~torn /\ ~asks[x].seen
                      /\ \/ asks[x].new = asks[x].old /\ user' = user
                         \/ asks[x].old = user /\ user' = asks[x].new
<1> DEFINE q == asks[x]
<1>1. /\ AskRow(q) /\ KeepsEnrolment(q.old, q.new, q.ends)
      /\ IF x = Admin THEN FreshLink(q) ELSE q.new.link \in {q.old.link, 0}
      /\ ~torn => ~q.seen
  BY FlushWrites DEF AskHolds
<1>2. user \in UserRow /\ user.secret <= era /\ user.link <= era
  BY DEF AccountInv, AccountTypeOK
<1>3. /\ user' \in UserRow
      /\ q.new = q.old => user' = user
      /\ q.old = user => user' = q.new
      /\ user'.secret \in {user.secret, q.new.secret}
      /\ user'.link = IF q.new.link # q.old.link THEN q.new.link ELSE user.link
  BY <1>1, <1>2, MergedRow, FlushWrites DEF AskRow
<1>4. /\ user.secret \in Nat /\ user.link \in Nat /\ q.old.secret \in Nat /\ q.old.link \in Nat
      /\ q.era \in Nat /\ era \in Nat /\ era' \in Nat /\ era' >= era
  BY <1>1, <1>2, EraIsNat, FlushEra DEF AskRow, UserRow
<1>5. user'.secret <= era'
  BY <1>1, <1>2, <1>3, <1>4 DEF AskRow, KeepsEnrolment
<1>6. user'.link <= era'
  BY <1>1, <1>2, <1>3, <1>4, FlushWrites DEF AskRow, FreshLink
<1>7. torn' = (torn \/ (q.new # q.old /\ q.old # user))
  BY FlushWrites
<1> HIDE DEF q
<1>8. ~torn' => /\ ~torn /\ ~q.seen
               /\ ((q.new = q.old /\ user' = user) \/ (q.old = user /\ user' = q.new))
  BY <1>1, <1>3, <1>7
<1> QED BY <1>3, <1>5, <1>6, <1>8 DEF q

\* The requests that go on.
LEMMA FlushOthers ==
  ASSUME AccountInv, NEW x \in Actor, Flush(x), NEW y \in Actor, y # x, Asking(y)
  PROVE  AskHolds(y)'
<1> DEFINE q == asks[x]
           p == asks[y]
<1>1. AskHolds(y) /\ AskHolds(x) /\ p' = p
  BY FlushWrites DEF AccountInv
<1>2. AskRow(p)'
  <2>1. /\ p.era \in Nat /\ p.old.secret \in Nat /\ p.old.link \in Nat
    BY <1>1, EraIsNat DEF AskHolds, AskRow, UserRow
  <2> QED BY <1>1, <2>1, FlushEra DEF AskHolds, AskRow
<1>3. ~torn' => ~p.seen
  BY <1>1, FlushWhole DEF AskHolds
<1>4. ASSUME y = Admin PROVE FreshLink(p)'
  <2>1. FreshLink(p) /\ q.new.link \in {q.old.link, 0} /\ p.era \in Nat
    BY <1>1, <1>4, EraIsNat DEF AskHolds, AskRow
  <2>2. user'.link # p.new.link
    <3>1. user'.link \in {user.link, q.new.link} /\ q.old.link # p.new.link
      BY <2>1, FlushWrites, FlushWhole DEF FreshLink
    <3> QED BY <2>1, <3>1 DEF FreshLink
  <2>3. \A z \in Actor : asks'[z] # Free => asks'[z].old.link # p.new.link
    BY <2>1, FlushWrites DEF FreshLink, Asking
  <2>4. <<"link", p.new.link>> \notin taken'
    <3>1. <<"link", p.new.link>> \notin taken /\ q.old.link # p.new.link
      BY <2>1, FlushWrites DEF FreshLink
    <3>2. q.accepts # Free => q.accepts # <<"link", p.new.link>>
      BY <1>1, <3>1, UsesDiffer DEF AskHolds, UsesUp
    <3> QED BY <3>1, <3>2, FlushWrites
  <2> QED BY <1>1, <2>1, <2>2, <2>3, <2>4 DEF FreshLink, Asking
<1>5. KeepsEnrolment(p.old, p.new, p.ends) /\ OpensVerified(p) /\ UsesUp(p)
  BY <1>1 DEF AskHolds
<1>6. y # Admin => p.new.link \in {p.old.link, 0}
  BY <1>1 DEF AskHolds
<1>7. KeepsEnrolment(p.old, p.new, p.ends)' /\ OpensVerified(p)' /\ UsesUp(p)'
  BY <1>1, <1>5 DEF KeepsEnrolment, OpensVerified, UsesUp
<1> QED BY <1>1, <1>2, <1>3, <1>4, <1>6, <1>7 DEF AskHolds

\* What was accepted stays used up.
LEMMA FlushSpent ==
  ASSUME AccountInv, NEW x \in Actor, Flush(x), ~torn'
  PROVE  /\ \A s, c \in Nat : Spent(s, c <= user.last) => Spent(s, c <= user.last)'
         /\ \A s \in Nat, r \in RecoveryCode :
              Spent(s, r \notin user.codes) => Spent(s, r \notin user.codes)'
<1> DEFINE q == asks[x]
<1>1. KeepsEnrolment(q.old, q.new, q.ends) /\ era \in Nat
  BY FlushWrites, FlushEra DEF AskHolds
<1>2. /\ era' \in Nat /\ era' >= era /\ ~torn
      /\ q.ends = "all" => era' = era + 1
      /\ user.last \in Nat /\ user'.last \in Nat
  BY FlushEra, FlushWhole, FlushWrites, AccountAssumption DEF AccountInv, AccountTypeOK, UserRow
<1>3. CASE q.new = q.old /\ user' = user
  BY <1>1, <1>2, <1>3 DEF Spent
<1>4. CASE q.old = user /\ user' = q.new
  <2>1. CASE user.enrolled /\ user'.enrolled
    BY <1>1, <1>2, <1>4, <2>1 DEF Spent, KeepsEnrolment
  <2>2. CASE user.enrolled /\ ~user'.enrolled
    BY <1>1, <1>2, <1>4, <2>2 DEF Spent, KeepsEnrolment
  <2>3. CASE ~user.enrolled
    BY <1>1, <1>2, <1>4, <2>3 DEF Spent, KeepsEnrolment
  <2> QED BY <2>1, <2>2, <2>3
<1> QED BY <1>3, <1>4, FlushWhole

\* What a request accepts is new, and used up in the row it writes.
LEMMA FlushAccepts ==
  ASSUME AccountInv, NEW x \in Actor, Flush(x), NEW q, q = asks[x], q.accepts # Free
  PROVE  \/ /\ q.accepts = <<"totp", q.old.secret, q.new.last>>
            /\ Spent(q.old.secret, q.new.last <= user.last)'
         \/ \E r \in RecoveryCode : /\ q.accepts = <<"code", q.old.secret, r>>
                                    /\ Spent(q.old.secret, r \notin user.codes)'
         \/ /\ q.accepts = <<"link", q.old.link>> /\ q.old.link # 0 /\ q.old.link <= era'
            /\ ~torn' => q.old.link # user'.link
<1>1. AskRow(q) /\ KeepsEnrolment(q.old, q.new, q.ends) /\ UsesUp(q)
  BY FlushWrites DEF AskHolds
<1>2. /\ q.old.secret \in Nat /\ q.old.link \in Nat /\ q.old.secret <= era /\ q.old.link <= era
      /\ q.old.codes \subseteq RecoveryCode /\ q.new.last \in Nat
      /\ era \in Nat /\ era' \in Nat /\ era' >= era
  <2>1. q.old \in UserRow /\ q.new \in UserRow /\ q.old.secret <= era /\ q.old.link <= era
    BY <1>1 DEF AskRow
  <2>2. /\ q.old.secret \in Eras /\ q.old.link \in Eras
        /\ q.old.codes \subseteq RecoveryCode /\ q.new.last \in 0..(MaxTick + 1)
    BY <2>1 DEF UserRow
  <2>3. /\ q.old.secret \in Nat /\ q.old.link \in Nat
        /\ q.old.codes \subseteq RecoveryCode /\ q.new.last \in Nat
    <3>1. Eras \subseteq Nat
      BY EraIsNat
    <3>2. q.new.last \in Nat
      BY <2>2
    <3> QED BY <2>2, <3>1, <3>2
  <2>4. era \in Nat /\ era' \in Nat /\ era' >= era
    BY FlushEra
  <2> QED BY <2>1, <2>3, <2>4
<1>3. ~torn' => (q.new = q.old /\ user' = user) \/ (q.old = user /\ user' = q.new)
  BY FlushWhole
<1>4. ~torn => (user.enrolled => user.secret # 0)
  BY DEF AccountInv, EnrolmentWhole
<1>5. ~torn' => ~torn
  BY FlushWhole
<1>6. CASE /\ q.accepts = <<"totp", q.old.secret, q.new.last>>
           /\ q.new.enrolled /\ (q.old.enrolled => q.old.last < q.new.last)
           /\ q.new # q.old
  <2>1. ~torn' => q.old = user /\ user' = q.new
    BY <1>3, <1>6
  <2>2. ~torn' => q.old.secret # 0
    BY <1>1, <1>4, <1>5, <1>6, <2>1 DEF KeepsEnrolment
  <2>3. Spent(q.old.secret, q.new.last <= user.last)'
    BY <1>2, <1>6, <2>1, <2>2 DEF Spent
  <2> QED BY <1>6, <2>3
<1>7. CASE \E r \in q.old.codes :
             /\ q.accepts = <<"code", q.old.secret, r>>
             /\ q.old.enrolled /\ q.new.enrolled /\ r \notin q.new.codes
  <2>1. PICK r \in q.old.codes : /\ q.accepts = <<"code", q.old.secret, r>>
                                 /\ q.old.enrolled /\ q.new.enrolled /\ r \notin q.new.codes
    BY <1>7
  <2>2. ~torn' => q.old = user /\ user' = q.new
    BY <1>3, <2>1
  <2>3. ~torn' => q.old.secret # 0
    BY <1>4, <1>5, <2>1, <2>2
  <2>4. Spent(q.old.secret, r \notin user.codes)'
    BY <1>2, <2>1, <2>2, <2>3 DEF Spent
  <2> QED BY <1>2, <2>1, <2>4
<1>8. CASE q.accepts = <<"link", q.old.link>> /\ q.old.link # 0 /\ q.new.link = 0
  <2>1. ~torn' => user' = q.new
    BY <1>3, <1>8
  <2> QED BY <1>2, <1>8, <2>1
<1> QED BY <1>1, <1>6, <1>7, <1>8 DEF UsesUp

LEMMA FlushTaken ==
  ASSUME AccountInv, NEW x \in Actor, Flush(x)
  PROVE  TakenSpent'
<1>1. PICK q : q = asks[x]
  OBVIOUS
<1>2. /\ Free \notin taken
      /\ \A s \in Eras, c \in 0..(MaxTick + 1) :
           <<"totp", s, c>> \in taken => Spent(s, c <= user.last)
      /\ \A s \in Eras, r \in RecoveryCode : <<"code", s, r>> \in taken => Spent(s, r \notin user.codes)
      /\ \A n \in Eras : <<"link", n>> \in taken => n <= era /\ n # 0 /\ (~torn => n # user.link)
  BY DEF AccountInv, TakenSpent
<1>3. /\ taken' = IF q.accepts = Free THEN taken ELSE taken \cup {q.accepts}
      /\ AskRow(q)
      /\ IF x = Admin THEN FreshLink(q) ELSE q.new.link \in {q.old.link, 0}
      /\ q.accepts # Free =>
           \/ /\ q.accepts = <<"totp", q.old.secret, q.new.last>>
              /\ Spent(q.old.secret, q.new.last <= user.last)'
           \/ \E r \in RecoveryCode : /\ q.accepts = <<"code", q.old.secret, r>>
                                      /\ Spent(q.old.secret, r \notin user.codes)'
           \/ /\ q.accepts = <<"link", q.old.link>> /\ q.old.link # 0 /\ q.old.link <= era'
              /\ ~torn' => q.old.link # user'.link
  BY <1>1, FlushWrites, FlushAccepts DEF AskHolds
<1>4. era \in Nat /\ era' \in Nat /\ era' >= era /\ Eras \subseteq Nat /\ 0..(MaxTick + 1) \subseteq Nat
  BY FlushEra, EraIsNat, AccountAssumption
<1>5. ASSUME NEW s \in Eras, NEW c \in 0..(MaxTick + 1), <<"totp", s, c>> \in taken'
      PROVE  Spent(s, c <= user.last)'
  <2>1. CASE <<"totp", s, c>> \in taken
    <3>1. Spent(s, c <= user.last) /\ s \in Nat /\ c \in Nat
      BY <1>2, <1>4, <2>1
    <3>2. CASE torn'
      BY <1>4, <3>1, <3>2 DEF Spent
    <3>3. CASE ~torn'
      BY <3>1, <3>3, FlushSpent
    <3> QED BY <3>2, <3>3
  <2>2. CASE <<"totp", s, c>> \notin taken
    <3>1. q.accepts # Free /\ q.accepts = <<"totp", s, c>>
      BY <1>3, <1>5, <2>2
    <3>2. s = q.old.secret /\ c = q.new.last /\ Spent(q.old.secret, q.new.last <= user.last)'
      BY <1>3, <3>1, UsesDiffer
    <3> QED BY <3>2
  <2> QED BY <2>1, <2>2
<1>6. ASSUME NEW s \in Eras, NEW r \in RecoveryCode, <<"code", s, r>> \in taken'
      PROVE  Spent(s, r \notin user.codes)'
  <2>1. CASE <<"code", s, r>> \in taken
    <3>1. Spent(s, r \notin user.codes) /\ s \in Nat
      BY <1>2, <1>4, <2>1
    <3>2. CASE torn'
      BY <1>4, <3>1, <3>2 DEF Spent
    <3>3. CASE ~torn'
      BY <3>1, <3>3, FlushSpent
    <3> QED BY <3>2, <3>3
  <2>2. CASE <<"code", s, r>> \notin taken
    <3>1. q.accepts # Free /\ q.accepts = <<"code", s, r>>
      BY <1>3, <1>6, <2>2
    <3>2. s = q.old.secret /\ Spent(q.old.secret, r \notin user.codes)'
      BY <1>3, <3>1, UsesDiffer
    <3> QED BY <3>2
  <2> QED BY <2>1, <2>2
<1>7. ASSUME NEW n \in Eras, <<"link", n>> \in taken'
      PROVE  n <= era' /\ n # 0 /\ (~torn' => n # user'.link)
  <2>1. CASE <<"link", n>> \in taken
    <3>1. n <= era /\ n # 0 /\ (~torn => n # user.link) /\ n \in Nat
      BY <1>2, <1>4, <2>1
    <3>2. ASSUME ~torn' PROVE n # user'.link
      <4>1. /\ ~torn
            /\ user' = user \/ (q.old = user /\ user' = q.new)
        BY <1>1, <3>2, FlushWhole
      <4>2. x = Admin => q.new.link # n
        BY <1>3, <2>1 DEF FreshLink
      <4> QED BY <1>3, <3>1, <4>1, <4>2
    <3> QED BY <1>4, <3>1, <3>2
  <2>2. CASE <<"link", n>> \notin taken
    <3>1. q.accepts # Free /\ q.accepts = <<"link", n>>
      BY <1>3, <1>7, <2>2
    <3> QED BY <1>3, <3>1, UsesDiffer
  <2> QED BY <2>1, <2>2
<1>8. Free \notin taken'
  BY <1>2, <1>3
<1> QED BY <1>5, <1>6, <1>7, <1>8 DEF TakenSpent

\* The sessions after a request has written.
LEMMA FlushSessions ==
  ASSUME AccountInv, NEW x \in Actor, Flush(x)
  PROVE  /\ held' \in [Window -> SessionRow \cup {Free}]
         /\ SessionsCurrent' /\ EnrolmentWhole'
<1>1. PICK q : q = asks[x]
  OBVIOUS
<1> DEFINE kept == Ended(q.ends, x)
           opened == [q.opens EXCEPT !.era = IF q.ends = "all" THEN era' ELSE q.era,
                                     !.late = @ \/ (q.ends # "all" /\ q.era # era)]
<1>2. /\ AskRow(q) /\ KeepsEnrolment(q.old, q.new, q.ends) /\ OpensVerified(q)
      /\ era' = IF q.ends = "all" THEN era + 1 ELSE era
      /\ held' = IF q.opens = Free THEN kept ELSE [kept EXCEPT ![x] = opened]
  BY <1>1, FlushWrites DEF AskHolds, Flush
<1>3. /\ held \in [Window -> SessionRow \cup {Free}]
      /\ \A w \in Window : held[w] # Free => held[w].late \/ held[w].era = era
      /\ ~torn => (user.enrolled => user.secret # 0)
      /\ ~torn => \A w \in Window :
           held[w] # Free /\ held[w].verified /\ ~held[w].late => user.enrolled
  BY DEF AccountInv, AccountTypeOK, SessionsCurrent, EnrolmentWhole
<1>4. /\ kept \in [Window -> SessionRow \cup {Free}]
      /\ \A w \in Window : kept[w] # Free => kept[w] = held[w] /\ q.ends # "all"
  BY <1>2, <1>3 DEF Ended, AskRow
<1>5. era' \in Eras /\ q.era \in Eras
  BY <1>2, FlushEra DEF AskRow
<1>6. ASSUME q.opens # Free
      PROVE  /\ opened \in SessionRow
             /\ opened.verified = q.opens.verified
             /\ opened.late \/ opened.era = era'
  <2>1. q.opens \in SessionRow
    BY <1>2, <1>6 DEF AskRow
  <2> QED BY <1>2, <1>5, <2>1 DEF SessionRow
<1>7. ASSUME NEW w \in Window
      PROVE  \/ held'[w] = kept[w]
             \/ q.opens # Free /\ held'[w] = opened
  BY <1>2, <1>4
<1> HIDE DEF kept, opened
<1>8. held' \in [Window -> SessionRow \cup {Free}]
  BY <1>2, <1>4, <1>6
<1>9. ASSUME NEW w \in Window, held'[w] # Free
      PROVE  held'[w].late \/ held'[w].era = era'
  BY <1>2, <1>3, <1>4, <1>6, <1>7, <1>9
<1>10. ASSUME ~torn'
       PROVE  ~torn /\ ((q.new = q.old /\ user' = user) \/ (q.old = user /\ user' = q.new))
  BY <1>1, <1>10, FlushWhole
<1>11. ASSUME ~torn', user'.enrolled PROVE user'.secret # 0
  BY <1>2, <1>3, <1>10, <1>11 DEF KeepsEnrolment
<1>12. ASSUME ~torn', NEW w \in Window, held'[w] # Free, held'[w].verified, ~held'[w].late
       PROVE  user'.enrolled
  <2>1. CASE held'[w] = kept[w]
    <3>1. user.enrolled /\ q.ends # "all"
      BY <1>3, <1>4, <1>10, <1>12, <2>1
    <3> QED BY <1>2, <1>10, <1>12, <3>1 DEF KeepsEnrolment
  <2>2. CASE q.opens # Free /\ held'[w] = opened
    <3>1. q.new # q.old /\ q.new.enrolled
      BY <1>2, <1>6, <1>12, <2>2 DEF OpensVerified
    <3> QED BY <1>10, <1>12, <3>1
  <2> QED BY <1>7, <2>1, <2>2
<1> QED BY <1>8, <1>9, <1>11, <1>12 DEF SessionsCurrent, EnrolmentWhole

LEMMA FlushKeeps ==
  ASSUME AccountInv, NEW x \in Actor, Flush(x)
  PROVE  AccountInv'
<1>1. \A y \in Actor : Asking(y)' => AskHolds(y)'
  BY FlushWrites, FlushOthers DEF Asking
<1>2. AccountTypeOK' /\ isFirm' \in BOOLEAN /\ torn' \in BOOLEAN /\ again' \in BOOLEAN
  <2>1. asks[x].seen \in BOOLEAN
    BY FlushWrites DEF AskHolds, AskRow
  <2> QED BY <2>1, FlushWrites, FlushSessions, FlushEra, FlushWhole DEF AccountInv, AccountTypeOK
<1>3. AcceptedOnce'
  BY FlushWrites, FlushWhole DEF AccountInv, AcceptedOnce
<1> QED BY <1>1, <1>2, <1>3, FlushWrites, FlushEra, FlushWhole, FlushTaken, FlushSessions
     DEF AccountInv

-----------------------------------------------------------------------------
(* Accounts: each operation. *)

\* What the invariant says of the row and of the sessions.
LEMMA RowFacts ==
  ASSUME AccountInv
  PROVE  /\ user \in UserRow /\ user.secret \in Eras /\ user.link \in Eras
         /\ user.last \in Nat /\ user.last \in 0..(MaxTick + 1)
         /\ user.codes \subseteq RecoveryCode /\ user.enrolled \in BOOLEAN
         /\ era \in Nat /\ (era < MaxEra => era + 1 \in Eras)
         /\ \A w \in Window : held[w] # Free => held[w] \in SessionRow
         /\ NoSession \in SessionRow /\ ~NoSession.verified
<1>1. user \in UserRow /\ era \in Eras /\ held \in [Window -> SessionRow \cup {Free}]
  BY DEF AccountInv, AccountTypeOK
<1>2. /\ user.secret \in Eras /\ user.link \in Eras /\ user.last \in 0..(MaxTick + 1)
      /\ user.codes \subseteq RecoveryCode /\ user.enrolled \in BOOLEAN
  BY <1>1 DEF UserRow
<1>3. user.last \in Nat
  BY <1>2
<1>4. era \in Nat /\ (era < MaxEra => era + 1 \in Eras)
  BY <1>1, EraIsNat, AccountAssumption DEF Eras
<1>5. NoSession \in SessionRow /\ ~NoSession.verified
  BY EraIsNat DEF NoSession, SessionRow
<1> QED BY <1>1, <1>2, <1>3, <1>4, <1>5

\* A code of the enrolment in force is new, while no write was lost.
LEMMA CodeIsNew ==
  ASSUME AccountInv, ~torn
  PROVE  /\ Free \notin taken
         /\ \A c \in MatchTotp : ~user.enrolled \/ user.last < c => <<"totp", user.secret, c>> \notin taken
         /\ \A r \in user.codes : user.enrolled => <<"code", user.secret, r>> \notin taken
         /\ <<"link", user.link>> \notin taken
<1>1. MatchTotp \subseteq 0..(MaxTick + 1) /\ MatchTotp \subseteq Nat
  BY AccountAssumption DEF MatchTotp
<1>2. ASSUME NEW c \in MatchTotp, ~user.enrolled \/ user.last < c
      PROVE  <<"totp", user.secret, c>> \notin taken
  <2>1. <<"totp", user.secret, c>> \in taken => Spent(user.secret, c <= user.last)
    BY <1>1, RowFacts DEF AccountInv, TakenSpent
  <2>2. c \in Nat /\ user.last \in Nat
    BY <1>1, RowFacts
  <2> QED BY <1>2, <2>1, <2>2 DEF Spent
<1>3. ASSUME NEW r \in user.codes, user.enrolled PROVE <<"code", user.secret, r>> \notin taken
  <2>1. <<"code", user.secret, r>> \in taken => Spent(user.secret, r \notin user.codes)
    BY RowFacts DEF AccountInv, TakenSpent
  <2> QED BY <1>3, <2>1 DEF Spent
<1> QED BY <1>2, <1>3, RowFacts DEF AccountInv, TakenSpent

\* A failed attempt, and a request that takes no code.
LEMMA AsksPlainly ==
  ASSUME AccountInv, NEW x \in Window, NEW new \in UserRow, NEW ends \in {"none", "own", "all"},
         NEW opens \in SessionRow \cup {Free},
         KeepsEnrolment(user, new, ends),
         opens # Free => ~opens.verified,
         new.link \in {user.link, 0},
         ends = "all" => era < MaxEra,
         Ask(x, new, ends, opens, Free)
  PROVE  AccountInv'
<1>1. x \in Actor /\ x # Admin
  BY AccountAssumption DEF Actor
<1>2. Free \notin taken
  BY DEF AccountInv, TakenSpent
<1>3. MayAsk(x, new, ends, opens, Free)
  BY <1>1, <1>2 DEF MayAsk, UsesUp
<1> QED BY <1>1, <1>3, AskKeeps

LEMMA FailureKeeps ==
  ASSUME AccountInv, NEW w \in Window, Ask(w, RecordFailure(user), "none", Free, Free)
  PROVE  AccountInv'
<1>1. KeepsEnrolment(user, RecordFailure(user), "none")
  BY RecordFailureRow, RowFacts DEF KeepsEnrolment
<1> QED BY <1>1, RecordFailureRow, RowFacts, AsksPlainly

LEMMA LoginKeeps ==
  ASSUME AccountInv, NEW w \in Window, NEW right, Login(w, right)
  PROVE  AccountInv'
<1>1. CASE Ask(w, RecordFailure(user), "none", Free, Free)
  BY <1>1, FailureKeeps
<1>2. CASE Ask(w, ClearPendingTotp(ClearFailures(user)), "own", NoSession, Free)
  <2>1. PICK new \in UserRow : /\ new = ClearPendingTotp(ClearFailures(user))
                               /\ KeepsEnrolment(user, new, "own") /\ new.link = user.link
    <3> DEFINE c == ClearFailures(user)
    <3>1. /\ c \in UserRow /\ c.secret = user.secret /\ c.enrolled = user.enrolled
          /\ c.last = user.last /\ c.codes = user.codes /\ c.link = user.link
      BY RowFacts, ClearFailuresRow
    <3> HIDE DEF c
    <3> DEFINE new == ClearPendingTotp(c)
    <3>2. /\ new \in UserRow /\ new.enrolled = c.enrolled /\ new.link = c.link
          /\ c.enrolled => new = c
          /\ ~c.enrolled => new.secret = 0
      BY <3>1, ClearPendingRow
    <3> HIDE DEF new
    <3>3. KeepsEnrolment(user, new, "own")
      BY <3>1, <3>2, RowFacts DEF KeepsEnrolment
    <3> QED BY <3>1, <3>2, <3>3 DEF new, c
  <2> QED BY <1>2, <2>1, RowFacts, AsksPlainly
<1> QED BY <1>1, <1>2 DEF Login

LEMMA ChangePasswordKeeps ==
  ASSUME AccountInv, NEW w \in Window, ChangePassword(w)
  PROVE  AccountInv'
<1>1. era < MaxEra /\ era + 1 \in Eras
  BY RowFacts DEF ChangePassword
<1>2. SetPassword(user) \in UserRow /\ SetPassword(user).link = 0
      /\ KeepsEnrolment(user, SetPassword(user), "all")
  BY <1>1, RowFacts, SetPasswordRow DEF KeepsEnrolment
<1> QED BY <1>1, <1>2, AsksPlainly DEF ChangePassword

\* The session of a request that has verified a second factor.
LEMMA RotatedSession ==
  ASSUME AccountInv, NEW w \in Window, held[w] # Free, NEW fresh \in BOOLEAN
  PROVE  Rotated(w, fresh) \in SessionRow /\ Rotated(w, fresh).verified
BY RowFacts DEF Rotated, SessionRow

LEMMA ConfirmKeeps ==
  ASSUME AccountInv, NEW w \in Window, NEW c \in MatchTotp, ConfirmTotpEnrolment(w, c)
  PROVE  AccountInv'
<1>1. CASE Ask(w, RecordFailure(user), "none", Free, Free)
  BY <1>1, FailureKeeps
<1>2. CASE AcceptCode(c)
  <2> DEFINE cleared == ClearFailures(user)
             n == [cleared EXCEPT !.last = c, !.enrolled = TRUE, !.codes = RecoveryCode]
  <2>1. /\ cleared \in UserRow /\ cleared.secret = user.secret /\ cleared.link = user.link
    BY RowFacts, ClearFailuresRow
  <2>2. c \in 0..(MaxTick + 1)
    BY AccountAssumption DEF MatchTotp
  <2> HIDE DEF cleared
  <2>3. /\ n \in UserRow /\ n.secret = user.secret /\ n.link = user.link
        /\ n.last = c /\ n.enrolled
    BY <2>1, <2>2 DEF UserRow
  <2>4. /\ Ask(w, n, "own", Rotated(w, TRUE), <<"totp", user.secret, c>>)
        /\ held[w] # Free /\ ~user.enrolled /\ user.secret # 0
    BY <1>2 DEF ConfirmTotpEnrolment, VerifiedSession, cleared
  <2> HIDE DEF n
  <2>5. w \in Actor /\ w # Admin
    BY AccountAssumption DEF Actor
  <2>6. KeepsEnrolment(user, n, "own") /\ n # user
    BY <2>3, <2>4 DEF KeepsEnrolment
  <2>7. UsesUp([old |-> user, new |-> n, accepts |-> <<"totp", user.secret, c>>])
    BY <2>3, <2>4, <2>6 DEF UsesUp
  <2>8. ~torn => <<"totp", user.secret, c>> \notin taken
    BY <2>4, CodeIsNew
  <2>9. Rotated(w, TRUE) \in SessionRow
    BY <2>4, RotatedSession
  <2>10. MayAsk(w, n, "own", Rotated(w, TRUE), <<"totp", user.secret, c>>)
    BY <2>3, <2>5, <2>6, <2>7, <2>8, <2>9 DEF MayAsk
  <2> QED BY <2>4, <2>5, <2>10, AskKeeps
<1> QED BY <1>1, <1>2 DEF ConfirmTotpEnrolment

LEMMA VerifyKeeps ==
  ASSUME AccountInv, NEW w \in Window, NEW c \in MatchTotp, VerifyTotp(w, c)
  PROVE  AccountInv'
<1>1. CASE Ask(w, RecordFailure(user), "none", Free, Free)
  BY <1>1, FailureKeeps
<1>2. CASE AcceptCode(c)
  <2> DEFINE cleared == ClearFailures(user)
             n == [cleared EXCEPT !.last = c]
  <2>1. /\ cleared \in UserRow /\ cleared.secret = user.secret /\ cleared.link = user.link
        /\ cleared.enrolled = user.enrolled /\ cleared.codes = user.codes
    BY RowFacts, ClearFailuresRow
  <2>2. c \in 0..(MaxTick + 1) /\ c \in Nat /\ user.last < c /\ user.last \in Nat
    BY <1>2, RowFacts, AccountAssumption DEF MatchTotp, AcceptCode
  <2> HIDE DEF cleared
  <2>3. /\ n \in UserRow /\ n.secret = user.secret /\ n.link = user.link
        /\ n.last = c /\ n.enrolled = user.enrolled /\ n.codes = user.codes
    BY <2>1, <2>2 DEF UserRow
  <2>4. /\ Ask(w, n, "own", Rotated(w, FALSE), <<"totp", user.secret, c>>)
        /\ held[w] # Free /\ user.enrolled
    BY <1>2 DEF VerifyTotp, VerifiedSession, cleared
  <2> HIDE DEF n
  <2>5. w \in Actor /\ w # Admin
    BY AccountAssumption DEF Actor
  <2>6. KeepsEnrolment(user, n, "own") /\ n # user
    BY <2>2, <2>3, <2>4 DEF KeepsEnrolment
  <2>7. UsesUp([old |-> user, new |-> n, accepts |-> <<"totp", user.secret, c>>])
    BY <2>2, <2>3, <2>4, <2>6 DEF UsesUp
  <2>8. ~torn => <<"totp", user.secret, c>> \notin taken
    BY <2>2, <2>4, CodeIsNew
  <2>9. Rotated(w, FALSE) \in SessionRow
    BY <2>4, RotatedSession
  <2>10. MayAsk(w, n, "own", Rotated(w, FALSE), <<"totp", user.secret, c>>)
    BY <2>3, <2>4, <2>5, <2>6, <2>7, <2>8, <2>9 DEF MayAsk
  <2> QED BY <2>4, <2>5, <2>10, AskKeeps
<1> QED BY <1>1, <1>2 DEF VerifyTotp

LEMMA RecoveryKeeps ==
  ASSUME AccountInv, NEW w \in Window, NEW r \in RecoveryCode, UseRecoveryCode(w, r)
  PROVE  AccountInv'
<1>1. CASE Ask(w, RecordFailure(user), "none", Free, Free)
  BY <1>1, FailureKeeps
<1>2. CASE r \in user.codes
  <2> DEFINE cleared == ClearFailures(user)
             n == [cleared EXCEPT !.codes = cleared.codes \ {r}]
  <2>1. /\ cleared \in UserRow /\ cleared.secret = user.secret /\ cleared.link = user.link
        /\ cleared.enrolled = user.enrolled /\ cleared.last = user.last
        /\ cleared.codes = user.codes
    BY RowFacts, ClearFailuresRow
  <2> HIDE DEF cleared
  <2>2. /\ n \in UserRow /\ n.secret = user.secret /\ n.link = user.link
        /\ n.last = user.last /\ n.enrolled = user.enrolled /\ n.codes = user.codes \ {r}
    BY <2>1 DEF UserRow
  <2>3. /\ Ask(w, n, "own", Rotated(w, FALSE), <<"code", user.secret, r>>)
        /\ held[w] # Free /\ user.enrolled
    BY <1>2 DEF UseRecoveryCode, VerifiedSession, cleared
  <2> HIDE DEF n
  <2>4. w \in Actor /\ w # Admin
    BY AccountAssumption DEF Actor
  <2>5. KeepsEnrolment(user, n, "own") /\ n # user
    BY <1>2, <2>2, <2>3, RowFacts DEF KeepsEnrolment
  <2>6. UsesUp([old |-> user, new |-> n, accepts |-> <<"code", user.secret, r>>])
    BY <1>2, <2>2, <2>3 DEF UsesUp
  <2>7. ~torn => <<"code", user.secret, r>> \notin taken
    BY <1>2, <2>3, CodeIsNew
  <2>8. Rotated(w, FALSE) \in SessionRow
    BY <2>3, RotatedSession
  <2>9. MayAsk(w, n, "own", Rotated(w, FALSE), <<"code", user.secret, r>>)
    BY <2>2, <2>3, <2>4, <2>5, <2>6, <2>7, <2>8 DEF MayAsk
  <2> QED BY <2>3, <2>4, <2>9, AskKeeps
<1> QED BY <1>1, <1>2 DEF UseRecoveryCode

LEMMA RedeemKeeps ==
  ASSUME AccountInv, NEW w \in Window, RedeemActivationLink(w)
  PROVE  AccountInv'
<1> DEFINE set == SetPassword(user)
           n == ClearPendingTotp(set)
           opens == IF isFirm /\ ~user.enrolled THEN [NoSession EXCEPT !.limited = TRUE] ELSE Free
<1>1. /\ user.link # 0 /\ era < MaxEra /\ era + 1 \in Eras
      /\ Ask(w, n, "all", opens, <<"link", user.link>>)
  BY RowFacts DEF RedeemActivationLink
<1>2. /\ set \in UserRow /\ set.secret = user.secret /\ set.enrolled = user.enrolled
      /\ set.last = user.last /\ set.codes = user.codes /\ set.link = 0
  BY <1>1, RowFacts, SetPasswordRow
<1>3. opens \in SessionRow \cup {Free} /\ (opens # Free => ~opens.verified)
  BY RowFacts DEF SessionRow
<1> HIDE DEF set, opens
<1>4. /\ n \in UserRow /\ n.enrolled = set.enrolled /\ n.link = 0
      /\ set.enrolled => n = set
      /\ ~set.enrolled => n.secret = 0
  BY <1>2, ClearPendingRow
<1> HIDE DEF n
<1>5. KeepsEnrolment(user, n, "all")
  BY <1>2, <1>4, RowFacts DEF KeepsEnrolment
<1>6. w \in Actor /\ w # Admin
  BY AccountAssumption DEF Actor
<1>7. UsesUp([old |-> user, new |-> n, accepts |-> <<"link", user.link>>])
  BY <1>1, <1>4 DEF UsesUp
<1>8. MayAsk(w, n, "all", opens, <<"link", user.link>>)
  BY <1>1, <1>3, <1>4, <1>5, <1>6, <1>7, CodeIsNew DEF MayAsk
<1> QED BY <1>1, <1>6, <1>8, AskKeeps

\* A link for a row whose enrolment is as it was, or cleared.
LEMMA LinkKeeps ==
  ASSUME AccountInv, era < MaxEra, NEW u \in UserRow,
         \/ u = user
         \/ ~u.enrolled /\ u.secret = 0,
         Ask(Admin, Linked(u), "all", Free, Free)
  PROVE  AccountInv'
<1>1. /\ Linked(u) \in UserRow /\ Linked(u).enrolled = u.enrolled /\ Linked(u).codes = u.codes
      /\ u.enrolled => Linked(u).secret = u.secret /\ Linked(u).last = u.last
      /\ ~u.enrolled => Linked(u).secret = 0
      /\ Linked(u).link = era + 1
  BY RowFacts, LinkedRow
<1>2. KeepsEnrolment(user, Linked(u), "all")
  BY <1>1, RowFacts DEF KeepsEnrolment
<1>3. Admin \in Actor
  BY DEF Actor
<1>4. Free \notin taken
  BY DEF AccountInv, TakenSpent
<1>5. MayAsk(Admin, Linked(u), "all", Free, Free)
  BY <1>1, <1>2, <1>4 DEF MayAsk, UsesUp
<1> QED BY <1>3, <1>5, AskKeeps

LEMMA AdminKeeps ==
  ASSUME AccountInv, IssueActivationLink \/ ResetTotp
  PROVE  AccountInv'
<1>1. CASE IssueActivationLink
  BY <1>1, RowFacts, LinkKeeps DEF IssueActivationLink
<1>2. CASE ResetTotp
  <2> DEFINE u == [user EXCEPT !.secret = 0, !.enrolled = FALSE, !.last = 0, !.codes = {}]
  <2>1. 0 \in Eras /\ 0 \in 0..(MaxTick + 1)
    BY EraIsNat, AccountAssumption
  <2>2. u \in UserRow /\ ~u.enrolled /\ u.secret = 0
    BY <2>1, RowFacts DEF UserRow
  <2>3. era < MaxEra /\ Ask(Admin, Linked(u), "all", Free, Free)
    BY <1>2 DEF ResetTotp
  <2> HIDE DEF u
  <2> QED BY <2>2, <2>3, LinkKeeps
<1> QED BY <1>1, <1>2

\* A step of no request leaves the requests what they are.
LEMMA AsksStay ==
  ASSUME AccountInv, UNCHANGED <<asks, taken, torn>>, user'.link = user.link,
         era' \in Nat, era' >= era
  PROVE  \A x \in Actor : Asking(x)' => AskHolds(x)'
<1> SUFFICES ASSUME NEW x \in Actor, Asking(x) PROVE AskHolds(x)'
  BY DEF Asking
<1> DEFINE q == asks[x]
<1>1. AskHolds(x) /\ q' = q
  BY DEF AccountInv
<1>2. AskRow(q)'
  <2>1. q.era \in Nat /\ q.old.secret \in Nat /\ q.old.link \in Nat
    BY <1>1, EraIsNat DEF AskHolds, AskRow, UserRow
  <2> QED BY <1>1, <2>1, RowFacts DEF AskHolds, AskRow
<1>3. x = Admin => FreshLink(q)'
  BY <1>1 DEF AskHolds, FreshLink, Asking
<1>4. KeepsEnrolment(q.old, q.new, q.ends)' /\ OpensVerified(q)' /\ UsesUp(q)'
  BY <1>1 DEF AskHolds, KeepsEnrolment, OpensVerified, UsesUp
<1> QED BY <1>1, <1>2, <1>3, <1>4 DEF AskHolds

\* A row that differs in its timestamps.
SameCredentials ==
  /\ user'.secret = user.secret /\ user'.enrolled = user.enrolled /\ user'.last = user.last
  /\ user'.codes = user.codes /\ user'.link = user.link

LEMMA QuietKeeps ==
  ASSUME AccountInv, AccountTypeOK', SameCredentials,
         UNCHANGED <<isFirm, asks, era, taken, torn, again>>,
         \A w \in Window : held'[w] = held[w] \/ held'[w] = Free
  PROVE  AccountInv'
<1>1. \A x \in Actor : Asking(x)' => AskHolds(x)'
  BY RowFacts, AsksStay DEF SameCredentials
<1>2. TakenSpent'
  BY DEF AccountInv, TakenSpent, Spent, SameCredentials
<1>3. Ending' = Ending
  BY DEF Ending, Asking
<1>4. SessionsCurrent' /\ EnrolmentWhole' /\ AcceptedOnce'
  BY DEF AccountInv, SessionsCurrent, EnrolmentWhole, AcceptedOnce, SameCredentials
<1> QED BY <1>1, <1>2, <1>3, <1>4 DEF AccountInv, SameCredentials

LEMMA LeaveKeeps ==
  ASSUME AccountInv, NEW w \in Window, Logout(w) \/ SessionExpires(w)
  PROVE  AccountInv'
<1>1. /\ held' = [held EXCEPT ![w] = Free]
      /\ UNCHANGED <<user, isFirm, asks, tick, era, taken, torn, again>>
  BY DEF Logout, SessionExpires
<1>2. AccountTypeOK' /\ \A v \in Window : held'[v] = held[v] \/ held'[v] = Free
  BY <1>1 DEF AccountInv, AccountTypeOK
<1> QED BY <1>1, <1>2, QuietKeeps DEF SameCredentials

LEMMA TimeKeeps ==
  ASSUME AccountInv, TimePasses
  PROVE  AccountInv'
<1>1. /\ user' \in UserRow /\ SameCredentials
      /\ tick' \in 1..MaxTick
      /\ UNCHANGED <<isFirm, held, asks, era, taken, torn, again>>
  <2>1. CASE UNCHANGED user
    BY <2>1, RowFacts, AccountAssumption DEF TimePasses, SameCredentials, AccountInv, AccountTypeOK
  <2>2. CASE \/ user' = [user EXCEPT !.lock = "over"]
             \/ user' = [user EXCEPT !.span = "over"]
             \/ user' = [user EXCEPT !.live = FALSE]
    <3>1. user' \in UserRow /\ SameCredentials
      BY <2>2, RowFacts DEF UserRow, SameCredentials
    <3>2. tick' \in 1..MaxTick
      BY AccountAssumption DEF TimePasses, AccountInv, AccountTypeOK
    <3> QED BY <3>1, <3>2 DEF TimePasses
  <2> QED BY <2>1, <2>2 DEF TimePasses
<1>2. AccountTypeOK'
  BY <1>1 DEF AccountInv, AccountTypeOK
<1> QED BY <1>1, <1>2, QuietKeeps

LEMMA EnrolKeeps ==
  ASSUME AccountInv, NEW w \in Window, StartTotpEnrolment(w)
  PROVE  AccountInv'
<1>1. /\ ~user.enrolled
      /\ user' = [user EXCEPT !.secret = era, !.last = 0]
      /\ UNCHANGED <<isFirm, held, asks, tick, era, taken, torn, again>>
  BY DEF StartTotpEnrolment
<1>2. era \in Eras /\ 0 \in 0..(MaxTick + 1) /\ era \in Nat /\ Eras \subseteq Nat
  BY RowFacts, EraIsNat, AccountAssumption DEF AccountInv, AccountTypeOK
<1>3. /\ user' \in UserRow /\ user'.secret = era /\ ~user'.enrolled
      /\ user'.codes = user.codes /\ user'.link = user.link
  BY <1>1, <1>2, RowFacts DEF UserRow
<1>4. \A x \in Actor : Asking(x)' => AskHolds(x)'
  BY <1>1, <1>2, <1>3, AsksStay
<1>5. TakenSpent'
  <2>1. ASSUME NEW s \in Eras, NEW c \in 0..(MaxTick + 1), <<"totp", s, c>> \in taken'
        PROVE  Spent(s, c <= user.last)'
    <3>1. Spent(s, c <= user.last) /\ s \in Nat
      BY <1>1, <1>2, <2>1 DEF AccountInv, TakenSpent
    <3> QED BY <1>1, <1>2, <1>3, <3>1 DEF Spent
  <2>2. ASSUME NEW s \in Eras, NEW r \in RecoveryCode, <<"code", s, r>> \in taken'
        PROVE  Spent(s, r \notin user.codes)'
    <3>1. Spent(s, r \notin user.codes) /\ s \in Nat
      BY <1>1, <1>2, <2>2 DEF AccountInv, TakenSpent
    <3> QED BY <1>1, <1>2, <1>3, <3>1 DEF Spent
  <2> QED BY <1>1, <1>3, <2>1, <2>2 DEF AccountInv, TakenSpent
<1>6. Ending' = Ending
  BY <1>1 DEF Ending, Asking
<1>7. SessionsCurrent' /\ EnrolmentWhole' /\ AcceptedOnce'
  BY <1>1, <1>3 DEF AccountInv, SessionsCurrent, EnrolmentWhole, AcceptedOnce
<1>8. AccountTypeOK'
  BY <1>1, <1>3 DEF AccountInv, AccountTypeOK
<1>9. user'.secret <= era' /\ user'.link <= era'
  BY <1>1, <1>2, <1>3 DEF AccountInv
<1> QED BY <1>1, <1>4, <1>5, <1>6, <1>7, <1>8, <1>9 DEF AccountInv

LEMMA FirmKeeps ==
  ASSUME AccountInv, BecomesFirm
  PROVE  AccountInv'
<1>1. /\ isFirm' = TRUE /\ era' = era + 1 /\ era < MaxEra
      /\ held' = [w \in Window |-> Free]
      /\ UNCHANGED <<user, asks, tick, taken, torn, again>>
  BY DEF BecomesFirm
<1>2. era \in Nat /\ era + 1 \in Eras /\ Eras \subseteq Nat /\ user.secret \in Nat /\ user.link \in Nat
  BY <1>1, RowFacts, EraIsNat
<1>3. \A x \in Actor : Asking(x)' => AskHolds(x)'
  BY <1>1, <1>2, AsksStay
<1>4. TakenSpent'
  <2>1. ASSUME NEW s \in Eras, NEW c \in 0..(MaxTick + 1), <<"totp", s, c>> \in taken'
        PROVE  Spent(s, c <= user.last)'
    <3>1. Spent(s, c <= user.last) /\ s \in Nat
      BY <1>1, <1>2, <2>1 DEF AccountInv, TakenSpent
    <3> QED BY <1>1, <1>2, <3>1 DEF Spent
  <2>2. ASSUME NEW s \in Eras, NEW r \in RecoveryCode, <<"code", s, r>> \in taken'
        PROVE  Spent(s, r \notin user.codes)'
    <3>1. Spent(s, r \notin user.codes) /\ s \in Nat
      BY <1>1, <1>2, <2>2 DEF AccountInv, TakenSpent
    <3> QED BY <1>1, <1>2, <3>1 DEF Spent
  <2>3. ASSUME NEW n \in Eras, <<"link", n>> \in taken'
        PROVE  n <= era' /\ n # 0 /\ (~torn' => n # user'.link)
    <3>1. n <= era /\ n # 0 /\ (~torn => n # user.link) /\ n \in Nat
      BY <1>1, <1>2, <2>3 DEF AccountInv, TakenSpent
    <3> QED BY <1>1, <1>2, <3>1
  <2> QED BY <1>1, <2>1, <2>2, <2>3 DEF AccountInv, TakenSpent
<1>5. era' + Cardinality(Ending') <= MaxEra + Cardinality(Window) + 1
  BY <1>1, <1>2, EndingFiniteNext, EraIsNat, AccountAssumption
<1>6. SessionsCurrent' /\ EnrolmentWhole' /\ AcceptedOnce'
  BY <1>1 DEF AccountInv, SessionsCurrent, EnrolmentWhole, AcceptedOnce
<1>7. AccountTypeOK' /\ era' # 0 /\ user'.secret <= era' /\ user'.link <= era'
  BY <1>1, <1>2 DEF AccountInv, AccountTypeOK
<1> QED BY <1>1, <1>3, <1>4, <1>5, <1>6, <1>7 DEF AccountInv

LEMMA AccountStart == AccountInit => AccountInv
<1> SUFFICES ASSUME AccountInit PROVE AccountInv
  OBVIOUS
<1>1. 0 \in Eras /\ 1 \in Eras /\ 0 \in 0..(MaxTick + 1) /\ 0 \in 0..MaxFails /\ 1 \in 1..MaxTick
  BY EraIsNat, AccountAssumption DEF Eras
<1>2. /\ user \in UserRow /\ user.secret \in {0, 1} /\ user.link \in {0, 1}
      /\ user.enrolled => user.secret # 0
  <2>1. NewUser \in UserRow /\ NewUser.secret = 0 /\ NewUser.link = 1 /\ ~NewUser.enrolled
    BY <1>1 DEF NewUser, UserRow
  <2>2. ActiveUser \in UserRow /\ ActiveUser.secret = 0 /\ ActiveUser.link = 0 /\ ~ActiveUser.enrolled
    BY <1>1, <2>1 DEF ActiveUser, UserRow
  <2>3. EnrolledUser \in UserRow /\ EnrolledUser.secret = 1 /\ EnrolledUser.link = 0
    BY <1>1, <2>2 DEF EnrolledUser, UserRow
  <2> QED BY <2>1, <2>2, <2>3 DEF AccountInit
<1>3. /\ isFirm \in BOOLEAN /\ held = [w \in Window |-> Free] /\ asks = [x \in Actor |-> Free]
      /\ tick = 1 /\ era = 1 /\ taken = {} /\ torn = FALSE /\ again = FALSE
  BY DEF AccountInit, Actor
<1>4. Ending = {}
  BY <1>3 DEF Ending, Asking
<1>5. era + Cardinality(Ending) <= MaxEra + Cardinality(Window) + 1
  BY <1>3, <1>4, EraIsNat, FS_EmptySet, AccountAssumption
<1>6. TakenSpent
  BY <1>3 DEF TakenSpent
<1>7. AccountTypeOK /\ SessionsCurrent /\ EnrolmentWhole /\ AcceptedOnce
  BY <1>1, <1>2, <1>3 DEF AccountTypeOK, SessionsCurrent, EnrolmentWhole, AcceptedOnce
<1>8. DOMAIN asks = Actor /\ \A x \in Actor : ~Asking(x)
  BY <1>3 DEF Asking
<1>9. era # 0 /\ user.secret <= era /\ user.link <= era
  BY <1>2, <1>3
<1> QED BY <1>3, <1>5, <1>6, <1>7, <1>8, <1>9 DEF AccountInv

LEMMA AccountInvariance == AccountSpec => []AccountInv
<1>1. ASSUME AccountInv, AccountNext PROVE AccountInv'
  <2>1. ASSUME NEW w \in Window,
               \/ \E right \in BOOLEAN : Login(w, right)
               \/ \E c \in MatchTotp : ConfirmTotpEnrolment(w, c) \/ VerifyTotp(w, c)
               \/ \E r \in RecoveryCode : UseRecoveryCode(w, r)
               \/ Logout(w) \/ StartTotpEnrolment(w) \/ ChangePassword(w)
               \/ RedeemActivationLink(w) \/ SessionExpires(w)
        PROVE  AccountInv'
    BY <1>1, <2>1, LoginKeeps, ConfirmKeeps, VerifyKeeps, RecoveryKeeps, LeaveKeeps, EnrolKeeps,
       ChangePasswordKeeps, RedeemKeeps
  <2>2. ASSUME NEW x \in Actor, Flush(x) PROVE AccountInv'
    BY <1>1, <2>2, FlushKeeps
  <2> QED BY <1>1, <2>1, <2>2, AdminKeeps, FirmKeeps, TimeKeeps DEF AccountNext, Actor
<1>2. ASSUME AccountInv, UNCHANGED accountVars PROVE AccountInv'
  <2>1. UNCHANGED <<user, isFirm, held, asks, tick, era, taken, torn, again>>
    BY <1>2 DEF accountVars
  <2>2. AccountTypeOK' /\ SameCredentials /\ \A w \in Window : held'[w] = held[w]
    BY <1>2, <2>1 DEF AccountInv, AccountTypeOK, SameCredentials
  <2> QED BY <1>2, <2>1, <2>2, QuietKeeps
<1>3. AccountInv /\ [AccountNext]_accountVars => AccountInv'
  BY <1>1, <1>2
<1> QED BY <1>3, AccountStart, PTL DEF AccountSpec

\* What the account and its sessions promise each other holds for any number of
\* browsers, codes and time steps: sessions are those of the credentials in
\* force, an enrolment is whole, and what was accepted is accepted once unless
\* requests wrote over each other (auth/service.py).
THEOREM AccountsKeepHolding == AccountSpec => []AccountsHold
<1>1. AccountInv => AccountsHold
  <2> SUFFICES ASSUME AccountInv PROVE AccountsHold
    OBVIOUS
  <2>1. FirmVerified
    <3> SUFFICES ASSUME NEW w \in Window, held[w] # Free, isFirm, Usable(held[w])
                 PROVE  held[w].verified
      BY DEF FirmVerified
    <3> QED BY DEF Usable
  <2> QED BY <2>1 DEF AccountInv, AccountsHold
<1> QED BY <1>1, AccountInvariance, PTL

-----------------------------------------------------------------------------
(* The throttle. *)

Admitted == {c \in Caller : trying[c] = "admitted"}
Marking == {c \in Caller : trying[c] = "mark"}

\* The rows that are there and those the requests under way may add.
ThrottleInv ==
  /\ DOMAIN trying = Caller /\ failRows \in Nat /\ markRows \in Nat
  /\ failRows + Cardinality(Admitted) <= Threshold + Cardinality(Caller) - 1
  /\ markRows + Cardinality(Marking) <= Cardinality(Caller)

LEMMA CallersCounted ==
  /\ IsFiniteSet(Caller) /\ Cardinality(Caller) \in Nat \ {0} /\ Threshold \in Nat
  /\ \A S \in SUBSET Caller : /\ IsFiniteSet(S) /\ Cardinality(S) \in Nat
                              /\ Cardinality(S) <= Cardinality(Caller)
  /\ \A S \in SUBSET Caller, c \in Caller :
       /\ Cardinality(S \cup {c}) = IF c \in S THEN Cardinality(S) ELSE Cardinality(S) + 1
       /\ Cardinality(S \ {c}) = IF c \in S THEN Cardinality(S) - 1 ELSE Cardinality(S)
<1>1. IsFiniteSet(Caller) /\ Cardinality(Caller) \in Nat /\ Cardinality(Caller) # 0
  BY ThrottleAssumption, FS_CardinalityType, FS_EmptySet
<1>2. \A S \in SUBSET Caller : /\ IsFiniteSet(S) /\ Cardinality(S) \in Nat
                               /\ Cardinality(S) <= Cardinality(Caller)
  BY <1>1, FS_Subset, FS_CardinalityType
<1>3. \A S \in SUBSET Caller, c \in Caller :
        /\ Cardinality(S \cup {c}) = IF c \in S THEN Cardinality(S) ELSE Cardinality(S) + 1
        /\ Cardinality(S \ {c}) = IF c \in S THEN Cardinality(S) - 1 ELSE Cardinality(S)
  BY <1>2, FS_AddElement, FS_RemoveElement
<1> QED BY <1>1, <1>2, <1>3, ThrottleAssumption

\* A request is admitted only below the threshold and marks only where no mark is.
LEMMA ThrottledKeeps ==
  ASSUME ThrottleInv, NEW c \in Caller, IsThrottled(c)
  PROVE  ThrottleInv'
<1>1. /\ trying[c] = Free /\ DOMAIN trying' = Caller /\ failRows' = failRows /\ markRows' = markRows
      /\ \A d \in Caller : d # c => trying'[d] = trying[d]
      /\ trying'[c] = "admitted" => failRows < Threshold
      /\ trying'[c] = "mark" => markRows = 0
      /\ trying'[c] \in {"admitted", "mark", "refused"}
  BY CallersCounted DEF ThrottleInv, IsThrottled
<1>2. Admitted' \in SUBSET Caller /\ Admitted \in SUBSET Caller
      /\ Marking' \in SUBSET Caller /\ Marking \in SUBSET Caller
  BY DEF Admitted, Marking
<1>3. CASE trying'[c] = "admitted"
  <2>1. Marking' \in SUBSET Marking
    BY <1>1, <1>3 DEF Marking
  <2>2. Cardinality(Marking') <= Cardinality(Marking)
    BY <2>1, <1>2, CallersCounted, FS_Subset
  <2> QED BY <1>1, <1>2, <1>3, <2>2, CallersCounted DEF ThrottleInv
<1>4. CASE trying'[c] # "admitted"
  <2>1. Admitted' \in SUBSET Admitted
    BY <1>1, <1>4 DEF Admitted
  <2>2. Cardinality(Admitted') <= Cardinality(Admitted)
    BY <2>1, <1>2, CallersCounted, FS_Subset
  <2>3. markRows' + Cardinality(Marking') <= Cardinality(Caller)
    <3>1. CASE trying'[c] = "mark"
      BY <1>1, <1>2, <3>1, CallersCounted DEF ThrottleInv
    <3>2. CASE trying'[c] = "refused"
      <4>1. Marking' \in SUBSET Marking
        BY <1>1, <3>2 DEF Marking
      <4>2. Cardinality(Marking') <= Cardinality(Marking)
        BY <4>1, <1>2, CallersCounted, FS_Subset
      <4> QED BY <1>1, <1>2, <4>2, CallersCounted DEF ThrottleInv
    <3> QED BY <1>1, <1>4, <3>1, <3>2
  <2> QED BY <1>1, <1>2, <2>2, <2>3, CallersCounted DEF ThrottleInv
<1> QED BY <1>3, <1>4

\* A request that ends is counted no longer, and writes one row at most.
LEMMA EndsKeeps ==
  ASSUME ThrottleInv, NEW c \in Caller, NEW fails \in BOOLEAN, AttemptEnds(c, fails)
  PROVE  ThrottleInv'
<1>1. /\ DOMAIN trying' = Caller /\ trying'[c] = Free
      /\ \A d \in Caller : d # c => trying'[d] = trying[d]
      /\ failRows' = failRows \/ (trying[c] = "admitted" /\ failRows' = failRows + 1)
      /\ markRows' = IF trying[c] = "mark" THEN markRows + 1 ELSE markRows
  BY DEF ThrottleInv, AttemptEnds
<1>2. Admitted' = Admitted \ {c} /\ Marking' = Marking \ {c}
  BY <1>1, ThrottleAssumption DEF Admitted, Marking
<1>3. Admitted \in SUBSET Caller /\ Marking \in SUBSET Caller
  BY DEF Admitted, Marking
<1>4. /\ c \in Admitted <=> trying[c] = "admitted"
      /\ c \in Marking <=> trying[c] = "mark"
  BY DEF Admitted, Marking
<1>5. /\ Cardinality(Admitted') = IF c \in Admitted THEN Cardinality(Admitted) - 1 ELSE Cardinality(Admitted)
      /\ Cardinality(Marking') = IF c \in Marking THEN Cardinality(Marking) - 1 ELSE Cardinality(Marking)
  BY <1>2, <1>3, CallersCounted
<1> QED BY <1>1, <1>3, <1>4, <1>5, CallersCounted DEF ThrottleInv

LEMMA ThrottleInvariance == ThrottleSpec => []ThrottleInv
<1>1. ThrottleInit => ThrottleInv
  <2> SUFFICES ASSUME ThrottleInit PROVE ThrottleInv
    OBVIOUS
  <2>1. Admitted = {} /\ Marking = {}
    BY ThrottleAssumption DEF ThrottleInit, Admitted, Marking
  <2> QED BY <2>1, CallersCounted, FS_EmptySet DEF ThrottleInit, ThrottleInv
<1>2. ASSUME ThrottleInv, RowsAge PROVE ThrottleInv'
  <2>1. /\ trying' = trying /\ Admitted' = Admitted /\ Marking' = Marking
        /\ failRows' \in Nat /\ failRows' <= failRows /\ markRows' \in Nat /\ markRows' <= markRows
    BY <1>2 DEF ThrottleInv, RowsAge, Admitted, Marking
  <2>2. Admitted \in SUBSET Caller /\ Marking \in SUBSET Caller
    BY DEF Admitted, Marking
  <2> QED BY <1>2, <2>1, <2>2, CallersCounted DEF ThrottleInv
<1>3. ASSUME ThrottleInv, UNCHANGED throttleVars PROVE ThrottleInv'
  BY <1>3 DEF ThrottleInv, throttleVars, Admitted, Marking
<1>4. ThrottleInv /\ [ThrottleNext]_throttleVars => ThrottleInv'
  BY <1>2, <1>3, ThrottledKeeps, EndsKeeps DEF ThrottleNext
<1> QED BY <1>1, <1>4, PTL DEF ThrottleSpec

\* The insert-only table stays bounded for any threshold and any number of
\* requests under way at once: a failure row per request admitted below the
\* threshold, a mark per request that saw none (throttle.py is_throttled).
THEOREM ThrottleIsBounded == ThrottleSpec => []ThrottleBounds
<1>1. ThrottleInv => ThrottleBounds
  <2>1. Admitted \in SUBSET Caller /\ Marking \in SUBSET Caller
    BY DEF Admitted, Marking
  <2> QED BY <2>1, CallersCounted DEF ThrottleInv, ThrottleBounds
<1> QED BY <1>1, ThrottleInvariance, PTL
================================================================================
