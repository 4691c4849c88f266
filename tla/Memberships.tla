------------------------------ MODULE Memberships ------------------------------
(***************************************************************************)
(* Who may enter which company (backend/app/auth/admin.py with the         *)
(* sessions of core/auth.py): firm memberships, memberships and entry      *)
(* rows, and the administrators who change them at the same time.          *)
(*                                                                         *)
(* A request is one READ COMMITTED transaction: the principal is read      *)
(* (Begin), the service reads and decides, in two operations under the     *)
(* firm's row lock (Decide), and the rest writes and commits (a Finish).   *)
(* issue_activation_link ends sessions before it writes its audit row,     *)
(* whose foreign key waits for the firm row (EndSessions, FinishLink).     *)
(* remove_firm_membership commits its removal in a transaction of its own  *)
(* and then removes the entry rows one company at a time (Clean), while    *)
(* the request's transaction stays open.  A person has one session and     *)
(* sends one request at a time.                                            *)
(*                                                                         *)
(* firm : per user the role of the firm_membership, or none                *)
(* mem  : per tenant and user none, entry (role NULL) or a client role     *)
(* sess : per user none, open (no active tenant) or the active tenant      *)
(* req  : per user the request being handled                               *)
(* lock : who holds the firm row FOR UPDATE                                *)
(* alone: no two requests have overlapped so far                           *)
(***************************************************************************)
EXTENDS Naturals, FiniteSets

CONSTANTS Users, Tenants, ClientRoles, First, Nobody

ASSUME FirstAssumption == First \in Users /\ Nobody \notin Users
ASSUME RolesAssumption ==
  /\ ClientRoles \cap {"none", "entry", "firm_staff", "firm_admin"} = {}
  /\ Tenants \cap {"none", "open"} = {}

VARIABLES firm, mem, sess, req, lock, alone

vars == <<firm, mem, sess, req, lock, alone>>

FirmRoles == {"firm_staff", "firm_admin"}

\* The routes, and the firm row locked by two of them.
AdminOps ==
  [kind : {"create", "change_role"}, target : Users, tenant : {"none"}, role : FirmRoles]
  \cup [kind : {"remove", "link"}, target : Users, tenant : {"none"}, role : {"none"}]
  \cup [kind : {"grant"}, target : Users, tenant : Tenants, role : ClientRoles \cup {"entry"}]
  \cup [kind : {"change_client"}, target : Users, tenant : Tenants, role : ClientRoles]
  \cup [kind : {"revoke"}, target : Users, tenant : Tenants, role : {"none"}]

Op(kind, u, t) == [kind |-> kind, target |-> u, tenant |-> t, role |-> "none"]

Locked == {"change_role", "remove"}

\* pc: begun (the principal is read), decided, ended or audit (sessions deleted, or none
\* found), clean (the firm_membership is removed).
\* cleared: get_principal has cleared the active tenant in this transaction.
\* own: the firm_membership loaded with the principal is still a row.
\* todo: the rows this request has read and will write.
Request(pc, op, cleared) ==
  [pc |-> pc, op |-> op, cleared |-> cleared, own |-> TRUE, todo |-> {}]

Idle == Request("idle", Op("none", Nobody, "none"), FALSE)

\* scripts/create_user.py: the first administrator.
Init ==
  /\ firm = [u \in Users |-> IF u = First THEN "firm_admin" ELSE "none"]
  /\ mem = [t \in Tenants |-> [u \in Users |-> "none"]]
  /\ sess = [u \in Users |-> "none"]
  /\ req = [u \in Users |-> Idle]
  /\ lock = Nobody
  /\ alone = TRUE

-----------------------------------------------------------------------------
\* effective_role: an entry row gives the firm role, an orphan one nothing.
effective_role(t, u) == IF mem[t][u] = "entry" THEN firm[u] ELSE mem[t][u]

accessible_tenant_ids(u) == {t \in Tenants : effective_role(t, u) # "none"}

\* auto_selected_tenant: the only one, else the switcher asks.
auto_selected_tenant(u) ==
  IF Cardinality(accessible_tenant_ids(u)) = 1
  THEN CHOOSE t \in accessible_tenant_ids(u) : TRUE
  ELSE "open"

Admins == {u \in Users : firm[u] = "firm_admin"}

entry_rows_in_firm(u) == {t \in Tenants : mem[t][u] = "entry"}
client_rows_in_firm(u) == {t \in Tenants : mem[t][u] \in ClientRoles}

Starts(u, r) ==
  /\ req[u] = Idle
  /\ req' = [req EXCEPT ![u] = r]
  /\ alone' = (alone /\ \A v \in Users \ {u} : req[v] = Idle)
  /\ UNCHANGED <<firm, mem, sess, lock>>

-----------------------------------------------------------------------------
(* Row locks. *)

\* Faulty: the idle time is kept up in the request's transaction.
HoldsSessionAlways(w, v) ==
  \/ w = v /\ req[w].pc \in {"begun", "decided", "ended", "audit", "clean"}
  \/ req[w].pc = "ended" /\ req[w].op.target = v

\* Whose transaction keeps v's session row locked between its steps.
HoldsSession(w, v) ==
  \/ w = v /\ req[w].cleared
  \/ req[w].pc = "ended" /\ req[w].op.target = v

\* The requests that u's must wait for to write v's session row.
SessionHolders(u, v) ==
  IF sess[v] = "none" THEN {} ELSE {w \in Users \ {u} : HoldsSession(w, v)}

\* A foreign key to the firm, or FOR UPDATE, waits while another holds the row FOR UPDATE.
FirmHolders(u) == {w \in Users \ {u} : lock = w}

\* The session table once u's own clearing of its active tenant is committed.
Cleared(u) == IF req[u].cleared /\ sess[u] # "none" THEN [sess EXCEPT ![u] = "open"] ELSE sess

\* The end of u's request; the other requests go on as r.
EndAs(u, r) ==
  /\ req' = [r EXCEPT ![u] = Idle]
  /\ lock' = IF lock = u THEN Nobody ELSE lock
  /\ UNCHANGED alone

-----------------------------------------------------------------------------
(* Signing in, choosing a company, leaving. *)

\* get_principal: an active tenant the user may no longer enter is cleared, in the
\* request's own transaction.
Clears(u) == sess[u] \in Tenants /\ effective_role(sess[u], u) = "none"

\* login, or set_active_tenant with its check of the role.
BeginEnter(u) ==
  \/ sess[u] = "none" /\ Starts(u, Request("enter", Op("login", u, auto_selected_tenant(u)), FALSE))
  \/ /\ sess[u] # "none"
     /\ \E t \in accessible_tenant_ids(u) :
          Starts(u, Request("enter", Op("enter", u, t), Clears(u)))

\* A login writes a firm audit row; a session deleted meanwhile cannot be switched.
CommitEnter(u) ==
  LET op == req[u].op
  IN /\ req[u].pc = "enter"
     /\ IF op.kind = "login"
        THEN (firm[u] # "none" \/ \E t \in Tenants : mem[t][u] # "none") => FirmHolders(u) = {}
        ELSE sess[u] # "none" /\ SessionHolders(u, u) = {}
     /\ sess' = [sess EXCEPT ![u] = op.tenant]
     /\ EndAs(u, req)
     /\ UNCHANGED <<firm, mem>>

\* is_expired: the row is removed in a transaction of its own.
Expire(u) ==
  /\ req[u] = Idle /\ sess[u] # "none" /\ SessionHolders(u, u) = {}
  /\ sess' = [sess EXCEPT ![u] = "none"]
  /\ UNCHANGED <<firm, mem, req, lock, alone>>

BeginLogout(u) ==
  /\ sess[u] # "none"
  /\ Starts(u, Request("decided", Op("logout", u, "none"), Clears(u)))

-----------------------------------------------------------------------------
(* Administration. *)

\* Only a firm_admin gets past the guard; you cannot remove your own firm_membership.
Begin(u, op) ==
  /\ sess[u] # "none" /\ firm[u] = "firm_admin"
  /\ op.kind = "remove" => op.target # u
  /\ Starts(u, Request("begun", op, Clears(u)))

\* The role in the firm_membership object the request works with: the actor's own is
\* the one loaded with the principal, which a second select does not refresh.
HeldRole(u, v) == IF u = v /\ req[u].own THEN "firm_admin" ELSE firm[v]

\* Faulty: off by one.
LastAdminOffByOne(u, v) == HeldRole(u, v) = "firm_admin" /\ Cardinality(Admins) < 1

\* _count_firm_admins(...) <= 1.
LastAdmin(u, v) == HeldRole(u, v) = "firm_admin" /\ Cardinality(Admins) <= 1

MayJoinFirm(v) == firm[v] = "none" /\ client_rows_in_firm(v) = {}

\* What each operation asks for before it writes.
Accepts(u, op) ==
  LET v == op.target
      t == op.tenant
  IN CASE op.kind = "create" -> MayJoinFirm(v)
       [] op.kind = "change_role" ->
            firm[v] # "none" /\ (op.role = "firm_admin" \/ ~LastAdmin(u, v))
       [] op.kind = "remove" ->
            ~LastAdmin(u, v) /\ (firm[v] # "none" \/ entry_rows_in_firm(v) # {})
       [] op.kind = "link" -> TRUE
       [] op.kind = "grant" -> ((op.role = "entry") <=> (firm[v] # "none")) /\ mem[t][v] = "none"
       [] op.kind = "change_client" -> firm[v] = "none" /\ mem[t][v] # "none"
       [] op.kind = "revoke" -> mem[t][v] # "none"

\* Faulty: a repeated removal looks for entry rows no more.
RowsReadOnce(op) ==
  IF op.kind = "remove" /\ firm[op.target] # "none" THEN entry_rows_in_firm(op.target)
  ELSE IF op.kind \in {"change_client", "revoke"} THEN {op.tenant} ELSE {}

RowsRead(op) ==
  CASE op.kind = "remove" -> entry_rows_in_firm(op.target)
    [] op.kind \in {"change_client", "revoke"} -> {op.tenant}
    [] OTHER -> {}

TakesLock(op) == op.kind \in Locked

Decide(u) ==
  LET op == req[u].op
  IN /\ req[u].pc = "begun"
     /\ TakesLock(op) => lock = Nobody
     /\ Accepts(u, op)
     /\ lock' = IF TakesLock(op) THEN u ELSE lock
     /\ req' = [req EXCEPT ![u].pc = "decided", ![u].todo = RowsRead(op)]
     /\ UNCHANGED <<firm, mem, sess, alone>>

\* create_firm_membership, change_firm_membership_role: a role is written when the
\* object's role changes, and the target's sessions end.
FinishFirm(u) ==
  LET op == req[u].op
      v == op.target
  IN /\ req[u].pc = "decided" /\ op.kind \in {"create", "change_role"}
     /\ FirmHolders(u) = {} /\ SessionHolders(u, v) = {}
     /\ op.kind = "create" => firm[v] = "none"
     /\ firm' = IF HeldRole(u, v) = op.role THEN firm ELSE [firm EXCEPT ![v] = op.role]
     /\ sess' = [Cleared(u) EXCEPT ![v] = "none"]
     /\ EndAs(u, req)
     /\ UNCHANGED mem

\* issue_activation_link up to its audit row: the target's session, if there is one, is
\* deleted, not yet committed.
EndSessions(u) ==
  /\ req[u].pc = "decided" /\ req[u].op.kind = "link"
  /\ SessionHolders(u, req[u].op.target) = {}
  /\ req' = [req EXCEPT ![u].pc = IF sess[req[u].op.target] = "none" THEN "audit" ELSE "ended"]
  /\ UNCHANGED <<firm, mem, sess, lock, alone>>

\* The rest of issue_activation_link; logout, which writes its audit row first.
FinishLink(u) ==
  LET v == req[u].op.target
  IN /\ \/ req[u].pc \in {"ended", "audit"}
        \/ req[u].pc = "decided" /\ req[u].op.kind = "logout" /\ SessionHolders(u, v) = {}
     /\ FirmHolders(u) = {}
     /\ sess' = IF req[u].pc = "audit" THEN Cleared(u) ELSE [Cleared(u) EXCEPT ![v] = "none"]
     /\ EndAs(u, req)
     /\ UNCHANGED <<firm, mem>>

\* _clear_active_tenant.
LeftTenant(table, t, v) == IF table[v] = t THEN [table EXCEPT ![v] = "open"] ELSE table

\* The requests, when the row of v in t is deleted: who has read it writes nothing.
WithoutRow(t, v) ==
  [w \in Users |->
     IF req[w].op.kind \in {"change_client", "revoke"} /\ req[w].op.target = v
     THEN [req[w] EXCEPT !.todo = @ \ {t}] ELSE req[w]]

\* create_membership and change_membership_role; the update of a row that is gone fails.
FinishMember(u) ==
  LET op == req[u].op
  IN /\ req[u].pc = "decided" /\ op.kind \in {"grant", "change_client"}
     /\ IF op.kind = "grant" THEN mem[op.tenant][op.target] = "none" ELSE op.tenant \in req[u].todo
     /\ mem' = [mem EXCEPT ![op.tenant][op.target] = op.role]
     /\ sess' = Cleared(u)
     /\ EndAs(u, req)
     /\ UNCHANGED firm

\* remove_membership; the delete of a row that is gone deletes nothing.
Revoke(u) ==
  LET op == req[u].op
      t == op.tenant
      v == op.target
  IN /\ req[u].pc = "decided" /\ op.kind = "revoke"
     /\ sess[v] = t => SessionHolders(u, v) = {}
     /\ mem' = IF t \in req[u].todo THEN [mem EXCEPT ![t][v] = "none"] ELSE mem
     /\ sess' = LeftTenant(Cleared(u), t, v)
     /\ EndAs(u, IF t \in req[u].todo THEN WithoutRow(t, v) ELSE req)
     /\ UNCHANGED firm

\* remove_firm_membership's first transaction.
Remove(u) ==
  LET v == req[u].op.target
  IN /\ req[u].pc = "decided" /\ req[u].op.kind = "remove"
     /\ firm[v] # "none" => SessionHolders(u, v) = {}
     /\ firm' = [firm EXCEPT ![v] = "none"]
     /\ sess' = IF firm[v] # "none" THEN [sess EXCEPT ![v] = "none"] ELSE sess
     /\ req' = [req EXCEPT ![u].pc = "clean", ![v].own = req[v] = Idle]
     /\ lock' = Nobody
     /\ UNCHANGED <<mem, alone>>

\* _remove_entry_row: one company, one transaction; whatever row is there now.
Clean(u, t) ==
  LET v == req[u].op.target
  IN /\ req[u].pc = "clean" /\ t \in req[u].todo
     /\ mem[t][v] # "none" /\ sess[v] = t => SessionHolders(u, v) = {}
     /\ mem' = [mem EXCEPT ![t][v] = "none"]
     /\ sess' = IF mem[t][v] = "none" THEN sess ELSE LeftTenant(sess, t, v)
     /\ req' = [WithoutRow(t, v) EXCEPT ![u].todo = @ \ {t}]
     /\ UNCHANGED <<firm, lock, alone>>

\* The removal has answered.
EndRemove(u) ==
  /\ req[u].pc = "clean" /\ req[u].todo = {}
  /\ sess' = Cleared(u)
  /\ EndAs(u, req)
  /\ UNCHANGED <<firm, mem>>

\* Refused in words, by a constraint, as a deadlock, or the process dies: what is not
\* committed is rolled back.
Fails(u) ==
  /\ req[u] # Idle
  /\ EndAs(u, req)
  /\ UNCHANGED <<firm, mem, sess>>

-----------------------------------------------------------------------------
Next ==
  \E u \in Users :
    \/ BeginEnter(u) \/ CommitEnter(u) \/ Expire(u) \/ BeginLogout(u)
    \/ \E op \in AdminOps : Begin(u, op)
    \/ Decide(u) \/ FinishFirm(u) \/ EndSessions(u) \/ FinishLink(u)
    \/ FinishMember(u) \/ Revoke(u)
    \/ Remove(u) \/ EndRemove(u) \/ Fails(u)
    \/ \E t \in Tenants : Clean(u, t)

Spec == Init /\ [][Next]_vars

-----------------------------------------------------------------------------
(* Properties. *)

OtherOps ==
  {Op(k, u, t) : k \in {"none", "login", "enter", "logout"},
   u \in Users \cup {Nobody}, t \in Tenants \cup {"none", "open"}}

Requests ==
  [pc : {"idle", "enter", "begun", "decided", "ended", "audit", "clean"},
   op : AdminOps \cup OtherOps,
   cleared : BOOLEAN, own : BOOLEAN, todo : SUBSET Tenants]

\* Shapes; and the firm's row lock is held exactly by a request that changes or
\* removes a firm membership and has not committed.
TypeOK ==
  /\ firm \in [Users -> FirmRoles \cup {"none"}]
  /\ mem \in [Tenants -> [Users -> ClientRoles \cup {"none", "entry"}]]
  /\ sess \in [Users -> Tenants \cup {"none", "open"}]
  /\ req \in [Users -> Requests]
  /\ lock \in Users \cup {Nobody}
  /\ alone \in BOOLEAN
  /\ \A u \in Users : lock = u <=> req[u].pc = "decided" /\ req[u].op.kind \in Locked

\* "The last firm_admin of a firm cannot be removed or demoted": however
\* administrators demote and remove one another at the same time, one is left.
AdminStays == Admins # {}

\* D-15: "an entry row exists only for a user holding a firm_membership in the
\* tenant's firm; a client-role row never does": nobody holds a firm role and a client
\* role, as long as requests are handled one after the other.
RolesApart == alone => \A u \in Users : firm[u] # "none" => client_rows_in_firm(u) = {}

\* "A failure part-way is harmless ... and repeating the request finishes the job":
\* a removal that answers, with nothing overlapping, leaves neither a firm role nor
\* an entry row, whatever an interrupted one left.
RemovalCleans ==
  [][\A u \in Users : alone /\ EndRemove(u) =>
       LET v == req[u].op.target IN firm[v] = "none" /\ entry_rows_in_firm(v) = {}]_vars

\* Whose session row u's request writes in its next step.
WritesSession(u) ==
  LET r == req[u]
      v == r.op.target
  IN CASE r.pc = "decided" /\ r.op.kind \in {"create", "change_role", "link", "logout"} -> {v}
       [] r.pc = "decided" /\ r.op.kind = "remove" /\ firm[v] # "none" -> {v}
       [] r.pc = "decided" /\ r.op.kind = "revoke" /\ sess[v] = r.op.tenant -> {v}
       [] r.pc = "clean" /\ sess[v] \in r.todo -> {v}
       [] r.pc = "enter" /\ r.op.kind = "enter" -> {u}
       [] OTHER -> {}

WritesFirm(u) ==
  \/ req[u].pc = "begun" /\ TakesLock(req[u].op)
  \/ req[u].pc = "decided" /\ req[u].op.kind \in {"create", "logout"}
  \/ req[u].pc \in {"ended", "audit"}

\* Whose requests u's request waits for.
WaitsFor(u) ==
  (UNION {SessionHolders(u, v) : v \in WritesSession(u)})
  \cup (IF WritesFirm(u) THEN FirmHolders(u) ELSE {})

\* The requests of S wait for one another and none can go on.
Cycle(S) == S # {} /\ \A u \in S : WaitsFor(u) \cap S # {}

\* core/auth.py: "the request transaction must not hold a row lock on the session for
\* its whole duration, or an admin ending this user's sessions concurrently would
\* deadlock with it": requests wait for one another in a circle only when one of them
\* has found its active tenant gone, or has ended sessions before it wrote its audit row.
NoWaitCycle ==
  \A S \in SUBSET Users : Cycle(S) => \E u \in S : req[u].cleared \/ req[u].pc = "ended"

\* Requests that run beside one another: rows and locks in shape, nobody with a firm
\* role and a client role, and no circle of waiting requests but the two known ones.
RequestsApart == TypeOK /\ RolesApart /\ NoWaitCycle

\* The same without the exceptions.
NeverWaitCycle == \A S \in SUBSET Users : ~Cycle(S)
================================================================================
