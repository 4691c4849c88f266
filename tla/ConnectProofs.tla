---------------------------- MODULE ConnectProofs ----------------------------
(***************************************************************************)
(* Theorems about QboConnect for any tenants, QuickBooks companies,        *)
(* browsers and reading tasks, and about QboChain for any entities, slot   *)
(* length and bounds.                                                      *)
(***************************************************************************)
EXTENDS QboConnect, QboChain, FiniteSetTheorems, SequenceTheorems, TLAPS

\* A read that holds the connection row's lock; one that Intuit has answered.
Refreshing(x) == reader[x] # Nil /\ reader[x].step \in {"refresh", "commit"}
Committing(x) == reader[x] # Nil /\ reader[x].step = "commit"
Carries(b) == callback[b] # Nil /\ callback[b].token # 0

\* Every refresh token belongs to the company it was issued for.
TokensFit ==
  /\ \A t \in Tenant :
       /\ conn[t].status = "connected" => conn[t].realm # Nil
       /\ conn[t].token # 0 => conn[t].token <= Len(tokens) /\ tokens[conn[t].token] = conn[t].realm
  /\ \A b \in Browser : callback[b] # Nil =>
       /\ callback[b].step \in {"verify", "store"} <=> callback[b].token # 0
       /\ callback[b].token # 0 => callback[b].token <= Len(tokens)
                                   /\ tokens[callback[b].token] = callback[b].realm
  /\ \A x \in Reader : Committing(x) =>
       /\ reader[x].token \in 1..Len(tokens) /\ tokens[reader[x].token] = reader[x].realm

\* Nobody shares a refresh token with another holder of one.
TokensApart ==
  /\ \A s, t \in Tenant : conn[s].token # 0 /\ conn[s].token = conn[t].token => s = t
  /\ \A b, c \in Browser : Carries(b) /\ Carries(c) /\ callback[b].token = callback[c].token => b = c
  /\ \A x, y \in Reader : Committing(x) /\ Committing(y) /\ reader[x].token = reader[y].token => x = y
  /\ \A b \in Browser, t \in Tenant : Carries(b) => callback[b].token # conn[t].token
  /\ \A x \in Reader, t \in Tenant : Committing(x) => reader[x].token # conn[t].token
  /\ \A x \in Reader, b \in Browser : Committing(x) /\ Carries(b) => reader[x].token # callback[b].token

\* A refresh under way has the row to itself.
LockHeld ==
  \A x \in Reader : Refreshing(x) =>
     /\ lock[reader[x].tenant] = x
     /\ conn[reader[x].tenant].status = "connected"
     /\ conn[reader[x].tenant].realm = reader[x].realm

\* The new token is accepted, or it was withdrawn or lost and that is known, and so are
\* the settings that cannot use a connection.
TokenInHand ==
  /\ \A t \in Tenant :
       /\ conn[t].other => t \in lostAt
       /\ conn[t].status = "connected" =>
            \/ conn[t].token \in valid \/ t \in lostAt
            \/ \E x \in Reader : lock[t] = x /\ Committing(x) /\ reader[x].tenant = t
       /\ conn[t].status = "needs_reconnect" => t \in lostAt
  /\ \A x \in Reader : Committing(x) => reader[x].token \in valid \/ reader[x].tenant \in lostAt

\* What was read, and is being read, is the tenant's one company; a callback that
\* passed the checks changes the company only where no record was held.
OneCompany ==
  /\ \A t \in Tenant \ crossed : records[t] \subseteq {conn[t].realm}
  /\ \A x \in Reader : reader[x] # Nil /\ reader[x].tenant \notin crossed =>
       reader[x].realm = conn[reader[x].tenant].realm
  /\ \A b \in Browser : callback[b] # Nil /\ callback[b].step # "check" =>
       callback[b].seen \in {Nil, callback[b].realm} \/ callback[b].held = {}

IInv == ConnectTypeOK /\ TokensFit /\ TokensApart /\ LockHeld /\ TokenInHand /\ OneCompany

-----------------------------------------------------------------------------
(* Actions that leave every token, company and status of a connection alone. *)

SameConnections ==
  \A t \in Tenant : /\ conn'[t].status = conn[t].status /\ conn'[t].other = conn[t].other
                    /\ conn'[t].realm = conn[t].realm /\ conn'[t].token = conn[t].token

\* A callback that has no token yet, and passed the checks if it is past them.
Tokenless(c) ==
  /\ c.token = 0 /\ c.step \in {"check", "exchange"}
  /\ c.step = "exchange" => c.seen \in {Nil, c.realm} \/ c.held = {}

LEMMA Untouched ==
  ASSUME IInv, ConnectTypeOK', SameConnections,
         UNCHANGED <<lock, tokens, valid, reader, records, lostAt, crossed>>,
         \A b \in Browser : callback'[b] \in {callback[b], Nil} \/ Tokenless(callback'[b])
  PROVE  IInv'
<1> USE DEF IInv, Tokenless
<1>1. TokensFit'
  BY DEF SameConnections, TokensFit, Committing
<1>2. TokensApart'
  BY DEF SameConnections, TokensApart, Committing, Carries
<1>3. ConnectTypeOK /\ Nil \notin ReadRow
  BY ConnectAssumption
<1>4. ASSUME NEW x \in Reader, reader[x] # Nil PROVE reader[x].tenant \in Tenant
  BY <1>3, <1>4 DEF ConnectTypeOK, ReadRow
<1>5. LockHeld'
  BY <1>4 DEF SameConnections, LockHeld, Refreshing
<1>6. TokenInHand'
  BY DEF SameConnections, TokenInHand, Committing
<1>7. OneCompany'
  BY <1>4 DEF SameConnections, OneCompany
<1> QED BY <1>1, <1>2, <1>5, <1>6, <1>7

\* What the actions do to the row of one connection.
LEMMA RowWritten ==
  ASSUME ConnectTypeOK, NEW t \in Tenant, NEW r \in ConnectionRow, conn' = [conn EXCEPT ![t] = r]
  PROVE  /\ conn' \in [Tenant -> ConnectionRow]
         /\ conn'[t] = r /\ \A s \in Tenant \ {t} : conn'[s] = conn[s]
  BY DEF ConnectTypeOK

LEMMA ConnectionFields ==
  ASSUME ConnectTypeOK, NEW t \in Tenant
  PROVE  /\ conn[t] \in ConnectionRow
         /\ conn[t].status \in {"disconnected", "connected", "needs_reconnect"}
         /\ conn[t].realm \in Realm \cup {Nil} /\ conn[t].token \in 0..MaxTokens
         /\ conn[t].state \in 0..MaxStates /\ conn[t].by \in User \cup {Nil}
         /\ conn[t].fresh \in BOOLEAN /\ conn[t].other \in BOOLEAN
  BY DEF ConnectTypeOK, ConnectionRow

LEMMA CallbackFields ==
  ASSUME ConnectTypeOK, NEW b \in Browser, callback[b] # Nil
  PROVE  /\ callback[b] \in CallbackRow
         /\ callback[b].step \in {"check", "exchange", "verify", "store"}
         /\ callback[b].tenant \in Tenant /\ callback[b].realm \in Realm
         /\ callback[b].seen \in Realm \cup {Nil} /\ callback[b].held \subseteq Realm
         /\ callback[b].token \in 0..MaxTokens
  BY DEF ConnectTypeOK, CallbackRow

LEMMA ReadFields ==
  ASSUME ConnectTypeOK, NEW x \in Reader, reader[x] # Nil
  PROVE  /\ reader[x] \in ReadRow
         /\ reader[x].step \in {"refresh", "commit", "get", "rows"}
         /\ reader[x].tenant \in Tenant /\ reader[x].realm \in Realm
         /\ reader[x].token \in 0..MaxTokens /\ reader[x].again \in BOOLEAN
  BY DEF ConnectTypeOK, ReadRow

LEMMA StartConnectKeeps ==
  ASSUME IInv, NEW t \in Tenant, NEW u \in User, StartConnect(t, u) PROVE IInv'
<1>1. ConnectTypeOK
  BY DEF IInv
<1> DEFINE r == [conn[t] EXCEPT !.state = states + 1, !.by = u]
<1>2. conn' = [conn EXCEPT ![t] = r]
  BY <1>1 DEF StartConnect, ConnectTypeOK
<1>3. /\ conn[t] \in ConnectionRow /\ states + 1 \in 0..MaxStates
      /\ u \in User \cup {Nil}
  BY <1>1, ConnectionFields, ConnectAssumption DEF StartConnect, ConnectTypeOK
<1>4. /\ r \in ConnectionRow /\ r.status = conn[t].status /\ r.other = conn[t].other
      /\ r.realm = conn[t].realm /\ r.token = conn[t].token
  BY <1>3 DEF ConnectionRow
<1> HIDE DEF r
<1>5. conn' \in [Tenant -> ConnectionRow] /\ SameConnections
  BY <1>1, <1>2, <1>4, RowWritten DEF SameConnections
<1>6. ConnectTypeOK'
  BY <1>1, <1>3, <1>5 DEF StartConnect, intuit, ConnectTypeOK
<1> QED BY <1>5, <1>6, Untouched DEF StartConnect, intuit

LEMMA StateUsedKeeps ==
  ASSUME IInv, NEW t \in Tenant, conn' = [conn EXCEPT ![t].state = 0, ![t].by = Nil]
  PROVE  conn' \in [Tenant -> ConnectionRow] /\ SameConnections
<1>1. ConnectTypeOK
  BY DEF IInv
<1> DEFINE r == [conn[t] EXCEPT !.state = 0, !.by = Nil]
<1>2. conn' = [conn EXCEPT ![t] = r]
  BY <1>1 DEF ConnectTypeOK
<1>3. conn[t] \in ConnectionRow /\ 0 \in 0..MaxStates
  BY <1>1, ConnectionFields, ConnectAssumption
<1>4. /\ r \in ConnectionRow /\ r.status = conn[t].status /\ r.other = conn[t].other
      /\ r.realm = conn[t].realm /\ r.token = conn[t].token
  BY <1>3 DEF ConnectionRow
<1> HIDE DEF r
<1> QED BY <1>1, <1>2, <1>4, RowWritten DEF SameConnections

LEMMA ExpireStateKeeps == ASSUME IInv, NEW t \in Tenant, ExpireState(t) PROVE IInv'
<1>1. ConnectTypeOK' /\ SameConnections
  BY StateUsedKeeps DEF IInv, ExpireState, intuit, ConnectTypeOK
<1> QED BY <1>1, Untouched DEF ExpireState, intuit

LEMMA ExpireAccessKeeps == ASSUME IInv, NEW t \in Tenant, ExpireAccess(t) PROVE IInv'
<1>1. ConnectTypeOK
  BY DEF IInv
<1> DEFINE r == [conn[t] EXCEPT !.fresh = FALSE]
<1>2. conn' = [conn EXCEPT ![t] = r]
  BY <1>1 DEF ExpireAccess, ConnectTypeOK
<1>3. /\ r \in ConnectionRow /\ r.status = conn[t].status /\ r.other = conn[t].other
      /\ r.realm = conn[t].realm /\ r.token = conn[t].token
  BY <1>1, ConnectionFields DEF ConnectionRow
<1> HIDE DEF r
<1>4. ConnectTypeOK' /\ SameConnections
  BY <1>1, <1>2, <1>3, RowWritten DEF ExpireAccess, intuit, ConnectTypeOK, SameConnections
<1> QED BY <1>4, Untouched DEF ExpireAccess, intuit

LEMMA DropCallbackKeeps == ASSUME IInv, NEW b \in Browser, DropCallback(b) PROVE IInv'
<1>1. ConnectTypeOK' /\ SameConnections
  BY DEF IInv, DropCallback, intuit, ConnectTypeOK, SameConnections
<1>2. \A c \in Browser : callback'[c] = callback[c] \/ callback'[c] = Nil
  BY DEF IInv, DropCallback, ConnectTypeOK
<1> QED BY <1>1, <1>2, Untouched DEF DropCallback, intuit

LEMMA QuietKeeps ==
  ASSUME IInv, \/ \E u \in User : LoseRole(u)
               \/ \E t \in Tenant : Dispatch(t)
               \/ UNCHANGED conVars
  PROVE  IInv'
<1>1. ConnectTypeOK' /\ SameConnections
  BY DEF IInv, LoseRole, Dispatch, conVars, intuit, ConnectTypeOK, SameConnections
<1> QED BY <1>1, Untouched DEF LoseRole, Dispatch, conVars, intuit

-----------------------------------------------------------------------------
(* Connecting.                                                               *)

LEMMA ClaimStateKeeps ==
  ASSUME IInv, NEW b \in Browser, NEW t \in Tenant, NEW r \in Realm, ClaimState(b, t, r)
  PROVE  IInv'
<1>1. ConnectTypeOK
  BY DEF IInv
<1> DEFINE c == [step |-> "check", tenant |-> t, realm |-> r, user |-> conn[t].by,
                 seen |-> conn[t].realm, status |-> conn[t].status, held |-> {}, token |-> 0]
<1>2. conn' \in [Tenant -> ConnectionRow] /\ SameConnections
  BY StateUsedKeeps DEF ClaimState
<1>3. c \in CallbackRow /\ Tokenless(c)
  BY <1>1, ConnectionFields, ConnectAssumption DEF CallbackRow, Tokenless
<1>4. callback' = [callback EXCEPT ![b] = c] \/ callback' = callback
  BY DEF ClaimState
<1> HIDE DEF c
<1>5. /\ callback' \in [Browser -> CallbackRow \cup {Nil}]
      /\ \A a \in Browser : callback'[a] \in {callback[a], Nil} \/ Tokenless(callback'[a])
  BY <1>1, <1>3, <1>4 DEF ConnectTypeOK
<1>6. ConnectTypeOK'
  BY <1>1, <1>2, <1>5 DEF ClaimState, intuit, ConnectTypeOK
<1> QED BY <1>2, <1>5, <1>6, Untouched DEF ClaimState, intuit

LEMMA CheckCallbackKeeps == ASSUME IInv, NEW b \in Browser, CheckCallback(b) PROVE IInv'
<1>1. ConnectTypeOK /\ TokensFit
  BY DEF IInv
<1> DEFINE c == callback[b]
           d == [c EXCEPT !.step = "exchange", !.held = records[c.tenant]]
<1>2. /\ c \in CallbackRow /\ c.step = "check" /\ c.token = 0
      /\ records[c.tenant] \subseteq Realm
  BY <1>1, CallbackFields DEF CheckCallback, ConnectTypeOK, TokensFit
<1>3. d \in CallbackRow /\ d.token = 0 /\ d.step = "exchange" /\ d.seen = c.seen
      /\ d.realm = c.realm /\ d.held = records[c.tenant]
  BY <1>2 DEF CallbackRow
<1>4. MayConnect(c) => Tokenless(d)
  BY <1>3 DEF MayConnect, Tokenless
<1>5. callback' = [callback EXCEPT ![b] = IF MayConnect(c) THEN d ELSE Nil]
  BY DEF CheckCallback
<1> HIDE DEF c, d
<1>6. /\ callback' \in [Browser -> CallbackRow \cup {Nil}]
      /\ \A a \in Browser : callback'[a] \in {callback[a], Nil} \/ Tokenless(callback'[a])
  BY <1>1, <1>3, <1>4, <1>5 DEF ConnectTypeOK
<1>7. ConnectTypeOK' /\ SameConnections
  BY <1>1, <1>6 DEF CheckCallback, intuit, ConnectTypeOK, SameConnections
<1> QED BY <1>6, <1>7, Untouched DEF CheckCallback, intuit

\* A token Intuit issues is one nobody holds.
LEMMA IssueAppends ==
  ASSUME ConnectTypeOK, NEW r \in Realm, Issue(r)
  PROVE  /\ tokens' \in Seq(Realm) /\ Len(tokens') = Len(tokens) + 1 /\ Len(tokens') <= MaxTokens
         /\ NewToken = Len(tokens) + 1 /\ tokens'[NewToken] = r
         /\ Len(tokens) \in Nat /\ \A i \in 1..Len(tokens) : tokens'[i] = tokens[i]
         /\ valid \cup {NewToken} \subseteq 1..Len(tokens')
<1>1. tokens \in Seq(Realm) /\ Len(tokens) \in Nat /\ MaxTokens \in Nat
  BY ConnectAssumption, LenProperties DEF ConnectTypeOK
<1>2. tokens' = Append(tokens, r) /\ Len(tokens) < MaxTokens
  BY DEF Issue
<1>3. /\ tokens' \in Seq(Realm) /\ Len(tokens') = Len(tokens) + 1 /\ Len(tokens') <= MaxTokens
      /\ NewToken = Len(tokens) + 1 /\ tokens'[NewToken] = r
      /\ \A i \in 1..Len(tokens) : tokens'[i] = tokens[i]
  BY <1>1, <1>2, AppendProperties DEF NewToken
<1>4. valid \subseteq 1..Len(tokens)
  BY DEF ConnectTypeOK
<1>5. NewToken \in 1..Len(tokens') /\ 1..Len(tokens) \subseteq 1..Len(tokens')
  BY <1>1, <1>3
<1> QED BY <1>1, <1>3, <1>4, <1>5

LEMMA ExchangeKeeps == ASSUME IInv, NEW b \in Browser, Exchange(b) PROVE IInv'
<1>1. ConnectTypeOK /\ TokensFit
  BY DEF IInv
<1> DEFINE c == callback[b]
           d == [c EXCEPT !.step = "verify", !.token = NewToken]
<1>2. c # Nil /\ c \in CallbackRow /\ c.step = "exchange" /\ c.realm \in Realm
  BY <1>1, CallbackFields DEF Exchange
<1>3. CASE callback' = [callback EXCEPT ![b] = Nil] /\ UNCHANGED intuit
  <2>1. ConnectTypeOK' /\ SameConnections
    BY <1>1, <1>3 DEF Exchange, intuit, ConnectTypeOK, SameConnections
  <2>2. \A a \in Browser : callback'[a] \in {callback[a], Nil}
    BY <1>1, <1>3 DEF ConnectTypeOK
  <2> QED BY <1>3, <2>1, <2>2, Untouched DEF Exchange, intuit
<1>4. CASE /\ Issue(c.realm) /\ valid' = valid \cup {NewToken}
           /\ \/ callback' = [callback EXCEPT ![b] = d]
              \/ callback' = [callback EXCEPT ![b] = Nil]
  <2>1. /\ tokens' \in Seq(Realm) /\ Len(tokens') = Len(tokens) + 1 /\ Len(tokens') <= MaxTokens
        /\ NewToken = Len(tokens) + 1 /\ tokens'[NewToken] = c.realm
        /\ Len(tokens) \in Nat /\ \A i \in 1..Len(tokens) : tokens'[i] = tokens[i]
        /\ valid' \subseteq 1..Len(tokens')
    BY <1>1, <1>2, <1>4, IssueAppends
  <2>2. NewToken \in 0..MaxTokens
    BY <2>1, ConnectAssumption
  <2>3. /\ d \in CallbackRow /\ d.step = "verify" /\ d.token = NewToken /\ d.realm = c.realm
        /\ d.seen = c.seen /\ d.held = c.held /\ d # Nil
    BY <1>2, <2>2, ConnectAssumption DEF CallbackRow
  <2> HIDE DEF d
  <2>4. callback'[b] \in {d, Nil} /\ \A a \in Browser \ {b} : callback'[a] = callback[a]
    BY <1>1, <1>4 DEF ConnectTypeOK
  <2>5. UNCHANGED <<conn, lock, reader, records, lostAt, crossed, admin, states, poll>>
    BY DEF Exchange
  <2>6. ConnectTypeOK'
    <3>1. callback' \in [Browser -> CallbackRow \cup {Nil}]
      BY <1>1, <1>4, <2>3 DEF ConnectTypeOK
    <3> QED BY <1>1, <2>1, <2>5, <3>1 DEF ConnectTypeOK
  <2>7. /\ \A t \in Tenant : conn[t].token \in Nat /\ (conn[t].token # 0 => conn[t].token <= Len(tokens))
        /\ \A a \in Browser : callback[a] # Nil => callback[a].token \in Nat
                                /\ (callback[a].token # 0 => callback[a].token <= Len(tokens))
        /\ \A x \in Reader : Committing(x) => reader[x].token \in 1..Len(tokens)
    BY <1>1, ConnectionFields, CallbackFields DEF TokensFit
  <2>8. TokensFit'
    BY <1>1, <1>2, <2>1, <2>3, <2>4, <2>5, <2>7 DEF TokensFit, Committing
  <2>9. TokensApart'
    BY <1>1, <2>1, <2>3, <2>4, <2>5, <2>7 DEF IInv, TokensApart, Committing, Carries
  <2>10. LockHeld'
    BY <2>5 DEF IInv, LockHeld, Refreshing
  <2>11. TokenInHand'
    BY <1>4, <2>5 DEF IInv, TokenInHand, Committing
  <2>12. OneCompany'
    BY <1>2, <2>3, <2>4, <2>5 DEF IInv, OneCompany
  <2> QED BY <2>6, <2>8, <2>9, <2>10, <2>11, <2>12 DEF IInv
<1> QED BY <1>3, <1>4 DEF Exchange, TokenAnswers

LEMMA VerifyCompanyKeeps == ASSUME IInv, NEW b \in Browser, VerifyCompany(b) PROVE IInv'
<1>1. ConnectTypeOK /\ TokensFit /\ TokensApart
  BY DEF IInv
<1> DEFINE c == callback[b]
           d == [c EXCEPT !.step = "store"]
<1>2. c # Nil /\ c \in CallbackRow /\ c.step = "verify" /\ c.token # 0 /\ Carries(b)
  BY <1>1, CallbackFields DEF VerifyCompany, TokensFit, Carries
<1>3. /\ d \in CallbackRow /\ d.step = "store" /\ d.token = c.token /\ d.realm = c.realm
      /\ d.seen = c.seen /\ d.held = c.held /\ d # Nil
  BY <1>2, ConnectAssumption DEF CallbackRow
<1>4. /\ \/ callback' = [callback EXCEPT ![b] = d] /\ valid' = valid
         \/ callback' = [callback EXCEPT ![b] = Nil] /\ valid' \in Revoked(c.token)
      /\ UNCHANGED <<conn, lock, tokens, reader, records, lostAt, crossed, admin, states, poll>>
  BY DEF VerifyCompany
<1>5. callback'[b] \in {d, Nil} /\ \A a \in Browser \ {b} : callback'[a] = callback[a]
  BY <1>1, <1>4 DEF ConnectTypeOK
<1> HIDE DEF d
<1>6. callback' \in [Browser -> CallbackRow \cup {Nil}]
  BY <1>1, <1>3, <1>4 DEF ConnectTypeOK
<1>7. valid \ {c.token} \subseteq valid' /\ valid' \subseteq valid
  BY <1>4 DEF Revoked
<1>8. ConnectTypeOK'
  BY <1>1, <1>4, <1>6, <1>7 DEF ConnectTypeOK
<1>9. TokensFit'
  BY <1>2, <1>3, <1>4, <1>5 DEF IInv, TokensFit, Committing
<1>10. TokensApart'
  BY <1>2, <1>3, <1>4, <1>5 DEF IInv, TokensApart, Committing, Carries
<1>11. LockHeld'
  BY <1>4 DEF IInv, LockHeld, Refreshing
<1>12. /\ \A t \in Tenant : conn[t].token # c.token
       /\ \A x \in Reader : Committing(x) => reader[x].token # c.token
  BY <1>2 DEF IInv, TokensApart
<1>13. TokenInHand'
  BY <1>4, <1>7, <1>12 DEF IInv, TokenInHand, Committing
<1>14. OneCompany'
  BY <1>2, <1>3, <1>4, <1>5 DEF IInv, OneCompany
<1> QED BY <1>8, <1>9, <1>10, <1>11, <1>13, <1>14 DEF IInv

\* The tokens and the company of a callback that passed every check are stored.
LEMMA StoredKeeps ==
  ASSUME IInv, NEW b \in Browser, callback[b] # Nil, callback[b].step = "store",
         NEW t \in Tenant, t = callback[b].tenant, lock[t] = Nil,
         callback' = [callback EXCEPT ![b] = Nil],
         conn' = [conn EXCEPT ![t] = TokensSet(@, callback[b].realm, callback[b].token)],
         poll' = poll \cup {t},
         lostAt' = IF callback[b].token \in valid THEN lostAt \ {t} ELSE lostAt \cup {t},
         crossed' = IF Underway(t, callback[b].realm, b) THEN crossed \cup {t} ELSE crossed,
         UNCHANGED <<lock, admin, states, tokens, valid, reader, records>>
  PROVE  IInv'
<1> DEFINE c == callback[b]
           r == TokensSet(conn[t], c.realm, c.token)
<1>1. ConnectTypeOK /\ TokensFit /\ TokensApart
  BY DEF IInv
<1>2. /\ c \in CallbackRow /\ c.step = "store" /\ c.token # 0 /\ Carries(b) /\ c.token \in 0..MaxTokens
      /\ c.realm \in Realm /\ c.realm # Nil /\ c.token <= Len(tokens) /\ tokens[c.token] = c.realm
      /\ c.held \subseteq Realm
  BY <1>1, CallbackFields, ConnectAssumption DEF TokensFit, Carries
<1>3. conn[t] \in ConnectionRow
  BY <1>1, ConnectionFields
<1>4. /\ r \in ConnectionRow /\ r.status = "connected" /\ r.realm = c.realm /\ r.token = c.token
      /\ ~r.other
  BY <1>2, <1>3 DEF TokensSet, ConnectionRow
<1>5. conn' = [conn EXCEPT ![t] = r]
  BY <1>1 DEF ConnectTypeOK
<1> HIDE DEF r
<1>6. /\ conn' \in [Tenant -> ConnectionRow]
      /\ conn'[t] = r /\ \A s \in Tenant \ {t} : conn'[s] = conn[s]
  BY <1>1, <1>4, <1>5, RowWritten
<1>7. callback'[b] = Nil /\ \A a \in Browser \ {b} : callback'[a] = callback[a]
  BY <1>1 DEF ConnectTypeOK
<1>8. ConnectTypeOK'
  <2>1. callback' \in [Browser -> CallbackRow \cup {Nil}]
    BY <1>1 DEF ConnectTypeOK
  <2>2. lostAt' \subseteq Tenant /\ crossed' \subseteq Tenant /\ poll' \subseteq Tenant
    BY <1>1 DEF ConnectTypeOK
  <2> QED BY <1>1, <1>6, <2>1, <2>2 DEF ConnectTypeOK
<1>9. TokensFit'
  BY <1>2, <1>4, <1>6, <1>7 DEF IInv, TokensFit, Committing
<1>10. TokensApart'
  BY <1>2, <1>4, <1>6, <1>7 DEF IInv, TokensApart, Committing, Carries
<1>11. ASSUME NEW x \in Reader, reader[x] # Nil PROVE reader[x].tenant \in Tenant /\ Nil # x
  BY <1>1, <1>11, ReadFields, ConnectAssumption
<1>12. LockHeld'
  BY <1>6, <1>11 DEF IInv, LockHeld, Refreshing
<1>13. TokenInHand'
  <2>1. ASSUME NEW x \in Reader, Committing(x) PROVE reader[x].tenant # t
    BY <1>11, <2>1 DEF IInv, LockHeld, Refreshing, Committing
  <2> QED BY <1>4, <1>6, <1>11, <2>1 DEF IInv, TokenInHand, Committing
<1>14. OneCompany'
  <2>1. ASSUME ~Underway(t, c.realm, b), t \notin crossed
        PROVE  /\ records[t] \subseteq {c.realm}
               /\ \A x \in Reader : reader[x] # Nil /\ reader[x].tenant = t => reader[x].realm = c.realm
    <3>1. records[t] \subseteq {c.seen} /\ records[t] = c.held
      BY <2>1 DEF IInv, OneCompany, Underway
    <3>2. c.seen \in {Nil, c.realm} \/ c.held = {}
      BY <1>2 DEF IInv, OneCompany
    <3>3. Nil \notin records[t]
      BY <1>2, <3>1, ConnectAssumption
    <3>4. records[t] \subseteq {c.realm}
      BY <3>1, <3>2, <3>3
    <3> QED BY <2>1, <3>4 DEF Underway
  <2> QED BY <1>4, <1>6, <1>7, <1>11, <2>1 DEF IInv, OneCompany
<1> QED BY <1>8, <1>9, <1>10, <1>12, <1>13, <1>14 DEF IInv

\* A token that is not stored anywhere is revoked, or not.
LEMMA RefusedKeeps ==
  ASSUME IInv, NEW b \in Browser, callback[b] # Nil, callback[b].step = "store",
         callback' = [callback EXCEPT ![b] = Nil], valid' \in Revoked(callback[b].token),
         UNCHANGED <<conn, lock, admin, states, tokens, reader, poll, records, lostAt, crossed>>
  PROVE  IInv'
<1> DEFINE c == callback[b]
<1>1. ConnectTypeOK /\ TokensFit /\ TokensApart
  BY DEF IInv
<1>2. c.token # 0 /\ Carries(b)
  BY <1>1 DEF TokensFit, Carries
<1>3. callback'[b] = Nil /\ \A a \in Browser \ {b} : callback'[a] = callback[a]
  BY <1>1 DEF ConnectTypeOK
<1>4. valid \ {c.token} \subseteq valid' /\ valid' \subseteq valid
  BY DEF Revoked
<1>5. ConnectTypeOK'
  BY <1>1, <1>4 DEF ConnectTypeOK
<1>6. TokensFit'
  BY <1>3 DEF IInv, TokensFit, Committing
<1>7. TokensApart'
  BY <1>3 DEF IInv, TokensApart, Committing, Carries
<1>8. LockHeld'
  BY DEF IInv, LockHeld, Refreshing
<1>9. /\ \A t \in Tenant : conn[t].token # c.token
      /\ \A x \in Reader : Committing(x) => reader[x].token # c.token
  BY <1>2 DEF IInv, TokensApart
<1>10. TokenInHand'
  BY <1>4, <1>9 DEF IInv, TokenInHand, Committing
<1>11. OneCompany'
  BY <1>3 DEF IInv, OneCompany
<1> QED BY <1>5, <1>6, <1>7, <1>8, <1>10, <1>11 DEF IInv

LEMMA StoreConnectionKeeps == ASSUME IInv, NEW b \in Browser, StoreConnection(b) PROVE IInv'
<1>1. callback[b] # Nil /\ callback[b].tenant \in Tenant
  BY CallbackFields DEF IInv, StoreConnection
<1> QED BY <1>1, StoredKeeps, RefusedKeeps DEF StoreConnection

\* The tokens of a connection nobody refreshes are cleared.
LEMMA ClearedKeeps ==
  ASSUME IInv, NEW t \in Tenant, NEW r \in ConnectionRow, conn' = [conn EXCEPT ![t] = r],
         r.status = "disconnected" \/ (r.status = "needs_reconnect" /\ t \in lostAt),
         r.realm = conn[t].realm, r.token = 0, r.other = conn[t].other, lock[t] = Nil,
         valid \ {conn[t].token} \subseteq valid', valid' \subseteq valid, poll' \subseteq Tenant,
         UNCHANGED <<lock, admin, states, callback, tokens, reader, records, lostAt, crossed>>
  PROVE  IInv'
<1>1. ConnectTypeOK /\ TokensFit /\ TokensApart
  BY DEF IInv
<1>2. /\ conn' \in [Tenant -> ConnectionRow]
      /\ conn'[t] = r /\ \A s \in Tenant \ {t} : conn'[s] = conn[s]
  BY <1>1, RowWritten
<1>3. ConnectTypeOK'
  BY <1>1, <1>2 DEF ConnectTypeOK
<1>4. TokensFit'
  BY <1>2 DEF IInv, TokensFit, Committing
<1>5. TokensApart'
  BY <1>2, ReadFields DEF IInv, TokensApart, TokensFit, Committing, Carries
<1>6. ASSUME NEW x \in Reader, reader[x] # Nil PROVE reader[x].tenant \in Tenant /\ Nil # x
  BY <1>1, <1>6, ReadFields, ConnectAssumption
<1>7. LockHeld'
  BY <1>2, <1>6 DEF IInv, LockHeld, Refreshing
<1>8. TokenInHand'
  <2>1. ASSUME NEW s \in Tenant \ {t}, conn[s].status = "connected", conn[s].token \in valid
        PROVE  conn[s].token \in valid'
    <3>1. conn[s].token # 0
      BY <1>1, <2>1 DEF ConnectTypeOK
    <3> QED BY <1>1, <2>1, <3>1 DEF TokensApart
  <2>2. ASSUME NEW x \in Reader, Committing(x), reader[x].token \in valid PROVE reader[x].token \in valid'
    BY <1>1, <2>2 DEF TokensApart
  <2>3. conn[t].other => t \in lostAt
    BY DEF IInv, TokenInHand
  <2> QED BY <1>2, <2>1, <2>2, <2>3 DEF IInv, TokenInHand, Committing
<1>9. OneCompany'
  BY <1>2, <1>6 DEF IInv, OneCompany
<1> QED BY <1>3, <1>4, <1>5, <1>7, <1>8, <1>9 DEF IInv

LEMMA DisconnectKeeps == ASSUME IInv, NEW t \in Tenant, Disconnect(t) PROVE IInv'
<1> DEFINE r == Disconnected(conn[t])
<1>1. ConnectTypeOK
  BY DEF IInv
<1>2. conn[t] \in ConnectionRow /\ 0 \in 0..MaxTokens /\ 0 \in 0..MaxStates
  BY <1>1, ConnectionFields, ConnectAssumption
<1>3. /\ r \in ConnectionRow /\ r.status = "disconnected" /\ r.realm = conn[t].realm /\ r.token = 0
      /\ r.other = conn[t].other
  BY <1>2 DEF Disconnected, ConnectionRow
<1>4. conn' = [conn EXCEPT ![t] = r]
  BY <1>1 DEF Disconnect, ConnectTypeOK
<1> HIDE DEF r
<1>5. /\ valid \ {conn[t].token} \subseteq valid' /\ valid' \subseteq valid /\ lock[t] = Nil
      /\ poll' \subseteq Tenant
      /\ UNCHANGED <<lock, admin, states, callback, tokens, reader, records, lostAt, crossed>>
  BY <1>1 DEF Disconnect, Revoked, ConnectTypeOK
<1> QED BY <1>3, <1>4, <1>5, ClearedKeeps

-----------------------------------------------------------------------------
(* Reading.                                                                  *)

\* A step of one read that touches no connection, callback or token.  The read it
\* leaves behind has its tenant's company, and has taken the lock before it refreshes.
LEMMA ReadMoves ==
  ASSUME IInv, NEW x \in Reader, NEW q \in ReadRow \cup {Nil}, reader' = [reader EXCEPT ![x] = q],
         ConnectTypeOK', UNCHANGED <<conn, callback, tokens, valid, records, lostAt, crossed>>,
         ~Committing(x),
         q # Nil => /\ q.step # "commit"
                    /\ q.tenant \notin crossed => q.realm = conn[q.tenant].realm
                    /\ q.step = "refresh" => /\ lock'[q.tenant] = x /\ conn[q.tenant].status = "connected"
                                            /\ conn[q.tenant].realm = q.realm,
         \A t \in Tenant : lock[t] \notin {Nil, x} => lock'[t] = lock[t]
  PROVE  IInv'
<1>1. ConnectTypeOK /\ Nil # x
  BY ConnectAssumption DEF IInv
<1>2. reader'[x] = q /\ \A y \in Reader \ {x} : reader'[y] = reader[y]
  BY <1>1 DEF ConnectTypeOK
<1>3. ASSUME NEW y \in Reader, Committing(y)' PROVE y # x /\ reader'[y] = reader[y] /\ Committing(y)
  BY <1>2, <1>3 DEF Committing
<1>4. TokensFit'
  BY <1>3 DEF IInv, TokensFit
<1>5. TokensApart'
  BY <1>3 DEF IInv, TokensApart, Carries
<1>6. LockHeld'
  <2> SUFFICES ASSUME NEW y \in Reader, Refreshing(y)'
               PROVE  /\ lock'[reader'[y].tenant] = y
                      /\ conn[reader'[y].tenant].status = "connected"
                      /\ conn[reader'[y].tenant].realm = reader'[y].realm
    BY DEF LockHeld
  <2>1. CASE y = x
    BY <1>2, <2>1 DEF Refreshing
  <2>2. CASE y # x
    <3>1. reader'[y] = reader[y] /\ Refreshing(y) /\ reader[y].tenant \in Tenant /\ y # Nil
      BY <1>1, <1>2, <2>2, ReadFields, ConnectAssumption DEF Refreshing
    <3> QED BY <2>2, <3>1 DEF IInv, LockHeld
  <2> QED BY <2>1, <2>2
<1>7. TokenInHand'
  <2>1. ASSUME NEW t \in Tenant, NEW y \in Reader, lock[t] = y, Committing(y), reader[y].tenant = t
        PROVE  lock'[t] = y /\ Committing(y)' /\ reader'[y].tenant = t
    <3>1. y # x /\ y # Nil
      BY <2>1, ConnectAssumption
    <3> QED BY <1>2, <2>1, <3>1 DEF Committing
  <2> QED BY <1>3, <2>1 DEF IInv, TokenInHand
<1>8. OneCompany'
  BY <1>2 DEF IInv, OneCompany
<1> QED BY <1>4, <1>5, <1>6, <1>7, <1>8 DEF IInv

LEMMA AccessForKeeps == ASSUME IInv, NEW x \in Reader, NEW t \in Tenant, AccessFor(x, t) PROVE IInv'
<1>1. ConnectTypeOK /\ reader[x] = Nil /\ lock[t] = Nil
  BY DEF IInv, AccessFor
<1>2. /\ UNCHANGED <<admin, states, callback, tokens, valid, records, lostAt, crossed>>
      /\ poll' \subseteq poll
  BY DEF AccessFor, intuit
<1>3. CASE conn[t].status # "connected"
  <2>1. UNCHANGED <<conn, reader, lock>>
    BY <1>3 DEF AccessFor
  <2>2. ConnectTypeOK' /\ SameConnections
    BY <1>1, <1>2, <2>1 DEF ConnectTypeOK, SameConnections
  <2> QED BY <1>2, <2>1, <2>2, Untouched
<1>4. CASE conn[t].status = "connected" /\ (conn[t].other \/ conn[t].token = 0)
  <2> DEFINE r == NeedsReconnect(conn[t])
  <2>1. /\ conn' = [conn EXCEPT ![t] = r] /\ UNCHANGED <<reader, lock>>
    BY <1>1, <1>4 DEF AccessFor, ConnectTypeOK
  <2>2. conn[t] \in ConnectionRow /\ 0 \in 0..MaxTokens
    BY <1>1, ConnectionFields, ConnectAssumption
  <2>3. /\ r \in ConnectionRow /\ r.status = "needs_reconnect" /\ r.realm = conn[t].realm /\ r.token = 0
        /\ r.other = conn[t].other
    BY <2>2 DEF NeedsReconnect, ConnectionRow
  <2>4. \A x1 \in Reader : lock[t] # x1
    BY <1>1, ConnectAssumption
  <2>5. conn[t].token = 0 => conn[t].token \notin valid
    BY <1>1 DEF ConnectTypeOK
  <2>6. t \in lostAt
    BY <1>4, <2>4, <2>5 DEF IInv, TokenInHand
  <2> HIDE DEF r
  <2>7. poll' \subseteq Tenant
    BY <1>1, <1>2 DEF ConnectTypeOK
  <2> QED BY <1>1, <1>2, <2>1, <2>3, <2>6, <2>7, ClearedKeeps
<1>5. CASE conn[t].status = "connected" /\ ~(conn[t].other \/ conn[t].token = 0)
  <2> DEFINE q == [step |-> IF conn[t].fresh THEN "get" ELSE "refresh", tenant |-> t,
                   realm |-> conn[t].realm, token |-> conn[t].token, again |-> FALSE]
  <2>1. conn[t].realm # Nil
    BY <1>5 DEF IInv, TokensFit
  <2>2. q \in ReadRow /\ q.step \in {"get", "refresh"} /\ q.tenant = t /\ q.realm = conn[t].realm
        /\ (q.step = "refresh" => ~conn[t].fresh)
    BY <1>1, <2>1, ConnectionFields DEF ReadRow
  <2>3. /\ reader' = [reader EXCEPT ![x] = q]
        /\ lock' = IF conn[t].fresh THEN lock ELSE [lock EXCEPT ![t] = x]
        /\ UNCHANGED conn
    BY <1>5 DEF AccessFor
  <2> HIDE DEF q
  <2>4. ConnectTypeOK'
    <3>1. reader' \in [Reader -> ReadRow \cup {Nil}]
      BY <1>1, <2>2, <2>3 DEF ConnectTypeOK
    <3>2. lock' \in [Tenant -> Reader \cup {Nil}]
      BY <1>1, <2>3 DEF ConnectTypeOK
    <3> QED BY <1>1, <1>2, <2>3, <3>1, <3>2 DEF ConnectTypeOK
  <2>5. /\ \A s \in Tenant : lock[s] \notin {Nil, x} => lock'[s] = lock[s]
        /\ ~conn[t].fresh => lock'[t] = x
    BY <1>1, <2>3 DEF ConnectTypeOK
  <2>6. ~Committing(x)
    BY <1>1 DEF Committing
  <2> QED BY <1>2, <1>5, <2>2, <2>3, <2>4, <2>5, <2>6, ReadMoves
<1> QED BY <1>3, <1>4, <1>5

LEMMA GetKeeps == ASSUME IInv, NEW x \in Reader, Get(x) PROVE IInv'
<1> DEFINE q == reader[x]
           t == q.tenant
           rows == [q EXCEPT !.step = "rows"]
           more == [q EXCEPT !.step = "refresh", !.again = TRUE, !.realm = conn[t].realm]
<1>1. ConnectTypeOK /\ q # Nil /\ q.step = "get"
  BY DEF IInv, Get
<1>2. q \in ReadRow /\ t \in Tenant /\ q.realm \in Realm /\ conn[t].realm \in Realm \cup {Nil}
  BY <1>1, ReadFields, ConnectionFields
<1>3. UNCHANGED <<conn, admin, states, callback, tokens, valid, poll, records, lostAt, crossed>>
  BY DEF Get, intuit
<1>4. t \notin crossed => q.realm = conn[t].realm
  BY <1>1 DEF IInv, OneCompany
<1>5. rows \in ReadRow /\ rows.step = "rows" /\ rows.tenant = t /\ rows.realm = q.realm
  BY <1>2 DEF ReadRow
<1>6. ~Committing(x)
  BY <1>1 DEF Committing
<1>7. CASE reader' = [reader EXCEPT ![x] = rows] /\ UNCHANGED lock
  <2> HIDE DEF rows
  <2>1. ConnectTypeOK'
    BY <1>1, <1>3, <1>5, <1>7 DEF ConnectTypeOK
  <2> QED BY <1>3, <1>4, <1>5, <1>6, <1>7, <2>1, ReadMoves
<1>8. CASE reader' = [reader EXCEPT ![x] = Nil] /\ UNCHANGED lock
  <2>1. ConnectTypeOK'
    BY <1>1, <1>3, <1>8 DEF ConnectTypeOK
  <2> QED BY <1>3, <1>6, <1>8, <2>1, ReadMoves
<1>9. CASE /\ lock[t] = Nil /\ conn[t].status = "connected"
           /\ lock' = [lock EXCEPT ![t] = x] /\ reader' = [reader EXCEPT ![x] = more]
  <2>1. conn[t].realm \in Realm
    BY <1>2, <1>9 DEF IInv, TokensFit
  <2>2. more \in ReadRow /\ more.step = "refresh" /\ more.tenant = t /\ more.realm = conn[t].realm
    BY <1>2, <2>1 DEF ReadRow
  <2> HIDE DEF more
  <2>3. ConnectTypeOK'
    BY <1>1, <1>2, <1>3, <1>9, <2>2 DEF ConnectTypeOK
  <2>4. /\ lock'[t] = x
        /\ \A s \in Tenant : lock[s] \notin {Nil, x} => lock'[s] = lock[s]
    BY <1>1, <1>2, <1>9 DEF ConnectTypeOK
  <2> QED BY <1>3, <1>6, <1>9, <2>2, <2>3, <2>4, ReadMoves
<1> QED BY <1>7, <1>8, <1>9 DEF Get

LEMMA StoreRowsKeeps == ASSUME IInv, NEW x \in Reader, StoreRows(x) PROVE IInv'
<1> DEFINE q == reader[x]
           t == q.tenant
<1>1. ConnectTypeOK /\ q # Nil /\ q.step = "rows"
  BY DEF IInv, StoreRows
<1>2. t \in Tenant /\ q.realm \in Realm
  BY <1>1, ReadFields
<1>3. /\ UNCHANGED <<conn, lock, admin, states, callback, tokens, valid, poll, lostAt, crossed>>
      /\ records' = [records EXCEPT ![t] = @ \cup {q.realm}] /\ reader' = [reader EXCEPT ![x] = Nil]
  BY DEF StoreRows, intuit
<1>4. t \notin crossed => q.realm = conn[t].realm
  BY <1>1 DEF IInv, OneCompany
<1>5. ConnectTypeOK'
  BY <1>1, <1>2, <1>3 DEF ConnectTypeOK
<1>6. reader'[x] = Nil /\ \A y \in Reader \ {x} : reader'[y] = reader[y]
  BY <1>1, <1>3 DEF ConnectTypeOK
<1>7. records'[t] = records[t] \cup {q.realm} /\ \A s \in Tenant \ {t} : records'[s] = records[s]
  BY <1>1, <1>2, <1>3 DEF ConnectTypeOK
<1>8. TokensFit'
  BY <1>3, <1>6 DEF IInv, TokensFit, Committing
<1>9. TokensApart'
  BY <1>3, <1>6 DEF IInv, TokensApart, Committing, Carries
<1>10. LockHeld'
  BY <1>3, <1>6 DEF IInv, LockHeld, Refreshing
<1>11. ~Committing(x)
  BY <1>1 DEF Committing
<1>12. TokenInHand'
  BY <1>3, <1>6, <1>11 DEF IInv, TokenInHand, Committing
<1>13. OneCompany'
  BY <1>2, <1>3, <1>4, <1>6, <1>7 DEF IInv, OneCompany
<1> QED BY <1>5, <1>8, <1>9, <1>10, <1>12, <1>13 DEF IInv

\* A refresh that Intuit answered with a new token: the stored one is spent.
LEMMA RefreshedKeeps ==
  ASSUME IInv, NEW x \in Reader, reader[x] # Nil, reader[x].step = "refresh",
         Issue(reader[x].realm), valid' = (valid \ {conn[reader[x].tenant].token}) \cup {NewToken},
         reader' = [reader EXCEPT ![x] = [reader[x] EXCEPT !.step = "commit", !.token = NewToken]],
         UNCHANGED <<conn, lock, admin, states, callback, poll, records, lostAt, crossed>>
  PROVE  IInv'
<1> DEFINE q == reader[x]
           t == q.tenant
           n == [q EXCEPT !.step = "commit", !.token = NewToken]
<1>1. ConnectTypeOK /\ TokensFit /\ TokensApart
  BY DEF IInv
<1>2. q \in ReadRow /\ t \in Tenant /\ q.realm \in Realm /\ x # Nil
  BY <1>1, ReadFields, ConnectAssumption
<1>3. lock[t] = x /\ conn[t].status = "connected" /\ conn[t].realm = q.realm
  BY DEF IInv, LockHeld, Refreshing
<1>4. /\ tokens' \in Seq(Realm) /\ Len(tokens') = Len(tokens) + 1 /\ Len(tokens') <= MaxTokens
      /\ NewToken = Len(tokens) + 1 /\ tokens'[NewToken] = q.realm
      /\ Len(tokens) \in Nat /\ \A i \in 1..Len(tokens) : tokens'[i] = tokens[i]
      /\ valid \cup {NewToken} \subseteq 1..Len(tokens')
  BY <1>1, <1>2, IssueAppends
<1>5. NewToken \in 0..MaxTokens
  BY <1>4, ConnectAssumption
<1>6. n \in ReadRow /\ n # Nil /\ n.step = "commit" /\ n.token = NewToken /\ n.tenant = t /\ n.realm = q.realm
  BY <1>2, <1>5, ConnectAssumption DEF ReadRow
<1> HIDE DEF n
<1>7. reader'[x] = n /\ \A y \in Reader \ {x} : reader'[y] = reader[y]
  BY <1>1 DEF ConnectTypeOK, n
<1>8. ConnectTypeOK'
  <2>1. reader' \in [Reader -> ReadRow \cup {Nil}]
    BY <1>1, <1>6 DEF ConnectTypeOK, n
  <2> QED BY <1>1, <1>4, <2>1 DEF ConnectTypeOK
<1>9. /\ \A s \in Tenant : conn[s].token \in Nat /\ (conn[s].token # 0 => conn[s].token <= Len(tokens))
      /\ \A b \in Browser : callback[b] # Nil => callback[b].token \in Nat
                             /\ (callback[b].token # 0 => callback[b].token <= Len(tokens))
      /\ \A y \in Reader : Committing(y) => reader[y].token \in 1..Len(tokens)
  BY <1>1, ConnectionFields, CallbackFields DEF TokensFit
<1>10. /\ \A y \in Reader \ {x} : Committing(y)' <=> Committing(y)
       /\ Committing(x)' /\ \A b \in Browser : Carries(b)' <=> Carries(b)
  BY <1>6, <1>7 DEF Committing, Carries
<1>11. TokensFit'
  BY <1>4, <1>6, <1>7, <1>9, <1>10 DEF IInv, TokensFit
<1>12. TokensApart'
  <2>1. /\ \A y \in Reader \ {x} : Committing(y) => reader[y].token # NewToken
        /\ \A s \in Tenant : conn[s].token # NewToken
        /\ \A b \in Browser : Carries(b) => callback[b].token # NewToken
    BY <1>4, <1>9 DEF Carries
  <2> QED BY <1>6, <1>7, <1>10, <2>1 DEF IInv, TokensApart
<1>13. LockHeld'
  <2> SUFFICES ASSUME NEW y \in Reader, Refreshing(y)'
               PROVE  /\ lock[reader'[y].tenant] = y
                      /\ conn[reader'[y].tenant].status = "connected"
                      /\ conn[reader'[y].tenant].realm = reader'[y].realm
    BY DEF LockHeld
  <2>1. CASE y = x
    BY <1>3, <1>6, <1>7, <2>1
  <2>2. CASE y # x
    BY <1>7, <2>2 DEF IInv, LockHeld, Refreshing
  <2> QED BY <2>1, <2>2
<1>14. TokenInHand'
  <2>1. NewToken \in valid'
    OBVIOUS
  <2>2. ASSUME NEW s \in Tenant \ {t}, conn[s].status = "connected", conn[s].token \in valid
        PROVE  conn[s].token \in valid'
    <3>1. conn[s].token # 0
      BY <1>1, <2>2 DEF ConnectTypeOK
    <3> QED BY <1>1, <1>2, <2>2, <3>1 DEF TokensApart
  <2>3. ASSUME NEW y \in Reader, Committing(y), reader[y].token \in valid PROVE reader[y].token \in valid'
    BY <1>1, <1>2, <2>3 DEF TokensApart
  <2>4. ~Committing(x)
    BY DEF Committing
  <2>5. ASSUME NEW s \in Tenant
        PROVE  /\ conn[s].status = "connected" =>
                    \/ conn[s].token \in valid' \/ s \in lostAt
                    \/ \E y \in Reader : lock[s] = y /\ Committing(y)' /\ reader'[y].tenant = s
               /\ conn[s].status = "needs_reconnect" => s \in lostAt
               /\ conn[s].other => s \in lostAt
    <3>1. CASE s = t
      BY <1>3, <1>6, <1>7, <1>10, <3>1 DEF IInv, TokenInHand
    <3>2. CASE s # t
      BY <1>7, <1>10, <2>2, <2>4, <3>2 DEF IInv, TokenInHand
    <3> QED BY <3>1, <3>2
  <2>6. ASSUME NEW y \in Reader, Committing(y)'
        PROVE  reader'[y].token \in valid' \/ reader'[y].tenant \in lostAt
    BY <1>6, <1>7, <1>10, <2>1, <2>3, <2>6 DEF IInv, TokenInHand
  <2> QED BY <2>5, <2>6 DEF TokenInHand
<1>15. OneCompany'
  BY <1>6, <1>7 DEF IInv, OneCompany
<1> QED BY <1>8, <1>11, <1>12, <1>13, <1>14, <1>15 DEF IInv

\* What Intuit did: nothing, or the stored token was replaced and that is known.
Replaced(t) ==
  /\ tokens' \in Seq(Realm) /\ Len(tokens') <= MaxTokens /\ Len(tokens) <= Len(tokens')
  /\ \A i \in 1..Len(tokens) : tokens'[i] = tokens[i]
  /\ valid' \subseteq 1..Len(tokens') /\ valid \ {conn[t].token} \subseteq valid'
  /\ lostAt \subseteq lostAt' /\ lostAt' \subseteq Tenant
  /\ conn[t].token \in valid => conn[t].token \in valid' \/ t \in lostAt'

\* A refresh that ends without a token: the lock is released, and a refusal says
\* that the stored token is not accepted any more, which only a withdrawal or a lost
\* answer did.
LEMMA NotRefreshedKeeps ==
  ASSUME IInv, NEW x \in Reader, reader[x] # Nil, reader[x].step = "refresh",
         NEW t \in Tenant, t = reader[x].tenant, Replaced(t),
         \/ conn' = conn
         \/ conn' = [conn EXCEPT ![t] = NeedsReconnect(@)] /\ (conn[t].token \in valid => t \in lostAt'),
         reader' = [reader EXCEPT ![x] = Nil], lock' = [lock EXCEPT ![t] = Nil],
         UNCHANGED <<admin, states, callback, poll, records, crossed>>
  PROVE  IInv'
<1>1. ConnectTypeOK /\ TokensFit /\ TokensApart
  BY DEF IInv
<1>2. lock[t] = x /\ conn[t].status = "connected" /\ x # Nil /\ ~Committing(x)
  BY ConnectAssumption DEF IInv, LockHeld, Refreshing, Committing
<1>3. reader'[x] = Nil /\ \A y \in Reader \ {x} : reader'[y] = reader[y]
  BY <1>1 DEF ConnectTypeOK
<1>4. lock'[t] = Nil /\ \A s \in Tenant \ {t} : lock'[s] = lock[s]
  BY <1>1 DEF ConnectTypeOK
<1>5. \A y \in Reader : Committing(y)' => y # x /\ Committing(y) /\ reader'[y] = reader[y]
  BY <1>3 DEF Committing
<1>6. ASSUME NEW y \in Reader, Refreshing(y)'
      PROVE  /\ y # x /\ Refreshing(y) /\ reader'[y] = reader[y]
             /\ reader[y].tenant \in Tenant \ {t}
  <2>1. y # x /\ Refreshing(y) /\ reader'[y] = reader[y] /\ reader[y].tenant \in Tenant
    BY <1>1, <1>3, <1>6, ReadFields DEF Refreshing
  <2>2. lock[reader[y].tenant] = y
    BY <2>1 DEF IInv, LockHeld
  <2> QED BY <1>2, <2>1, <2>2
<1>7. /\ conn' \in [Tenant -> ConnectionRow]
      /\ \A s \in Tenant \ {t} : conn'[s] = conn[s]
      /\ conn'[t].realm = conn[t].realm /\ conn'[t].token \in {conn[t].token, 0}
      /\ conn'[t].status = "connected" => conn'[t] = conn[t]
      /\ conn'[t].other = conn[t].other
      /\ conn'[t].status = "needs_reconnect" => (conn[t].token \in valid => t \in lostAt')
  <2>1. CASE conn' = conn
    BY <1>1, <1>2, <2>1 DEF ConnectTypeOK
  <2>2. CASE conn' = [conn EXCEPT ![t] = NeedsReconnect(@)] /\ (conn[t].token \in valid => t \in lostAt')
    <3> DEFINE r == NeedsReconnect(conn[t])
    <3>1. conn[t] \in ConnectionRow /\ 0 \in 0..MaxTokens
      BY <1>1, ConnectionFields, ConnectAssumption
    <3>2. /\ r \in ConnectionRow /\ r.status = "needs_reconnect" /\ r.realm = conn[t].realm /\ r.token = 0
          /\ r.other = conn[t].other
      BY <3>1 DEF NeedsReconnect, ConnectionRow
    <3>3. conn' = [conn EXCEPT ![t] = r]
      BY <1>1, <2>2 DEF ConnectTypeOK
    <3> HIDE DEF r
    <3>4. /\ conn' \in [Tenant -> ConnectionRow]
          /\ conn'[t] = r /\ \A s \in Tenant \ {t} : conn'[s] = conn[s]
      BY <1>1, <3>2, <3>3, RowWritten
    <3> QED BY <2>2, <3>2, <3>4
  <2> QED BY <2>1, <2>2
<1>8. ConnectTypeOK'
  <2>1. lock' \in [Tenant -> Reader \cup {Nil}] /\ reader' \in [Reader -> ReadRow \cup {Nil}]
    BY <1>1 DEF ConnectTypeOK
  <2> QED BY <1>1, <1>7, <2>1 DEF ConnectTypeOK, Replaced
<1>9. TokensFit'
  <2>1. Len(tokens) \in Nat /\ Len(tokens') \in Nat
    BY <1>1, LenProperties DEF ConnectTypeOK, Replaced
  <2>2. /\ \A s \in Tenant : conn[s].token \in Nat
        /\ \A b \in Browser : callback[b] # Nil => callback[b].token \in Nat
    BY <1>1, ConnectionFields, CallbackFields
  <2>3. \A s \in Tenant : /\ conn'[s].token \in {conn[s].token, 0} /\ conn'[s].realm = conn[s].realm
                          /\ conn'[s].status = "connected" => conn[s].status = "connected"
    BY <1>2, <1>7
  <2>4. \A s \in Tenant : /\ conn'[s].status = "connected" => conn'[s].realm # Nil
                          /\ conn'[s].token # 0 => conn'[s].token <= Len(tokens')
                                                 /\ tokens'[conn'[s].token] = conn'[s].realm
    BY <1>1, <2>1, <2>2, <2>3 DEF TokensFit, Replaced
  <2>5. \A b \in Browser : callback[b] # Nil /\ callback[b].token # 0 =>
            callback[b].token <= Len(tokens') /\ tokens'[callback[b].token] = callback[b].realm
    BY <1>1, <2>1, <2>2 DEF TokensFit, Replaced
  <2>6. \A y \in Reader : Committing(y)' => /\ reader'[y].token \in 1..Len(tokens')
                                            /\ tokens'[reader'[y].token] = reader'[y].realm
    BY <1>1, <1>5, <2>1 DEF TokensFit, Replaced
  <2> QED BY <1>1, <2>4, <2>5, <2>6 DEF TokensFit
<1>10. TokensApart'
  <2>1. \A b \in Browser : Carries(b)' <=> Carries(b)
    BY DEF Carries
  <2>2. \A s \in Tenant : conn'[s].token \in {conn[s].token, 0}
    BY <1>7
  <2>3. /\ \A b \in Browser, s \in Tenant : Carries(b) => callback[b].token # conn'[s].token
        /\ \A y \in Reader, s \in Tenant : Committing(y) => reader[y].token # conn'[s].token
    BY <1>1, <2>2 DEF TokensApart, TokensFit, Carries
  <2>4. \A r, s \in Tenant : conn'[r].token # 0 /\ conn'[r].token = conn'[s].token => r = s
    BY <1>1, <2>2 DEF TokensApart
  <2> QED BY <1>1, <1>5, <2>1, <2>3, <2>4 DEF TokensApart
<1>11. LockHeld'
  BY <1>4, <1>6, <1>7 DEF IInv, LockHeld
<1>12. TokenInHand'
  <2>1. ASSUME NEW y \in Reader, Committing(y) PROVE y # x /\ Committing(y)' /\ reader'[y] = reader[y]
    BY <1>2, <1>3, <2>1 DEF Committing
  <2>2. conn[t].token \in valid \/ t \in lostAt
    BY <1>2 DEF IInv, TokenInHand
  <2>3. ASSUME NEW s \in Tenant \ {t}, conn[s].status = "connected", conn[s].token \in valid
        PROVE  conn[s].token \in valid'
    <3>1. conn[s].token # 0
      BY <1>1, <2>3 DEF ConnectTypeOK
    <3> QED BY <1>1, <2>3, <3>1 DEF TokensApart, Replaced
  <2>4. ASSUME NEW y \in Reader, Committing(y), reader[y].token \in valid PROVE reader[y].token \in valid'
    BY <1>1, <2>4 DEF TokensApart, Replaced
  <2>5. ASSUME NEW s \in Tenant
        PROVE  /\ conn'[s].status = "connected" =>
                    \/ conn'[s].token \in valid' \/ s \in lostAt'
                    \/ \E y \in Reader : lock'[s] = y /\ Committing(y)' /\ reader'[y].tenant = s
               /\ conn'[s].status = "needs_reconnect" => s \in lostAt'
               /\ conn'[s].other => s \in lostAt'
    <3>1. CASE s = t
      <4>1. conn'[t].other => t \in lostAt'
        BY <1>7 DEF IInv, TokenInHand, Replaced
      <4> QED BY <1>7, <2>2, <3>1, <4>1 DEF Replaced
    <3>2. CASE s # t
      BY <1>4, <1>7, <2>1, <2>3, <3>2 DEF IInv, TokenInHand, Replaced
    <3> QED BY <3>1, <3>2
  <2> QED BY <1>5, <2>4, <2>5 DEF IInv, TokenInHand, Replaced
<1>13. OneCompany'
  BY <1>3, <1>7, ReadFields DEF IInv, OneCompany
<1> QED BY <1>8, <1>9, <1>10, <1>11, <1>12, <1>13 DEF IInv

LEMMA AskIntuitKeeps == ASSUME IInv, NEW x \in Reader, AskIntuit(x) PROVE IInv'
<1> DEFINE q == reader[x]
           t == q.tenant
           replaced == Issue(q.realm) /\ valid' = (valid \ {conn[t].token}) \cup {NewToken}
           ended == reader' = [reader EXCEPT ![x] = Nil] /\ lock' = [lock EXCEPT ![t] = Nil]
<1>1. ConnectTypeOK /\ q # Nil /\ q.step = "refresh" /\ t \in Tenant /\ q.realm \in Realm
  BY ReadFields DEF IInv, AskIntuit
<1>2. /\ \/ /\ replaced /\ UNCHANGED <<conn, lock, lostAt>>
            /\ reader' = [reader EXCEPT ![x] = [q EXCEPT !.step = "commit", !.token = NewToken]]
         \/ /\ ended /\ (UNCHANGED <<tokens, valid, lostAt>> \/ (replaced /\ lostAt' = lostAt \cup {t}))
            /\ \/ conn' = conn
               \/ /\ conn' = [conn EXCEPT ![t] = NeedsReconnect(@)]
                  /\ conn[t].token \in valid => t \in lostAt'
      /\ UNCHANGED <<admin, states, callback, poll, records, crossed>>
  BY DEF AskIntuit, TokenAnswers, intuit
<1>3. ASSUME UNCHANGED <<tokens, valid, lostAt>> PROVE Replaced(t)
  BY <1>1, <1>3 DEF ConnectTypeOK, Replaced
<1>4. ASSUME replaced, lostAt' = lostAt \cup {t} PROVE Replaced(t)
  BY <1>1, <1>4, IssueAppends DEF ConnectTypeOK, Replaced
<1>5. CASE /\ replaced /\ UNCHANGED <<conn, lock, lostAt>>
           /\ reader' = [reader EXCEPT ![x] = [q EXCEPT !.step = "commit", !.token = NewToken]]
  BY <1>1, <1>2, <1>5, RefreshedKeeps
<1>6. CASE /\ ended /\ Replaced(t)
           /\ \/ conn' = conn
              \/ /\ conn' = [conn EXCEPT ![t] = NeedsReconnect(@)]
                 /\ conn[t].token \in valid => t \in lostAt'
  BY <1>1, <1>2, <1>6, NotRefreshedKeeps
<1> QED BY <1>2, <1>3, <1>4, <1>5, <1>6

\* The new token is committed with the access token, and the lock released.
LEMMA StoreRefreshedKeeps == ASSUME IInv, NEW x \in Reader, StoreRefreshed(x) PROVE IInv'
<1> DEFINE q == reader[x]
           t == q.tenant
           n == [q EXCEPT !.step = "get"]
           r == [conn[t] EXCEPT !.token = q.token, !.fresh = TRUE]
<1>1. ConnectTypeOK /\ TokensFit /\ TokensApart
  BY DEF IInv
<1>2. /\ q # Nil /\ q.step = "commit" /\ Committing(x) /\ Refreshing(x)
      /\ UNCHANGED <<admin, states, callback, tokens, valid, poll, records, lostAt, crossed>>
  BY DEF StoreRefreshed, Committing, Refreshing, intuit
<1>3. /\ q \in ReadRow /\ t \in Tenant /\ q.realm \in Realm /\ q.token \in 0..MaxTokens
      /\ x # Nil /\ Nil \notin ReadRow
  BY <1>1, <1>2, ReadFields, ConnectAssumption
<1>4. lock[t] = x /\ conn[t].status = "connected" /\ conn[t].realm = q.realm
  BY <1>2 DEF IInv, LockHeld
<1>5. /\ q.token \in 1..Len(tokens) /\ tokens[q.token] = q.realm /\ Len(tokens) \in Nat
      /\ q.token \in valid \/ t \in lostAt
  BY <1>1, <1>2, LenProperties DEF IInv, ConnectTypeOK, TokensFit, TokenInHand
<1>6. n \in ReadRow /\ n # Nil /\ n.step = "get" /\ n.tenant = t /\ n.realm = q.realm
  BY <1>3 DEF ReadRow
<1>7. conn[t] \in ConnectionRow
  BY <1>1, <1>3, ConnectionFields
<1>8. /\ r \in ConnectionRow /\ r.status = "connected" /\ r.realm = conn[t].realm /\ r.token = q.token
      /\ r.other = conn[t].other
  BY <1>3, <1>4, <1>7 DEF ConnectionRow
<1>9. /\ conn' = [conn EXCEPT ![t] = r] /\ reader' = [reader EXCEPT ![x] = n]
      /\ lock' = [lock EXCEPT ![t] = Nil]
  BY <1>1 DEF StoreRefreshed, ConnectTypeOK
<1> HIDE DEF n, r
<1>10. /\ conn' \in [Tenant -> ConnectionRow]
       /\ conn'[t] = r /\ \A s \in Tenant \ {t} : conn'[s] = conn[s]
  BY <1>1, <1>3, <1>8, <1>9, RowWritten
<1>11. reader'[x] = n /\ \A y \in Reader \ {x} : reader'[y] = reader[y]
  BY <1>1, <1>9 DEF ConnectTypeOK
<1>12. lock'[t] = Nil /\ \A s \in Tenant \ {t} : lock'[s] = lock[s]
  BY <1>1, <1>3, <1>9 DEF ConnectTypeOK
<1>13. ConnectTypeOK'
  BY <1>1, <1>2, <1>6, <1>9, <1>10 DEF ConnectTypeOK
<1>14. \A y \in Reader : Committing(y)' => y # x /\ Committing(y) /\ reader'[y] = reader[y]
  BY <1>6, <1>11 DEF Committing
<1>15. TokensFit'
  BY <1>2, <1>3, <1>4, <1>5, <1>8, <1>10, <1>14 DEF IInv, TokensFit
<1>16. TokensApart'
  <2>1. \A b \in Browser : Carries(b)' <=> Carries(b)
    BY <1>2 DEF Carries
  <2>2. /\ \A s \in Tenant : conn[s].token # q.token
        /\ \A y \in Reader \ {x} : Committing(y) => reader[y].token # q.token
        /\ \A b \in Browser : Carries(b) => callback[b].token # q.token
    BY <1>1, <1>2 DEF TokensApart
  <2>3. \A s \in Tenant : conn'[s].token = IF s = t THEN q.token ELSE conn[s].token
    BY <1>8, <1>10
  <2>4. /\ \A y \in Reader, s \in Tenant : Committing(y)' => reader'[y].token # conn'[s].token
        /\ \A b \in Browser, s \in Tenant : Carries(b)' => callback'[b].token # conn'[s].token
    BY <1>1, <1>2, <1>14, <2>1, <2>2, <2>3 DEF TokensApart
  <2>5. \A s, u \in Tenant : conn'[s].token # 0 /\ conn'[s].token = conn'[u].token => s = u
    BY <1>1, <2>2, <2>3 DEF TokensApart
  <2> QED BY <1>1, <1>2, <1>14, <2>1, <2>4, <2>5 DEF TokensApart
<1>17. LockHeld'
  <2>1. ASSUME NEW y \in Reader, Refreshing(y)'
        PROVE  /\ y # x /\ Refreshing(y) /\ reader'[y] = reader[y]
               /\ reader[y].tenant \in Tenant \ {t}
    <3>1. y # x /\ Refreshing(y) /\ reader'[y] = reader[y] /\ reader[y].tenant \in Tenant
      BY <1>1, <1>6, <1>11, <2>1, ReadFields DEF Refreshing
    <3>2. lock[reader[y].tenant] = y
      BY <3>1 DEF IInv, LockHeld
    <3> QED BY <1>4, <3>1, <3>2
  <2> QED BY <1>10, <1>12, <2>1 DEF IInv, LockHeld
<1>18. TokenInHand'
  <2>1. ASSUME NEW s \in Tenant
        PROVE  /\ conn'[s].status = "connected" =>
                    \/ conn'[s].token \in valid \/ s \in lostAt
                    \/ \E y \in Reader : lock'[s] = y /\ Committing(y)' /\ reader'[y].tenant = s
               /\ conn'[s].status = "needs_reconnect" => s \in lostAt
               /\ conn'[s].other => s \in lostAt
    <3>1. CASE s = t
      BY <1>5, <1>8, <1>10, <3>1 DEF IInv, TokenInHand
    <3>2. CASE s # t
      <4>1. conn'[s] = conn[s] /\ lock'[s] = lock[s]
        BY <1>10, <1>12, <3>2
      <4>2. ASSUME NEW y \in Reader, Committing(y), reader[y].tenant = s
            PROVE  Committing(y)' /\ reader'[y].tenant = s
        BY <1>11, <3>2, <4>2 DEF Committing
      <4> QED BY <4>1, <4>2 DEF IInv, TokenInHand
    <3> QED BY <3>1, <3>2
  <2> QED BY <1>2, <1>14, <2>1 DEF IInv, TokenInHand
<1>19. OneCompany'
  <2>1. \A s \in Tenant : conn'[s].realm = conn[s].realm
    BY <1>8, <1>10
  <2> QED BY <1>1, <1>2, <1>3, <1>6, <1>11, <2>1, ReadFields DEF IInv, OneCompany
<1> QED BY <1>13, <1>15, <1>16, <1>17, <1>18, <1>19 DEF IInv

LEMMA CrashReaderKeeps == ASSUME IInv, NEW x \in Reader, CrashReader(x) PROVE IInv'
<1> DEFINE q == reader[x]
<1>1. ConnectTypeOK /\ q # Nil /\ Nil # x
  BY ConnectAssumption DEF IInv, CrashReader
<1>2. q.tenant \in Tenant
  BY <1>1, ReadFields
<1>3. /\ UNCHANGED <<conn, admin, states, callback, tokens, valid, poll, records, crossed>>
      /\ lostAt' = IF q.step = "commit" THEN lostAt \cup {q.tenant} ELSE lostAt
      /\ lock' = [t \in Tenant |-> IF lock[t] = x THEN Nil ELSE lock[t]]
      /\ reader' = [reader EXCEPT ![x] = Nil]
  BY DEF CrashReader, intuit
<1>4. reader'[x] = Nil /\ \A y \in Reader \ {x} : reader'[y] = reader[y]
  BY <1>1, <1>3 DEF ConnectTypeOK
<1>5. \A t \in Tenant : lock'[t] = IF lock[t] = x THEN Nil ELSE lock[t]
  BY <1>3
<1>6. ConnectTypeOK'
  BY <1>1, <1>2, <1>3 DEF ConnectTypeOK
<1>7. \A y \in Reader : Committing(y)' => y # x /\ Committing(y) /\ reader'[y] = reader[y]
  BY <1>4 DEF Committing
<1>8. TokensFit'
  BY <1>3, <1>7 DEF IInv, TokensFit
<1>9. TokensApart'
  BY <1>3, <1>7 DEF IInv, TokensApart, Carries
<1>10. LockHeld'
  BY <1>1, <1>3, <1>4, <1>5, ReadFields DEF IInv, LockHeld, Refreshing
<1>11. TokenInHand'
  <2>1. ASSUME NEW t \in Tenant, NEW y \in Reader, lock[t] = y, Committing(y), reader[y].tenant = t
        PROVE  t \in lostAt' \/ (lock'[t] = y /\ Committing(y)' /\ reader'[y].tenant = t)
    <3>1. CASE y = x
      BY <1>3, <2>1, <3>1 DEF Committing
    <3>2. CASE y # x
      BY <1>4, <1>5, <2>1, <3>2 DEF Committing
    <3> QED BY <3>1, <3>2
  <2>2. lostAt \subseteq lostAt'
    BY <1>3
  <2> QED BY <1>3, <1>7, <2>1, <2>2 DEF IInv, TokenInHand
<1>12. OneCompany'
  BY <1>3, <1>4 DEF IInv, OneCompany
<1> QED BY <1>6, <1>8, <1>9, <1>10, <1>11, <1>12 DEF IInv

-----------------------------------------------------------------------------
(* Intuit, and the theorem.                                                  *)

LEMMA RevokeAtIntuitKeeps == ASSUME IInv, NEW r \in Realm, RevokeAtIntuit(r) PROVE IInv'
<1>1. ConnectTypeOK /\ TokensFit
  BY DEF IInv
<1>2. /\ UNCHANGED <<conn, lock, admin, states, callback, tokens, reader, poll, records, crossed>>
      /\ valid' = {i \in valid : tokens[i] # r}
      /\ lostAt' = lostAt \cup {t \in Tenant : conn[t].realm = r}
  BY DEF RevokeAtIntuit
<1>3. ConnectTypeOK'
  BY <1>1, <1>2 DEF ConnectTypeOK
<1>4. TokensFit' /\ TokensApart'
  BY <1>2 DEF IInv, TokensFit, TokensApart, Committing, Carries
<1>5. LockHeld' /\ OneCompany'
  BY <1>2 DEF IInv, LockHeld, OneCompany, Refreshing
<1>6. TokenInHand'
  <2>1. ASSUME NEW t \in Tenant, conn[t].token \in valid
        PROVE  conn[t].token \in valid' \/ t \in lostAt'
    <3>1. conn[t].token # 0
      BY <1>1, <2>1 DEF ConnectTypeOK
    <3>2. tokens[conn[t].token] = conn[t].realm
      BY <1>1, <3>1 DEF TokensFit
    <3> QED BY <1>2, <2>1, <3>2
  <2>2. ASSUME NEW x \in Reader, Committing(x), reader[x].token \in valid
        PROVE  reader[x].token \in valid' \/ reader[x].tenant \in lostAt'
    <3>1. tokens[reader[x].token] = reader[x].realm
      BY <1>1, <2>2 DEF TokensFit
    <3>2. reader[x].tenant \in Tenant /\ conn[reader[x].tenant].realm = reader[x].realm
      BY <1>1, <2>2, ReadFields DEF IInv, LockHeld, Refreshing, Committing
    <3> QED BY <1>2, <2>2, <3>1, <3>2
  <2>3. \A x \in Reader : Committing(x)' <=> Committing(x)
    BY <1>2 DEF Committing
  <2> QED BY <1>2, <2>1, <2>2, <2>3 DEF IInv, TokenInHand
<1> QED BY <1>3, <1>4, <1>5, <1>6 DEF IInv

LEMMA StartWithOtherSettingsKeeps == ASSUME IInv, StartWithOtherSettings PROVE IInv'
<1>1. ConnectTypeOK /\ TokensFit /\ TokensApart
  BY DEF IInv
<1>2. /\ \A b \in Browser : callback'[b] = Nil
      /\ \A x \in Reader : reader'[x] = Nil /\ ~Committing(x)' /\ ~Refreshing(x)'
      /\ UNCHANGED <<admin, states, tokens, valid, poll, records, crossed>>
  BY DEF StartWithOtherSettings, Committing, Refreshing, intuit
<1>3. ASSUME NEW t \in Tenant
      PROVE  /\ conn'[t] \in ConnectionRow
             /\ conn'[t].status = conn[t].status /\ conn'[t].realm = conn[t].realm
             /\ conn'[t].token \in {conn[t].token, 0}
  <2>1. conn[t] \in ConnectionRow /\ 0 \in 0..MaxTokens
    BY <1>1, ConnectionFields, ConnectAssumption
  <2>2. CASE conn'[t] = OtherKeys(conn[t])
    BY <2>1, <2>2 DEF OtherKeys, ConnectionRow
  <2>3. CASE conn'[t] = OtherRing(conn[t])
    BY <2>1, <2>3 DEF OtherRing, ConnectionRow
  <2> QED BY <2>2, <2>3 DEF StartWithOtherSettings
<1>4. /\ lostAt \subseteq lostAt' /\ lostAt' \subseteq Tenant
      /\ \A t \in Tenant : conn'[t].other \/ conn'[t].token # conn[t].token => t \in lostAt'
      /\ \A x \in Reader : Committing(x) => reader[x].tenant \in lostAt'
  <2>1. \A x \in Reader : Committing(x) => reader[x].tenant \in Tenant
    BY <1>1, ReadFields DEF Committing
  <2> QED BY <1>1, <2>1 DEF StartWithOtherSettings, Committing, ConnectTypeOK
<1>5. ConnectTypeOK'
  <2>1. conn' \in [Tenant -> ConnectionRow]
    <3>1. CASE conn' = [t \in Tenant |-> OtherKeys(conn[t])]
      BY <1>3, <3>1
    <3>2. CASE conn' = [t \in Tenant |-> OtherRing(conn[t])]
      BY <1>3, <3>2
    <3> QED BY <3>1, <3>2 DEF StartWithOtherSettings
  <2>2. /\ lock' \in [Tenant -> Reader \cup {Nil}] /\ callback' \in [Browser -> CallbackRow \cup {Nil}]
        /\ reader' \in [Reader -> ReadRow \cup {Nil}]
    BY DEF StartWithOtherSettings
  <2> QED BY <1>1, <1>2, <1>4, <2>1, <2>2 DEF ConnectTypeOK
<1>6. TokensFit'
  BY <1>1, <1>2, <1>3 DEF TokensFit
<1>7. TokensApart'
  BY <1>1, <1>2, <1>3 DEF TokensApart, Carries
<1>8. LockHeld'
  BY <1>2 DEF LockHeld
<1>9. TokenInHand'
  <2>1. ASSUME NEW t \in Tenant, conn[t].status = "connected"
        PROVE  conn'[t].token \in valid \/ t \in lostAt'
    BY <1>4, <2>1 DEF IInv, TokenInHand
  <2>2. ASSUME NEW t \in Tenant
        PROVE  /\ conn'[t].other => t \in lostAt'
               /\ conn'[t].status = "needs_reconnect" => t \in lostAt'
    BY <1>3, <1>4 DEF IInv, TokenInHand
  <2> QED BY <1>2, <1>3, <2>1, <2>2 DEF TokenInHand
<1>10. OneCompany'
  BY <1>2, <1>3 DEF IInv, OneCompany
<1> QED BY <1>5, <1>6, <1>7, <1>8, <1>9, <1>10 DEF IInv

LEMMA IInvInitially == ConnectInit => IInv
<1> SUFFICES ASSUME ConnectInit PROVE IInv
  OBVIOUS
<1> USE ConnectAssumption
<1>1. conn \in [Tenant -> ConnectionRow]
  BY DEF ConnectInit, ConnectionRow
<1>2. tokens \in Seq(Realm) /\ Len(tokens) = 0
  BY EmptySeq DEF ConnectInit
<1>3. ConnectTypeOK
  <2>1. /\ lock \in [Tenant -> Reader \cup {Nil}] /\ callback \in [Browser -> CallbackRow \cup {Nil}]
        /\ reader \in [Reader -> ReadRow \cup {Nil}] /\ records \in [Tenant -> SUBSET Realm]
    BY DEF ConnectInit
  <2>2. states \in 0..MaxStates /\ Len(tokens) <= MaxTokens
    BY <1>2 DEF ConnectInit
  <2>3. /\ admin \subseteq User /\ valid \subseteq 1..Len(tokens) /\ poll \subseteq Tenant
        /\ lostAt \subseteq Tenant /\ crossed \subseteq Tenant
    BY DEF ConnectInit
  <2> QED BY <1>1, <1>2, <2>1, <2>2, <2>3 DEF ConnectTypeOK
<1>4. TokensFit
  BY DEF ConnectInit, TokensFit, Committing
<1>5. TokensApart
  BY DEF ConnectInit, TokensApart, Committing, Carries
<1>6. LockHeld /\ OneCompany
  BY DEF ConnectInit, LockHeld, Refreshing, OneCompany
<1>7. TokenInHand
  BY DEF ConnectInit, TokenInHand, Committing
<1> QED BY <1>3, <1>4, <1>5, <1>6, <1>7 DEF IInv

LEMMA IInvKept == IInv /\ [ConnectNext]_conVars => IInv'
<1> SUFFICES ASSUME IInv, [ConnectNext]_conVars PROVE IInv'
  OBVIOUS
<1>1. CASE \E t \in Tenant, u \in User : StartConnect(t, u)
  BY <1>1, StartConnectKeeps
<1>2. CASE \E t \in Tenant : ExpireState(t) \/ Disconnect(t) \/ ExpireAccess(t) \/ Dispatch(t)
  BY <1>2, ExpireStateKeeps, DisconnectKeeps, ExpireAccessKeeps, QuietKeeps
<1>3. CASE \E b \in Browser, t \in Tenant, r \in Realm : ClaimState(b, t, r)
  BY <1>3, ClaimStateKeeps
<1>4. CASE \E b \in Browser : \/ CheckCallback(b) \/ Exchange(b) \/ VerifyCompany(b)
                              \/ StoreConnection(b) \/ DropCallback(b)
  BY <1>4, CheckCallbackKeeps, ExchangeKeeps, VerifyCompanyKeeps, StoreConnectionKeeps, DropCallbackKeeps
<1>5. CASE \E u \in User : LoseRole(u)
  BY <1>5, QuietKeeps
<1>6. CASE \E x \in Reader : ReadStep(x) \/ CrashReader(x)
  BY <1>6, AccessForKeeps, AskIntuitKeeps, StoreRefreshedKeeps, GetKeeps, StoreRowsKeeps,
     CrashReaderKeeps DEF ReadStep
<1>7. CASE \E r \in Realm : RevokeAtIntuit(r)
  BY <1>7, RevokeAtIntuitKeeps
<1>8. CASE StartWithOtherSettings
  BY <1>8, StartWithOtherSettingsKeeps
<1>9. CASE UNCHANGED conVars
  BY <1>9, QuietKeeps
<1> QED BY <1>1, <1>2, <1>3, <1>4, <1>5, <1>6, <1>7, <1>8, <1>9 DEF ConnectNext

LEMMA IInvGivesAgreement == IInv => ConnectionsAgree
<1> SUFFICES ASSUME IInv PROVE ConnectionsAgree
  OBVIOUS
<1>1. TokenKept
  <2>1. ASSUME NEW t \in Tenant, NEW x \in Reader, lock[t] = x, Committing(x), reader[x].tenant = t
        PROVE  t \in lostAt \/ (reader[x].step = "commit" /\ reader[x].token \in valid)
    BY <2>1 DEF IInv, TokenInHand, Committing
  <2> QED BY <2>1 DEF IInv, TokenInHand, TokenKept
<1>2. OneCompanyHeld
  <2> SUFFICES ASSUME NEW t \in Tenant \ crossed
               PROVE  /\ Cardinality(records[t]) <= 1
                      /\ records[t] # {} => records[t] = {conn[t].realm}
    BY DEF OneCompanyHeld
  <2>1. records[t] = {} \/ records[t] = {conn[t].realm}
    BY DEF IInv, OneCompany
  <2>2. Cardinality(records[t]) \in {0, 1}
    BY <2>1, FS_EmptySet, FS_Singleton
  <2> QED BY <2>1, <2>2
<1> QED BY <1>1, <1>2 DEF IInv, ConnectionsAgree

\* In every interleaving of connects, callbacks, disconnects, reads, refreshes, lost
\* answers, crashes, withdrawals and restarts with other settings (connect.py, client.py
\* _send, tokens.py, reader.py): the refresh token of a connected company is one Intuit
\* accepts, and no reconnect is asked for, unless Intuit withdrew the token, its
\* successor was lost in an answer or in a crash, or the settings cannot use it; and a
\* tenant holds the records of one company unless its company changed under a read
\* or a callback.
THEOREM ConnectionsKeepAgreeing == ConnectSpec => []ConnectionsAgree
<1>1. ConnectSpec => []IInv
  BY IInvInitially, IInvKept, PTL DEF ConnectSpec
<1> QED BY <1>1, IInvGivesAgreement, PTL

-----------------------------------------------------------------------------
(* The chain of change polls. *)

LEMMA Scaled ==
  ASSUME NEW k \in Nat, NEW a \in Int, NEW b \in Int, a < b
  PROVE  k * a + k <= k * b
<1>1. k * (b - a - 1) >= 0
  BY SMTT(30)
<1>2. k * (b - a - 1) = k * b - k * a - k
  BY SMTT(30)
<1> QED BY <1>1, <1>2

\* A remainder is the one that leaves a multiple.
LEMMA Remainder ==
  ASSUME NEW k \in Nat \ {0}, NEW x \in Nat, NEW a \in Nat, NEW b \in 0..(k - 1), x = k * a + b
  PROVE  x % k = b
<1> DEFINE q == x \div k
           m == x % k
<1>1. q \in Nat /\ m \in 0..(k - 1) /\ x = k * q + m
  OBVIOUS
<1>2. k * q \in Nat /\ k * a \in Nat
  BY <1>1
<1> HIDE DEF q, m
<1>3. ~(q < a)
  <2> SUFFICES ASSUME q < a PROVE FALSE
    OBVIOUS
  <2>1. k * q + k <= k * a
    BY <1>1, Scaled
  <2> QED BY <1>1, <1>2, <2>1
<1>4. ~(a < q)
  <2> SUFFICES ASSUME a < q PROVE FALSE
    OBVIOUS
  <2>1. k * a + k <= k * q
    BY <1>1, Scaled
  <2> QED BY <1>1, <1>2, <2>1
<1>5. a = q
  BY <1>1, <1>3, <1>4
<1> QED BY <1>1, <1>2, <1>5 DEF m

\* The slot after a moment: the grid moves on when the moment reaches it.
LEMMA SlotGrid ==
  ASSUME NEW t \in Nat
  PROVE  /\ next_cdc_slot(t) \in Nat /\ t < next_cdc_slot(t) /\ next_cdc_slot(t) <= t + SlotTicks
         /\ next_cdc_slot(t + 1) = next_cdc_slot(t) \/ next_cdc_slot(t) = t + 1
<1>1. SlotTicks \in Nat \ {0}
  BY BoundsAssumption
<1>2. t % SlotTicks \in 0..(SlotTicks - 1) /\ t % SlotTicks <= t
  BY <1>1
<1>3. CASE t % SlotTicks = SlotTicks - 1
  BY <1>1, <1>2, <1>3 DEF next_cdc_slot
<1>4. CASE t % SlotTicks # SlotTicks - 1
  <2>1. PICK q \in Nat : t = SlotTicks * q + (t % SlotTicks)
    BY <1>1
  <2>2. t + 1 = SlotTicks * q + ((t % SlotTicks) + 1)
    <3>1. SlotTicks * q \in Nat
      BY <1>1
    <3> QED BY <1>1, <1>2, <2>1, <3>1
  <2>3. t + 1 \in Nat /\ (t % SlotTicks) + 1 \in 0..(SlotTicks - 1)
    BY <1>1, <1>2, <1>4
  <2>4. (t + 1) % SlotTicks = (t % SlotTicks) + 1
    BY <1>1, <2>2, <2>3, Remainder, Zenon
  <2> QED BY <1>1, <1>2, <2>4 DEF next_cdc_slot
<1> QED BY <1>3, <1>4

WorkerRow == [pc : {"down", "idle", "claimed", "reading", "fetched", "done"},
              task : Ids \cup {NoTask}, start : 0..MaxClock, stops : BOOLEAN]
RunRow == [outcome : {"none", "open", "succeeded", "failed"}, start : 0..MaxClock,
           done : SUBSET Entities]

\* The types of what is not the queue or the worker.
RestTyped ==
  /\ now \in 0..MaxClock
  /\ connection \in {"disconnected", "connected", "needs_reconnect"}
  /\ hist \in BOOLEAN /\ seeded \in BOOLEAN
  /\ cdc \in 0..MaxClock \cup {NoCursor}
  /\ bf \in [1..MaxRuns -> RunRow]
  /\ faults \in 0..MaxFaults /\ changes \in 0..MaxChanges

\* A worker in a task has one, an idle one has none.
InHand == wk.pc \in {"down", "idle"} <=> wk.task = NoTask

\* An open poll is one whose slot has come or the one of the next slot; only a poll
\* whose slot has come can be taken; the one worker holds every lease.
SlotsOnGrid ==
  \A i \in Ids :
     /\ task[i].status = "running" => task[i].lockedBy = "worker"
     /\ i \in SlotPolls =>
          /\ IsOpen(task[i]) => i[2] <= now \/ i[2] = next_cdc_slot(now)
          /\ task[i].status = "running" \/ (task[i].status = "queued" /\ task[i].due)
               => i[2] <= now

ChainInv == TypeOK /\ InHand /\ SlotsOnGrid

\* A poll that went on past its first transaction has an open successor.
SuccessorOpen ==
  wk.task \in SlotPolls /\ wk.pc \in {"reading", "fetched", "done"} /\ ~wk.stops =>
    \E i \in SlotPolls \ {wk.task} : IsOpen(task[i])

\* Every attempt of an open poll but the one under way ended in a fault.
AttemptsAreFaults ==
  \A i \in SlotPolls : IsOpen(task[i]) =>
    task[i].attempts <= faults + (IF wk.task = i THEN 1 ELSE 0)

KeptInv == ChainInv /\ SuccessorOpen /\ AttemptsAreFaults

LEMMA TypeParts ==
  TypeOK <=> /\ RestTyped /\ task \in [Ids -> Row] /\ wk \in WorkerRow
             /\ wk.task \in Ids => task[wk.task].status = "running"
BY DEF TypeOK, RestTyped, WorkerRow, RunRow

LEMMA TypePartsNext ==
  TypeOK' <=> /\ RestTyped' /\ task' \in [Ids -> Row] /\ wk' \in WorkerRow
              /\ wk'.task \in Ids => task'[wk'.task].status = "running"
BY DEF TypeOK, RestTyped, WorkerRow, RunRow

LEMMA WorkerRows ==
  /\ WorkerDown \in WorkerRow /\ WorkerDown.pc = "down" /\ WorkerDown.task = NoTask
  /\ WorkerIdle \in WorkerRow /\ WorkerIdle.pc = "idle" /\ WorkerIdle.task = NoTask
<1>1. 0 \in 0..MaxClock /\ NoTask \in Ids \cup {NoTask}
  BY BoundsAssumption
<1>2. WorkerDown \in WorkerRow /\ WorkerDown.pc = "down" /\ WorkerDown.task = NoTask
  BY <1>1 DEF WorkerDown, WorkerRow
<1>3. PICK d : d = WorkerDown
  OBVIOUS
<1>4. WorkerIdle = [d EXCEPT !.pc = "idle"]
  BY <1>3 DEF WorkerIdle
<1>5. WorkerIdle \in WorkerRow /\ WorkerIdle.pc = "idle" /\ WorkerIdle.task = NoTask
  BY <1>2, <1>3, <1>4 DEF WorkerRow
<1> QED BY <1>2, <1>5

LEMMA IdsApart ==
  /\ NoTask \notin Ids /\ NowPoll \in Ids /\ SlotPolls \subseteq Ids /\ PageTasks \subseteq Ids
  /\ NowPoll \notin SlotPolls /\ NowPoll \notin PageTasks /\ IsPoll(NowPoll)
  /\ \A i \in SlotPolls : /\ IsPoll(i) /\ i[2] \in 1..(MaxClock + SlotTicks)
                          /\ i = <<"slot", i[2]>> /\ i \notin PageTasks
  /\ \A i \in PageTasks : ~IsPoll(i)
  /\ \A s \in 1..(MaxClock + SlotTicks) : <<"slot", s>> \in SlotPolls
<1>1. \A i \in PageTasks : i[1] = "page"
  BY DEF PageTasks, PagesOf
<1>2. \A i \in SlotPolls : i[1] = "slot" /\ i[2] \in 1..(MaxClock + SlotTicks) /\ i = <<"slot", i[2]>>
  BY DEF SlotPolls
<1>3. NowPoll[1] = "now" /\ NoTask[1] = "none"
  BY DEF NowPoll, NoTask
<1>4. \A s \in 1..(MaxClock + SlotTicks) : <<"slot", s>> \in SlotPolls
  BY DEF SlotPolls
<1> QED BY <1>1, <1>2, <1>3, <1>4 DEF Ids, IsPoll

-----------------------------------------------------------------------------
(* Enqueueing. *)

\* Open rows stay as they are; a new row is untried, a new poll is of the next slot.
Gains(old, new) ==
  /\ new \in [Ids -> Row]
  /\ \A i \in Ids : \/ new[i] = old[i]
                    \/ /\ ~IsOpen(old[i]) /\ new[i].status = "queued" /\ new[i].attempts = 0
                       /\ i \in SlotPolls => i[2] = next_cdc_slot(now) /\ ~new[i].due

LEMMA EnqueueNowGains ==
  ASSUME NEW tbl \in [Ids -> Row], NEW i \in Ids \ SlotPolls
  PROVE  Gains(tbl, enqueue(tbl, i, TRUE)) /\ IsOpen(enqueue(tbl, i, TRUE)[i])
<1>1. QueuedRow(Company, "own", TRUE) \in Row /\ QueuedRow(Company, "own", TRUE).status = "queued"
      /\ QueuedRow(Company, "own", TRUE).attempts = 0
  BY BoundsAssumption DEF QueuedRow, Row, TaskStatus, NoWorker, NoKey
<1> QED BY <1>1 DEF Gains, enqueue, IsOpen

LEMMA EnqueueSlotGains ==
  ASSUME NEW tbl \in [Ids -> Row], NEW i \in SlotPolls, i[2] = next_cdc_slot(now)
  PROVE  Gains(tbl, enqueue(tbl, i, FALSE)) /\ IsOpen(enqueue(tbl, i, FALSE)[i])
<1>1. QueuedRow(Company, "own", FALSE) \in Row /\ QueuedRow(Company, "own", FALSE).status = "queued"
      /\ QueuedRow(Company, "own", FALSE).attempts = 0 /\ ~QueuedRow(Company, "own", FALSE).due
  BY BoundsAssumption DEF QueuedRow, Row, TaskStatus, NoWorker, NoKey
<1>2. i \in Ids
  BY IdsApart
<1> QED BY <1>1, <1>2 DEF Gains, enqueue, IsOpen

LEMMA GainsNothing == ASSUME NEW tbl \in [Ids -> Row] PROVE Gains(tbl, tbl)
BY DEF Gains

LEMMA GainsTwice ==
  ASSUME NEW a, NEW b, NEW c, Gains(a, b), Gains(b, c)
  PROVE  Gains(a, c)
BY DEF Gains, IsOpen

LEMMA NextSlotIsOne ==
  ASSUME RestTyped
  PROVE  <<"slot", next_cdc_slot(now)>> \in SlotPolls
         /\ <<"slot", next_cdc_slot(now)>>[2] = next_cdc_slot(now)
         /\ next_cdc_slot(now) > now
<1>1. now \in 0..MaxClock /\ now \in Nat /\ MaxClock \in Nat /\ SlotTicks \in Nat
  BY BoundsAssumption DEF RestTyped
<1>2. next_cdc_slot(now) \in 1..(MaxClock + SlotTicks) /\ next_cdc_slot(now) > now
  BY <1>1, SlotGrid
<1> QED BY <1>2, IdsApart

LEMMA ScheduledGains ==
  ASSUME RestTyped, NEW tbl \in [Ids -> Row]
  PROVE  Gains(tbl, Scheduled(tbl))
BY NextSlotIsOne, EnqueueSlotGains, GainsNothing DEF Scheduled

LEMMA StartGains ==
  ASSUME task \in [Ids -> Row], StartBackfill
  PROVE  Gains(task, task')
<1>1. CASE task' = task
  BY <1>1, GainsNothing
<1>2. CASE task' # task
  <2>1. task' = [i \in Ids |-> IF i \in {<<"page", NextRun, e, 1>> : e \in Entities}
                               THEN enqueue(task, i, TRUE)[i] ELSE task[i]]
    BY <1>2 DEF StartBackfill
  <2>2. ASSUME NEW i \in Ids
        PROVE  /\ task'[i] \in Row
               /\ task'[i] = task[i]
                  \/ /\ ~IsOpen(task[i]) /\ task'[i].status = "queued" /\ task'[i].attempts = 0
                     /\ i \notin SlotPolls
    <3>1. CASE i \in {<<"page", NextRun, e, 1>> : e \in Entities}
      <4>1. i[1] = "page"
        BY <3>1
      <4>2. i \notin SlotPolls
        BY <4>1, IdsApart DEF IsPoll
      <4>3. Gains(task, enqueue(task, i, TRUE))
        BY <4>2, EnqueueNowGains
      <4>4. task'[i] = enqueue(task, i, TRUE)[i]
        BY <2>1, <3>1
      <4> HIDE DEF enqueue, IsOpen
      <4> QED BY <4>2, <4>3, <4>4 DEF Gains
    <3>2. CASE i \notin {<<"page", NextRun, e, 1>> : e \in Entities}
      BY <2>1, <3>2
    <3> QED BY <3>1, <3>2
  <2> QED BY <2>1, <2>2 DEF Gains
<1> QED BY <1>1, <1>2

-----------------------------------------------------------------------------
(* The kinds of step of the chain. *)

\* Tasks are queued; the worker stays in the task it is in.
LEMMA GainsKeepChain ==
  ASSUME ChainInv, RestTyped', wk' \in WorkerRow, InHand',
         Gains(task, task'), now' = now, wk'.task = wk.task
  PROVE  ChainInv'
<1>1. task' \in [Ids -> Row] /\ task \in [Ids -> Row]
  BY TypeParts DEF ChainInv, Gains
<1>2. wk.task \in Ids => task'[wk.task].status = "running"
  BY TypeParts DEF ChainInv, Gains, IsOpen
<1>3. SlotsOnGrid'
  BY DEF ChainInv, Gains, SlotsOnGrid, IsOpen
<1> QED BY <1>1, <1>2, <1>3, TypePartsNext DEF ChainInv

\* The worker takes a task, after the sweep.
LEMMA ClaimKeepsChain ==
  ASSUME ChainInv, NEW i \in Ids, Claim(i)
  PROVE  /\ ChainInv' /\ wk.task = NoTask /\ wk'.task = i /\ wk'.pc = "claimed"
         /\ \A j \in SlotPolls :
              /\ task'[j].status # "failed" => task'[j].attempts <= task[j].attempts + (IF j = i THEN 1 ELSE 0)
              /\ IsOpen(task[j]) /\ task[j].attempts < MaxAttempts => IsOpen(task'[j])
              /\ IsOpen(task'[j]) => IsOpen(task[j])
<1> DEFINE swept == Swept(task, Company, MaxAttempts)
<1>1. /\ task \in [Ids -> Row] /\ wk \in WorkerRow /\ wk.task = NoTask /\ RestTyped /\ RestTyped'
      /\ \A j \in Ids : task[j].status = "running" => task[j].lockedBy = "worker"
      /\ now' = now /\ MaxAttempts \in Nat \ {0}
  BY TypeParts, BoundsAssumption DEF ChainInv, InHand, Claim, RestTyped, SlotsOnGrid
<1>2. /\ swept \in [Ids -> Row]
      /\ \A j \in Ids : \/ swept[j] = task[j]
                        \/ /\ swept[j].status = "failed" /\ task[j].status = "running"
                           /\ task[j].attempts >= MaxAttempts
  <2>1. ASSUME NEW j \in Ids, task[j] \in Row PROVE Ended(task[j], "failed") \in Row
                                    /\ Ended(task[j], "failed").status = "failed"
    BY <2>1 DEF Ended, Row, TaskStatus
  <2> QED BY <1>1, <2>1 DEF Swept
<1>3. /\ swept[i].attempts \in 0..(MaxAttempts - 1)
      /\ (swept[i].status = "queued" /\ swept[i].due) \/ swept[i].status = "running"
      /\ task' = Claimed(swept, i, "worker")
      /\ wk' = [WorkerIdle EXCEPT !.pc = "claimed", !.task = i]
  <2>1. swept[i] \in Row
    BY <1>2
  <2>2. swept[i].attempts \in 0..MaxAttempts
    BY <2>1 DEF Row
  <2> QED BY <1>1, <1>2, <2>2 DEF Claim, Claimable
<1>4. swept[i] = task[i]
  BY <1>2, <1>3
<1> HIDE DEF swept
<1>5. PICK r : r = Leased(swept[i], "worker")
  OBVIOUS
<1>6. /\ r \in Row /\ r.status = "running" /\ r.lockedBy = "worker"
      /\ r.attempts = swept[i].attempts + 1
  <2>1. PICK q : q = swept[i]
    OBVIOUS
  <2>2. q \in Row /\ q.attempts \in 0..(MaxAttempts - 1)
    BY <1>2, <1>3, <2>1
  <2>3. r = [q EXCEPT !.status = "running", !.attempts = q.attempts + 1, !.lockedBy = "worker",
                      !.expired = FALSE]
    BY <1>5, <2>1 DEF Leased
  <2>4. q.attempts + 1 \in 0..MaxAttempts
    BY <1>1, <2>2
  <2> QED BY <2>1, <2>2, <2>3, <2>4 DEF Row, TaskStatus
<1>7. /\ task' \in [Ids -> Row] /\ task'[i] = r
      /\ \A j \in Ids : j # i => task'[j] = swept[j]
  BY <1>2, <1>3, <1>5, <1>6 DEF Claimed
<1>8. wk' \in WorkerRow /\ wk'.task = i /\ wk'.pc = "claimed"
  BY <1>3, WorkerRows DEF WorkerRow
<1>9. SlotsOnGrid'
  BY <1>1, <1>2, <1>3, <1>4, <1>6, <1>7 DEF ChainInv, SlotsOnGrid, IsOpen
<1>10. ChainInv'
  <2>1. InHand'
    BY <1>8, IdsApart DEF InHand
  <2> QED BY <1>1, <1>6, <1>7, <1>8, <1>9, <2>1, TypePartsNext DEF ChainInv
<1>11. ASSUME NEW j \in SlotPolls
       PROVE  /\ task'[j].status # "failed" => task'[j].attempts <= task[j].attempts + (IF j = i THEN 1 ELSE 0)
              /\ IsOpen(task[j]) /\ task[j].attempts < MaxAttempts => IsOpen(task'[j])
              /\ IsOpen(task'[j]) => IsOpen(task[j])
  <2>1. j \in Ids /\ task[j] \in Row /\ task[j].attempts \in Nat
    BY <1>1, IdsApart DEF Row
  <2>2. CASE j = i
    BY <1>3, <1>4, <1>6, <1>7, <2>1, <2>2 DEF IsOpen
  <2>3. CASE j # i
    BY <1>1, <1>2, <1>7, <2>1, <2>3 DEF IsOpen
  <2> QED BY <2>2, <2>3
<1> QED BY <1>1, <1>8, <1>10, <1>11

\* A pass without a task to take has swept what is out of attempts.
LEMMA SweepKeepsChain ==
  ASSUME ChainInv, RestTyped', Sweep
  PROVE  /\ ChainInv' /\ wk' = wk /\ wk.pc = "idle" /\ wk.task = NoTask /\ faults' = faults
         /\ \A j \in SlotPolls :
              /\ IsOpen(task'[j]) => task'[j] = task[j]
              /\ IsOpen(task[j]) => IsOpen(task'[j]) \/ task[j].attempts >= MaxAttempts
<1>1. /\ task \in [Ids -> Row] /\ wk \in WorkerRow /\ wk.pc = "idle" /\ wk.task = NoTask
      /\ wk' = wk /\ now' = now /\ faults' = faults /\ task' = Swept(task, Company, MaxAttempts)
  BY TypeParts DEF ChainInv, InHand, Sweep
<1>2. /\ task' \in [Ids -> Row]
      /\ \A j \in Ids : \/ task'[j] = task[j]
                        \/ /\ task'[j].status = "failed" /\ task[j].status = "running"
                           /\ task[j].attempts >= MaxAttempts
  <2>1. ASSUME NEW j \in Ids, task[j] \in Row PROVE Ended(task[j], "failed") \in Row
                                    /\ Ended(task[j], "failed").status = "failed"
    BY <2>1 DEF Ended, Row, TaskStatus
  <2> QED BY <1>1, <2>1 DEF Swept
<1>3. SlotsOnGrid'
  BY <1>1, <1>2 DEF ChainInv, SlotsOnGrid, IsOpen
<1>4. InHand'
  BY <1>1 DEF ChainInv, InHand
<1>5. wk'.task \notin Ids
  BY <1>1, IdsApart
<1>6. ChainInv'
  BY <1>1, <1>2, <1>3, <1>4, <1>5, TypePartsNext DEF ChainInv
<1>7. ASSUME NEW j \in SlotPolls
      PROVE  /\ IsOpen(task'[j]) => task'[j] = task[j]
             /\ IsOpen(task[j]) => IsOpen(task'[j]) \/ task[j].attempts >= MaxAttempts
  BY <1>2, IdsApart DEF IsOpen
<1> QED BY <1>1, <1>6, <1>7

\* The worker is done with its task: the row ends, is queued again, or was no longer its own.
LEMMA EndKeepsChain ==
  ASSUME ChainInv, RestTyped', now' = now, wk' \in WorkerRow, InHand', wk'.task = NoTask,
         wk.task \in Ids, NEW new \in Row, new.status # "running",
         new.status = "queued" => ~new.due,
         task' = [task EXCEPT ![wk.task] = new]
  PROVE  ChainInv'
<1>1. task' \in [Ids -> Row] /\ task'[wk.task] = new /\ \A j \in Ids : j # wk.task => task'[j] = task[j]
  BY TypeParts DEF ChainInv
<1>2. task[wk.task].status = "running"
  BY TypeParts DEF ChainInv
<1>3. SlotsOnGrid'
  BY <1>1, <1>2 DEF ChainInv, SlotsOnGrid, IsOpen
<1> QED BY <1>1, <1>3, TypePartsNext, IdsApart DEF ChainInv

\* The row a task ends with.
LEMMA HeldRow ==
  ASSUME ChainInv, wk.task \in Ids
  PROVE  /\ Held(task, wk.task, "worker") /\ task[wk.task] \in Row
         /\ \A s \in {"failed", "succeeded"} :
              Ended(task[wk.task], s) \in Row /\ Ended(task[wk.task], s).status = s
         /\ Requeued(task[wk.task]) \in Row /\ Requeued(task[wk.task]).status = "queued"
         /\ ~Requeued(task[wk.task]).due
         /\ Requeued(task[wk.task]).attempts = task[wk.task].attempts
<1>1. task[wk.task] \in Row /\ Held(task, wk.task, "worker")
  BY TypeParts DEF ChainInv, SlotsOnGrid, Held
<1> QED BY <1>1 DEF Ended, Requeued, Row, TaskStatus, NoWorker, NoKey

-----------------------------------------------------------------------------
(* The actions of the chain. *)

\* What a worker in a task has in hand: a poll or a page.
LEMMA TaskInHand ==
  ASSUME ChainInv, wk.pc \notin {"down", "idle"}
  PROVE  /\ wk.task \in Ids /\ task[wk.task].status = "running"
         /\ IsPoll(wk.task) => wk.task = NowPoll \/ wk.task \in SlotPolls
         /\ ~IsPoll(wk.task) => \E r \in 1..MaxRuns, e \in Entities, p \in 1..Pages :
                                  wk.task = <<"page", r, e, p>>
<1>1. wk.task \in Ids /\ task[wk.task].status = "running"
  BY TypeParts DEF ChainInv, InHand, WorkerRow
<1>2. wk.task = NowPoll \/ wk.task \in SlotPolls \/ wk.task \in PageTasks
  BY <1>1 DEF Ids
<1>3. wk.task \in PageTasks => \E r \in 1..MaxRuns, e \in Entities, p \in 1..Pages :
                                  wk.task = <<"page", r, e, p>>
  BY DEF PageTasks, PagesOf
<1> QED BY <1>1, <1>2, <1>3, IdsApart

LEMMA RestStaysTyped == ASSUME ChainInv, Next PROVE RestTyped'
<1>1. RestTyped /\ wk \in WorkerRow /\ (wk.task \in Ids => task[wk.task].status = "running")
  BY TypeParts DEF ChainInv
<1>a. MayChange => changes + 1 \in 0..MaxChanges
  BY <1>1, BoundsAssumption DEF RestTyped, MayChange
<1>b. MayFail => faults + 1 \in 0..MaxFaults
  BY <1>1, BoundsAssumption DEF RestTyped, MayFail
<1>2. ASSUME StartBackfill PROVE bf' \in [1..MaxRuns -> RunRow]
  <2>1. [outcome |-> "open", start |-> now, done |-> {}] \in RunRow
    BY <1>1 DEF RestTyped, RunRow
  <2> QED BY <1>1, <1>2, <2>1 DEF StartBackfill, RestTyped
<1>3. CASE Connect
  <2>1. bf' \in [1..MaxRuns -> RunRow]
    <3>1. StartBackfill \/ bf' = bf
      BY <1>3 DEF Connect
    <3> QED BY <1>1, <1>2, <3>1 DEF RestTyped
  <2>2. seeded' \in BOOLEAN
    <3>1. seeded' = seeded \/ seeded' = TRUE
      BY <1>3 DEF Connect
    <3> QED BY <1>1, <3>1 DEF RestTyped
  <2>3. changes' \in 0..MaxChanges
    BY <1>3, <1>a DEF Connect
  <2> QED BY <1>1, <1>3, <2>1, <2>2, <2>3 DEF Connect, RestTyped
<1>4. CASE DisconnectCompany
  BY <1>1, <1>4, <1>a DEF DisconnectCompany, RestTyped
<1>5. CASE RequestPoll
  BY <1>1, <1>5 DEF RequestPoll, RestTyped
<1>6. CASE RequestBackfill
  BY <1>1, <1>2, <1>6 DEF RequestBackfill, RestTyped
<1>7. CASE SetHistoryStart
  BY <1>1, <1>7 DEF SetHistoryStart, RestTyped
<1>8. CASE Startup
  BY <1>1, <1>8 DEF Startup, RestTyped
<1>9. ASSUME NEW i \in Ids, Claim(i) PROVE RestTyped'
  BY <1>1, <1>9 DEF Claim, RestTyped
<1>10. CASE PollBegin \/ PollStops \/ ReadOk \/ PageReturns \/ PageRefused \/ PageBegin \/ Complete
  BY <1>1, <1>10 DEF PollBegin, PollStops, ReadOk, PageReturns, PageRefused, PageBegin, Complete, RestTyped
<1>11. CASE PollStores
  BY <1>1, <1>11 DEF PollStores, RestTyped, WorkerRow
<1>12. CASE PageStores
  <2>1. PICK r \in 1..MaxRuns, e \in Entities, p \in 1..Pages : wk.task = <<"page", r, e, p>>
    BY <1>12, TaskInHand DEF PageStores
  <2>2. bf[r] \in RunRow /\ RunOf(wk.task) = r
    BY <1>1, <2>1 DEF RestTyped, RunOf
  <2>3. DoneAfter(wk.task) \in SUBSET Entities
    BY <2>1, <2>2 DEF DoneAfter, RunRow
  <2>4. PICK d \in SUBSET Entities : d = DoneAfter(wk.task)
    BY <2>3
  <2>5. PICK o \in {"open", "succeeded"} :
          bf' = [bf EXCEPT ![r].done = d, ![r].outcome = o]
    <3>1. bf' = [bf EXCEPT ![r].done = d, ![r].outcome = IF d = Entities THEN "succeeded" ELSE @]
      BY <1>12, <2>2, <2>4 DEF PageStores
    <3>2. bf[r].outcome = "open"
      BY <1>12, <2>2 DEF PageStores
    <3> QED BY <1>1, <2>2, <3>1, <3>2 DEF RestTyped
  <2>6. PICK q : q = [bf[r] EXCEPT !.done = d, !.outcome = o]
    OBVIOUS
  <2>7. q \in RunRow
    BY <2>2, <2>6 DEF RunRow
  <2>8. bf' = [bf EXCEPT ![r] = q]
    BY <1>1, <2>5, <2>6 DEF RestTyped
  <2>9. bf' \in [1..MaxRuns -> RunRow]
    BY <1>1, <2>7, <2>8 DEF RestTyped
  <2> QED BY <1>1, <1>12, <2>9 DEF PageStores, RestTyped
<1>13. CASE ReadRefused
  <2>2. ASSUME bf' # bf PROVE bf' \in [1..MaxRuns -> RunRow]
    <3>1. PICK r \in 1..MaxRuns, e \in Entities, p \in 1..Pages : wk.task = <<"page", r, e, p>>
      BY <1>13, <2>2, TaskInHand DEF ReadRefused
    <3>2. bf' = [bf EXCEPT ![r].outcome = "failed"]
      BY <1>13, <2>2, <3>1 DEF ReadRefused, RunOf
    <3>3. bf' \in [1..MaxRuns -> RunRow]
      BY <1>1, <3>2 DEF RestTyped, RunRow
    <3> QED BY <3>3
  <2>3. connection' \in {"connected", "disconnected", "needs_reconnect"} /\ seeded' \in BOOLEAN
        /\ changes' \in 0..MaxChanges
    BY <1>1, <1>13, <1>a DEF ReadRefused, RestTyped
  <2>4. bf' \in [1..MaxRuns -> RunRow]
    BY <1>1, <2>2 DEF RestTyped
  <2> QED BY <1>1, <1>13, <2>3, <2>4 DEF ReadRefused, RestTyped
<1>14. CASE TaskFails \/ Crash
  BY <1>1, <1>14, <1>b DEF TaskFails, Crash, RestTyped
<1>15. CASE Tick
  BY <1>1, <1>15, BoundsAssumption DEF Tick, RestTyped
<1>16. ASSUME NEW i \in Ids, Passes(i) PROVE RestTyped'
  BY <1>1, <1>16 DEF Passes, RestTyped
<1>17. CASE Sweep
  BY <1>1, <1>17 DEF Sweep, RestTyped
<1> QED BY <1>3, <1>4, <1>5, <1>6, <1>7, <1>8, <1>9, <1>10, <1>11, <1>12, <1>13, <1>14, <1>15, <1>16,
           <1>17
        DEF Next, WorkerStep

LEMMA RearmedGains ==
  ASSUME ChainInv, wk.pc \notin {"down", "idle"}, IsPoll(wk.task)
  PROVE  /\ Gains(task, Rearmed(task, wk.task))
         /\ wk.task \in SlotPolls =>
              \E i \in SlotPolls \ {wk.task} : IsOpen(Rearmed(task, wk.task)[i])
<1>1. /\ RestTyped /\ task \in [Ids -> Row] /\ now \in Nat
      /\ wk.task = NowPoll \/ wk.task \in SlotPolls
      /\ task[wk.task].status = "running"
  BY TypeParts, TaskInHand, BoundsAssumption DEF ChainInv, RestTyped
<1>2. CASE wk.task = NowPoll
  BY <1>1, <1>2, GainsNothing, IdsApart DEF Rearmed
<1>3. CASE wk.task \in SlotPolls
  <2>1. wk.task \in Ids /\ wk.task[2] <= now /\ wk.task[2] \in Nat /\ wk.task # NowPoll
    BY <1>1, <1>3, IdsApart DEF ChainInv, SlotsOnGrid
  <2>2. Later(now, wk.task[2]) = now
    BY <1>1, <2>1 DEF Later
  <2>3. PICK i : i = <<"slot", next_cdc_slot(now)>>
    OBVIOUS
  <2>4. i \in SlotPolls /\ i[2] = next_cdc_slot(now) /\ i[2] > now
    BY <1>1, <2>3, NextSlotIsOne
  <2>5. i # wk.task
    BY <1>1, <2>1, <2>4, IdsApart
  <2>6. Rearmed(task, wk.task) = enqueue(task, i, FALSE)
    BY <2>1, <2>2, <2>3 DEF Rearmed
  <2> QED BY <1>1, <2>4, <2>5, <2>6, EnqueueSlotGains
<1> QED BY <1>1, <1>2, <1>3

\* The tasks a stored page queues: the next page, the seeded poll.
LEMMA PageGains ==
  ASSUME ChainInv, PageStores
  PROVE  Gains(task, task')
<1>1. RestTyped /\ task \in [Ids -> Row]
  BY TypeParts DEF ChainInv
<1>2. PICK r \in 1..MaxRuns, e \in Entities, p \in 1..Pages : wk.task = <<"page", r, e, p>>
  BY TaskInHand DEF PageStores
<1> DEFINE next == <<"page", RunOf(wk.task), wk.task[3], wk.task[4] + 1>>
           queued == IF More(wk.task) THEN enqueue(task, next, TRUE) ELSE task
<1>3. Gains(task, queued)
  <2>1. CASE More(wk.task)
    <3>1. PICK i : i = next /\ i = <<"page", r, e, p + 1>>
      <4>1. wk.task[2] = r /\ wk.task[3] = e /\ wk.task[4] = p
        BY <1>2
      <4>2. next = <<"page", r, e, p + 1>>
        BY <4>1, Zenon DEF RunOf
      <4> HIDE DEF next
      <4> QED BY <4>2
    <3>2. p + 1 \in 1..Pages
      BY <1>2, <2>1, BoundsAssumption DEF More
    <3>3. i \in PageTasks
      BY <3>1, <3>2 DEF PageTasks, PagesOf
    <3>4. i \in Ids \ SlotPolls
      BY <3>3, IdsApart
    <3> QED BY <1>1, <2>1, <3>1, <3>4, EnqueueNowGains
  <2>2. CASE ~More(wk.task)
    BY <1>1, <2>2, GainsNothing
  <2> QED BY <2>1, <2>2
<1>4. task' = queued \/ task' = Scheduled(queued)
  BY DEF PageStores
<1> HIDE DEF queued, next
<1>5. queued \in [Ids -> Row]
  BY <1>3 DEF Gains
<1>6. Gains(queued, Scheduled(queued))
  BY <1>1, <1>5, ScheduledGains
<1> QED BY <1>3, <1>4, <1>6, GainsTwice

\* The steps that only queue tasks.
Queues ==
  \/ Connect \/ DisconnectCompany \/ RequestPoll \/ RequestBackfill \/ SetHistoryStart
  \/ Startup \/ PollBegin \/ PollStops \/ ReadOk \/ PollStores \/ PageReturns \/ PageBegin \/ PageStores

LEMMA QueuesGain ==
  ASSUME ChainInv, Queues
  PROVE  Gains(task, task')
<1>1. RestTyped /\ task \in [Ids -> Row]
  BY TypeParts DEF ChainInv
<1>2. CASE Connect
  <2>1. StartBackfill \/ task' = task \/ task' = Scheduled(task)
    BY <1>2 DEF Connect
  <2> QED BY <1>1, <2>1, StartGains, GainsNothing, ScheduledGains
<1>3. CASE RequestPoll
  BY <1>1, <1>3, EnqueueNowGains, IdsApart DEF RequestPoll
<1>4. CASE RequestBackfill
  BY <1>1, <1>4, StartGains DEF RequestBackfill
<1>5. CASE Startup
  <2>1. task' = task \/ task' = Scheduled(task)
    BY <1>5 DEF Startup
  <2> QED BY <1>1, <2>1, GainsNothing, ScheduledGains
<1>6. CASE PollBegin
  BY <1>6, RearmedGains DEF PollBegin
<1>7. CASE PageStores
  BY <1>7, PageGains
<1>8. CASE DisconnectCompany \/ SetHistoryStart \/ PollStops \/ ReadOk \/ PollStores \/ PageReturns \/ PageBegin
  BY <1>1, <1>8, GainsNothing
     DEF DisconnectCompany, SetHistoryStart, PollStops, ReadOk, PollStores, PageReturns, PageBegin
<1> QED BY <1>2, <1>3, <1>4, <1>5, <1>6, <1>7, <1>8 DEF Queues

\* They leave the clock, the faults and the task in hand.
LEMMA QueuesKeepWorker ==
  ASSUME ChainInv, Queues
  PROVE  /\ now' = now /\ faults' = faults /\ wk' \in WorkerRow /\ InHand' /\ wk'.task = wk.task
         /\ wk'.pc \in {"reading", "fetched", "done"} /\ ~wk'.stops =>
              PollBegin \/ (wk.pc \in {"reading", "fetched"} /\ ~wk.stops)
                        \/ (wk' = wk) \/ ~IsPoll(wk.task)
<1>1. wk \in WorkerRow /\ InHand /\ now \in 0..MaxClock
  BY TypeParts DEF ChainInv, RestTyped
<1>2. CASE wk' = wk /\ now' = now /\ faults' = faults
  BY <1>1, <1>2 DEF InHand
<1>3. CASE Connect \/ DisconnectCompany \/ RequestPoll \/ RequestBackfill \/ SetHistoryStart
  BY <1>2, <1>3 DEF Connect, DisconnectCompany, RequestPoll, RequestBackfill, SetHistoryStart
<1>4. CASE Startup
  BY <1>1, <1>4, WorkerRows DEF Startup, InHand
<1>5. CASE PollBegin
  BY <1>1, <1>5 DEF PollBegin, InHand, WorkerRow
<1>6. CASE PollStops
  BY <1>1, <1>6 DEF PollStops, InHand, WorkerRow
<1>7. CASE ReadOk \/ PollStores
  BY <1>1, <1>7 DEF ReadOk, PollStores, InHand, WorkerRow
<1>8. CASE PageReturns \/ PageBegin
  BY <1>1, <1>8 DEF PageReturns, PageBegin, InHand, WorkerRow
<1>9. CASE PageStores
  BY <1>1, <1>9 DEF PageStores, InHand, WorkerRow
<1> QED BY <1>3, <1>4, <1>5, <1>6, <1>7, <1>8, <1>9 DEF Queues

\* The steps that end the task in hand.
Ends == PageRefused \/ ReadRefused \/ TaskFails \/ Complete

LEMMA EndsRow ==
  ASSUME ChainInv, Ends
  PROVE  /\ wk.task \in Ids /\ now' = now /\ wk' = WorkerIdle /\ faults' \in {faults, faults + 1}
         /\ \E new \in Row :
              /\ task' = [task EXCEPT ![wk.task] = new]
              /\ new.status # "running" /\ (new.status = "queued" => ~new.due)
              /\ new.status = "queued" =>
                   new.attempts = task[wk.task].attempts /\ faults' = faults + 1
              /\ TaskFails =>
                   (task[wk.task].attempts < MaxAttempts => new.status = "queued")
<1>1. /\ wk.task \in Ids /\ now' = now /\ wk' = WorkerIdle /\ faults' \in {faults, faults + 1}
      /\ TaskFails => faults' = faults + 1
      /\ wk.pc \notin {"down", "idle"}
  <2>1. wk.pc \notin {"down", "idle"} /\ now' = now /\ wk' = WorkerIdle /\ faults' \in {faults, faults + 1}
        /\ (TaskFails => faults' = faults + 1)
    BY DEF Ends, PageRefused, ReadRefused, TaskFails, Complete
  <2> QED BY <2>1, TaskInHand
<1>2. PICK r : r = task[wk.task]
  OBVIOUS
<1>3. /\ Held(task, wk.task, "worker")
      /\ \A s \in {"failed", "succeeded"} : Ended(r, s) \in Row /\ Ended(r, s).status = s
      /\ Requeued(r) \in Row /\ Requeued(r).status = "queued" /\ ~Requeued(r).due
      /\ Requeued(r).attempts = r.attempts /\ r.attempts \in Nat /\ MaxAttempts \in Nat
  <2>1. r \in Row /\ MaxAttempts \in Nat
    BY <1>1, <1>2, HeldRow, BoundsAssumption
  <2>2. r.attempts \in Nat
    BY <2>1 DEF Row
  <2> QED BY <1>1, <1>2, <2>1, <2>2, HeldRow
<1>4. CASE PageRefused \/ ReadRefused
  <2>1. task' = [task EXCEPT ![wk.task] = Ended(r, "failed")]
    BY <1>2, <1>3, <1>4 DEF PageRefused, ReadRefused, Failed
  <2>2. ~TaskFails
    <3>1. faults \in Nat
      BY BoundsAssumption, TypeParts DEF ChainInv, RestTyped
    <3>2. faults' = faults
      BY <1>4 DEF PageRefused, ReadRefused
    <3> QED BY <1>1, <3>1, <3>2
  <2> QED BY <1>1, <1>3, <2>1, <2>2
<1>5. CASE Complete
  <2>1. task' = [task EXCEPT ![wk.task] = Ended(r, "succeeded")]
    BY <1>2, <1>3, <1>5 DEF Complete, Completed
  <2>2. ~TaskFails
    BY <1>5 DEF Complete, TaskFails
  <2> QED BY <1>1, <1>3, <2>1, <2>2
<1>6. CASE TaskFails
  <2>1. CASE r.attempts >= MaxAttempts
    <3>1. task' = [task EXCEPT ![wk.task] = Ended(r, "failed")]
      BY <1>2, <1>3, <1>6, <2>1 DEF TaskFails, Failed
    <3>2. ~(r.attempts < MaxAttempts)
      BY <1>3, <2>1
    <3> QED BY <1>1, <1>2, <1>3, <3>1, <3>2
  <2>2. CASE ~(r.attempts >= MaxAttempts)
    <3>1. task' = [task EXCEPT ![wk.task] = Requeued(r)]
      BY <1>2, <1>3, <1>6, <2>2 DEF TaskFails, Failed
    <3> QED BY <1>1, <1>2, <1>3, <1>6, <3>1
  <2> QED BY <2>1, <2>2
<1> QED BY <1>4, <1>5, <1>6 DEF Ends

LEMMA PassesKeepsChain ==
  ASSUME ChainInv, RestTyped', NEW i \in Ids, Passes(i)
  PROVE  /\ ChainInv' /\ faults' = faults /\ wk' = wk
         /\ \A j \in Ids : task'[j].attempts = task[j].attempts /\ task'[j].status = task[j].status
<1>1. /\ task \in [Ids -> Row] /\ wk \in WorkerRow /\ wk' = wk /\ now' = now /\ faults' = faults
      /\ wk.task \in Ids => task[wk.task].status = "running"
  BY TypeParts DEF ChainInv, Passes
<1>2. PICK r : r = task[i]
  OBVIOUS
<1>3. PICK q \in Row :
        /\ task' = [task EXCEPT ![i] = q]
        /\ q.status = r.status /\ q.attempts = r.attempts /\ q.lockedBy = r.lockedBy
        /\ i \in SlotPolls /\ q.status = "queued" /\ q.due => i[2] <= now
  <2>1. r \in Row
    BY <1>1, <1>2
  <2>2. CASE task[i].status = "queued" /\ (i \in SlotPolls => i[2] <= now) /\ task' = [task EXCEPT ![i].due = TRUE]
    <3>1. PICK q : q = [r EXCEPT !.due = TRUE]
      OBVIOUS
    <3>2. q \in Row /\ q.status = r.status /\ q.attempts = r.attempts /\ q.lockedBy = r.lockedBy
      BY <2>1, <3>1 DEF Row
    <3>3. task' = [task EXCEPT ![i] = q]
      BY <1>1, <1>2, <2>2, <3>1
    <3> QED BY <2>2, <3>2, <3>3
  <2>3. CASE task[i].status = "running" /\ task' = [task EXCEPT ![i].expired = TRUE]
    <3>1. PICK q : q = [r EXCEPT !.expired = TRUE]
      OBVIOUS
    <3>2. q \in Row /\ q.status = r.status /\ q.attempts = r.attempts /\ q.lockedBy = r.lockedBy
      BY <2>1, <3>1 DEF Row
    <3>3. task' = [task EXCEPT ![i] = q]
      BY <1>1, <1>2, <2>3, <3>1
    <3> QED BY <1>2, <2>3, <3>2, <3>3
  <2> QED BY <2>2, <2>3 DEF Passes
<1>4. task' \in [Ids -> Row] /\ task'[i] = q /\ \A j \in Ids : j # i => task'[j] = task[j]
  BY <1>1, <1>3
<1>5. \A j \in Ids : /\ task'[j].attempts = task[j].attempts /\ task'[j].status = task[j].status
                     /\ task'[j].lockedBy = task[j].lockedBy
                     /\ j # i => task'[j].due = task[j].due
  BY <1>2, <1>3, <1>4
<1>6. SlotsOnGrid'
  BY <1>1, <1>3, <1>4, <1>5 DEF ChainInv, SlotsOnGrid, IsOpen
<1>7. InHand'
  BY <1>1 DEF ChainInv, InHand
<1> QED BY <1>1, <1>4, <1>5, <1>6, <1>7, TypePartsNext DEF ChainInv

LEMMA TickKeepsChain ==
  ASSUME ChainInv, RestTyped', Tick
  PROVE  ChainInv'
<1>1. now \in Nat /\ now' = now + 1 /\ task' = task /\ wk' = wk
  BY TypeParts, BoundsAssumption DEF ChainInv, RestTyped, Tick
<1>2. next_cdc_slot(now') = next_cdc_slot(now) \/ next_cdc_slot(now) = now'
  BY <1>1, SlotGrid
<1>3. \A i \in SlotPolls : i[2] \in Nat
  BY IdsApart
<1>4. SlotsOnGrid'
  <2>1. ASSUME NEW i \in SlotPolls, i[2] <= now PROVE i[2] <= now'
    BY <1>1, <1>3, <2>1
  <2>2. ASSUME NEW i \in SlotPolls, i[2] = next_cdc_slot(now)
        PROVE  i[2] <= now' \/ i[2] = next_cdc_slot(now')
    BY <1>1, <1>2, <1>3, <2>2
  <2>3. ASSUME NEW i \in Ids
        PROVE  /\ task'[i].status = "running" => task'[i].lockedBy = "worker"
               /\ i \in SlotPolls =>
                    /\ IsOpen(task'[i]) => i[2] <= now' \/ i[2] = next_cdc_slot(now')
                    /\ task'[i].status = "running" \/ (task'[i].status = "queued" /\ task'[i].due)
                         => i[2] <= now'
    <3> HIDE DEF next_cdc_slot, IsOpen
    <3> QED BY <1>1, <2>1, <2>2 DEF ChainInv, SlotsOnGrid
  <2> QED BY <2>3 DEF SlotsOnGrid
<1>5. InHand' /\ task' \in [Ids -> Row] /\ wk' \in WorkerRow
      /\ (wk'.task \in Ids => task'[wk'.task].status = "running")
  BY <1>1, TypeParts DEF ChainInv, InHand
<1> QED BY <1>4, <1>5, TypePartsNext DEF ChainInv

LEMMA CrashKeepsChain ==
  ASSUME ChainInv, RestTyped', Crash
  PROVE  ChainInv'
<1>1. task' = task /\ now' = now /\ wk' = WorkerDown
  BY DEF Crash
<1>2. SlotsOnGrid'
  BY <1>1 DEF ChainInv, SlotsOnGrid
<1>3. InHand' /\ task' \in [Ids -> Row] /\ wk' \in WorkerRow /\ wk'.task \notin Ids
  BY <1>1, WorkerRows, IdsApart, TypeParts DEF ChainInv, InHand
<1> QED BY <1>2, <1>3, TypePartsNext DEF ChainInv

LEMMA ChainStep == ASSUME ChainInv, Next PROVE ChainInv'
<1>1. RestTyped'
  BY RestStaysTyped
<1>2. CASE Queues
  BY <1>1, <1>2, QueuesGain, QueuesKeepWorker, GainsKeepChain
<1>3. CASE Ends
  <2>1. InHand' /\ wk' \in WorkerRow /\ wk'.task = NoTask
    BY <1>3, EndsRow, WorkerRows DEF InHand
  <2>2. PICK new \in Row : /\ task' = [task EXCEPT ![wk.task] = new] /\ new.status # "running"
                           /\ new.status = "queued" => ~new.due
    BY <1>3, EndsRow
  <2>3. wk.task \in Ids /\ now' = now
    BY <1>3, EndsRow
  <2> QED BY <1>1, <2>1, <2>2, <2>3, EndKeepsChain
<1>4. CASE Crash
  BY <1>1, <1>4, CrashKeepsChain
<1>5. CASE Tick
  BY <1>1, <1>5, TickKeepsChain
<1>6. ASSUME NEW i \in Ids, Claim(i) PROVE ChainInv'
  BY <1>6, ClaimKeepsChain
<1>7. ASSUME NEW i \in Ids, Passes(i) PROVE ChainInv'
  BY <1>1, <1>7, PassesKeepsChain
<1>8. CASE Sweep
  BY <1>1, <1>8, SweepKeepsChain
<1> QED BY <1>2, <1>3, <1>4, <1>5, <1>6, <1>7, <1>8 DEF Next, WorkerStep, Queues, Ends

LEMMA ChainStart == Init => ChainInv
<1> SUFFICES ASSUME Init PROVE ChainInv
  OBVIOUS
<1>1. 0 \in 0..MaxClock /\ 0 \in 0..MaxFaults /\ 0 \in 0..MaxChanges /\ 0 \in 0..MaxAttempts
  BY BoundsAssumption
<1>2. AbsentRow \in Row /\ AbsentRow.status = "absent"
  BY <1>1 DEF AbsentRow, Row, TaskStatus
<1>3. NoRun \in RunRow
  BY <1>1 DEF NoRun, RunRow
<1>4. RestTyped
  BY <1>1, <1>3 DEF Init, RestTyped
<1>5. task \in [Ids -> Row] /\ \A i \in Ids : task[i].status = "absent"
  BY <1>2 DEF Init
<1>6. wk \in WorkerRow /\ wk.task = NoTask /\ wk.pc = "down"
  BY WorkerRows DEF Init
<1>7. TypeOK
  BY <1>4, <1>5, <1>6, TypeParts, IdsApart
<1> QED BY <1>5, <1>6, <1>7 DEF ChainInv, InHand, SlotsOnGrid, IsOpen

LEMMA ChainInvariance == Spec => []ChainInv
<1>1. ASSUME ChainInv, UNCHANGED vars PROVE ChainInv'
  <2>1. RestTyped' /\ task' = task /\ wk' = wk /\ now' = now
    BY <1>1, TypeParts DEF ChainInv, RestTyped, vars
  <2>2. Gains(task, task') /\ wk' \in WorkerRow /\ InHand'
    BY <1>1, <2>1, TypeParts, GainsNothing DEF ChainInv, InHand
  <2> QED BY <1>1, <2>1, <2>2, GainsKeepChain
<1>2. ChainInv /\ [Next]_vars => ChainInv'
  BY <1>1, ChainStep
<1> QED BY <1>2, ChainStart, PTL DEF Spec

\* However polls fail, are retried and seeded again (schedule.py next_cdc_slot,
\* ensure_scheduled; tasks.py poll_once): for any clock, slot length, entities and
\* numbers of runs at most one poll waits for a slot to come, and the worker's task is
\* a running row.
THEOREM ChainNeverForks == Spec => []ChainHolds
<1>1. ChainInv => ChainHolds
  <2> SUFFICES ASSUME ChainInv PROVE ChainHolds
    OBVIOUS
  <2> DEFINE waiting == {i \in OpenIn(task, SlotPolls) : Future(i)}
  <2>1. waiting \in SUBSET {<<"slot", next_cdc_slot(now)>>}
    <3>1. ASSUME NEW i \in waiting PROVE i = <<"slot", next_cdc_slot(now)>>
      <4>1. i \in SlotPolls /\ IsOpen(task[i]) /\ i[2] > now
        BY <3>1 DEF OpenIn, Future
      <4>2. i \in Ids /\ i[2] \in Nat /\ now \in Nat /\ i = <<"slot", i[2]>>
        BY <4>1, IdsApart, TypeParts, BoundsAssumption DEF ChainInv, RestTyped
      <4>3. i[2] <= now \/ i[2] = next_cdc_slot(now)
        BY <4>1, <4>2 DEF ChainInv, SlotsOnGrid
      <4>4. i[2] = next_cdc_slot(now)
        BY <4>1, <4>2, <4>3
      <4> QED BY <4>2, <4>4
    <3> QED BY <3>1
  <2>2. Cardinality(waiting) <= 1
    <3>1. IsFiniteSet({<<"slot", next_cdc_slot(now)>>}) /\ Cardinality({<<"slot", next_cdc_slot(now)>>}) = 1
      BY FS_Singleton
    <3> QED BY <2>1, <3>1, FS_Subset
  <2> QED BY <2>2 DEF ChainInv, ChainHolds, OneFuturePoll
<1> QED BY <1>1, ChainInvariance, PTL

-----------------------------------------------------------------------------
(* What a failure leaves of the chain. *)

SomePollOpen(tbl) == \E i \in SlotPolls : IsOpen(tbl[i])

PollGivenUp ==
  faults' >= MaxAttempts /\ \E i \in SlotPolls : IsOpen(task[i]) /\ OutOfAttempts(i)

\* A step keeps the strengthening, and the last open poll ends only by a stop or out
\* of attempts.
KeepsPolls ==
  /\ SuccessorOpen' /\ AttemptsAreFaults'
  /\ SomePollOpen(task) => SomePollOpen(task') \/ wk.stops \/ PollGivenUp

\* The numbers a step compares.
LEMMA AttemptsAndFaults ==
  ASSUME KeptInv
  PROVE  /\ faults \in Nat /\ faults <= MaxFaults /\ MaxFaults \in Nat /\ MaxAttempts \in Nat
         /\ \A i \in SlotPolls : i \in Ids /\ task[i].attempts \in Nat
<1>1. task \in [Ids -> Row] /\ faults \in 0..MaxFaults
  BY TypeParts DEF KeptInv, ChainInv, RestTyped
<1>2. ASSUME NEW i \in SlotPolls PROVE i \in Ids /\ task[i].attempts \in Nat
  BY <1>1, IdsApart DEF Row
<1> QED BY <1>1, <1>2, BoundsAssumption

LEMMA QueuesKeepPolls ==
  ASSUME KeptInv, Queues
  PROVE  KeepsPolls
<1>1. /\ Gains(task, task') /\ wk'.task = wk.task /\ faults' = faults
      /\ wk'.pc \in {"reading", "fetched", "done"} /\ ~wk'.stops =>
           PollBegin \/ (wk.pc \in {"reading", "fetched"} /\ ~wk.stops)
                     \/ (wk' = wk) \/ ~IsPoll(wk.task)
  BY QueuesGain, QueuesKeepWorker DEF KeptInv
<1>2. \A i \in SlotPolls : IsOpen(task[i]) => IsOpen(task'[i])
  BY <1>1, IdsApart DEF Gains
<1>3. ASSUME NEW i \in SlotPolls, IsOpen(task'[i])
      PROVE  task'[i].attempts <= faults' + (IF wk'.task = i THEN 1 ELSE 0)
  <2>1. CASE task'[i] = task[i]
    BY <1>1, <1>3, <2>1 DEF KeptInv, AttemptsAreFaults
  <2>2. CASE task'[i].attempts = 0
    BY <1>1, <2>2, AttemptsAndFaults
  <2> QED BY <1>1, <2>1, <2>2, IdsApart DEF Gains
<1>4. ASSUME wk'.task \in SlotPolls, wk'.pc \in {"reading", "fetched", "done"}, ~wk'.stops
      PROVE  \E i \in SlotPolls \ {wk'.task} : IsOpen(task'[i])
  <2>1. IsPoll(wk.task)
    BY <1>1, <1>4, IdsApart
  <2>2. CASE PollBegin
    <3>1. \E i \in SlotPolls \ {wk.task} : IsOpen(Rearmed(task, wk.task)[i])
      BY <1>1, <1>4, <2>2, RearmedGains DEF KeptInv, PollBegin
    <3>2. task' = Rearmed(task, wk.task)
      BY <2>2 DEF PollBegin
    <3> QED BY <1>1, <3>1, <3>2
  <2>3. CASE (wk.pc \in {"reading", "fetched"} /\ ~wk.stops) \/ (wk' = wk)
    <3>1. \E i \in SlotPolls \ {wk.task} : IsOpen(task[i])
      BY <1>1, <1>4, <2>3 DEF KeptInv, SuccessorOpen
    <3> QED BY <1>1, <1>2, <3>1
  <2> QED BY <1>1, <1>4, <2>1, <2>2, <2>3
<1> QED BY <1>2, <1>3, <1>4 DEF KeepsPolls, SuccessorOpen, AttemptsAreFaults, SomePollOpen

LEMMA ClaimKeepsPolls ==
  ASSUME KeptInv, NEW i \in Ids, Claim(i)
  PROVE  KeepsPolls
<1>1. /\ wk.pc = "idle" /\ wk.task = NoTask /\ wk'.task = i /\ wk'.pc = "claimed" /\ faults' = faults
      /\ \A j \in SlotPolls :
           /\ task'[j].status # "failed" => task'[j].attempts <= task[j].attempts + (IF j = i THEN 1 ELSE 0)
           /\ IsOpen(task[j]) /\ task[j].attempts < MaxAttempts => IsOpen(task'[j])
           /\ IsOpen(task'[j]) => IsOpen(task[j])
  <2>1. wk.pc = "idle" /\ faults' = faults
    BY Zenon DEF Claim
  <2> QED BY <2>1, ClaimKeepsChain DEF KeptInv
<1>2. ASSUME NEW j \in SlotPolls, IsOpen(task[j])
      PROVE  task[j].attempts <= faults
  <2>1. wk.task # j
    BY <1>1, IdsApart
  <2> QED BY <1>2, <2>1, AttemptsAndFaults DEF KeptInv, AttemptsAreFaults
<1>3. ASSUME NEW j \in SlotPolls, IsOpen(task[j])
      PROVE  IsOpen(task'[j]) \/ PollGivenUp
  <2>1. CASE task[j].attempts < MaxAttempts
    BY <1>1, <1>3, <2>1
  <2>2. CASE task[j].attempts >= MaxAttempts
    <3>1. faults' >= MaxAttempts
      BY <1>1, <1>2, <1>3, <2>2, AttemptsAndFaults
    <3> QED BY <1>1, <1>3, <2>2, <3>1 DEF PollGivenUp, OutOfAttempts
  <2> QED BY <2>1, <2>2, AttemptsAndFaults
<1>4. task' \in [Ids -> Row]
  BY ClaimKeepsChain, TypePartsNext DEF KeptInv, ChainInv
<1>5. ASSUME NEW j \in SlotPolls, IsOpen(task'[j])
      PROVE  task'[j].attempts <= faults' + (IF wk'.task = j THEN 1 ELSE 0)
  <2>1. task'[j].attempts \in Nat /\ task[j].attempts \in Nat /\ faults \in Nat
    BY <1>4, AttemptsAndFaults DEF Row
  <2>2. task'[j].attempts <= task[j].attempts + (IF j = i THEN 1 ELSE 0) /\ task[j].attempts <= faults
    BY <1>1, <1>2, <1>5 DEF IsOpen
  <2> QED BY <1>1, <2>1, <2>2
<1> QED BY <1>1, <1>3, <1>5 DEF KeepsPolls, SuccessorOpen, AttemptsAreFaults, SomePollOpen

LEMMA SweepKeepsPolls ==
  ASSUME KeptInv, RestTyped', Sweep
  PROVE  KeepsPolls
<1>1. /\ wk' = wk /\ wk.pc = "idle" /\ wk.task = NoTask /\ faults' = faults
      /\ \A j \in SlotPolls :
           /\ IsOpen(task'[j]) => task'[j] = task[j]
           /\ IsOpen(task[j]) => IsOpen(task'[j]) \/ task[j].attempts >= MaxAttempts
  BY SweepKeepsChain DEF KeptInv
<1>2. ASSUME NEW j \in SlotPolls, IsOpen(task[j])
      PROVE  task[j].attempts <= faults
  <2>1. wk.task # j
    BY <1>1, IdsApart
  <2> QED BY <1>2, <2>1, AttemptsAndFaults DEF KeptInv, AttemptsAreFaults
<1>3. ASSUME NEW j \in SlotPolls, IsOpen(task[j])
      PROVE  IsOpen(task'[j]) \/ PollGivenUp
  <2>1. CASE task[j].attempts >= MaxAttempts
    <3>1. faults' >= MaxAttempts
      BY <1>1, <1>2, <1>3, <2>1, AttemptsAndFaults
    <3> QED BY <1>1, <1>3, <2>1, <3>1 DEF PollGivenUp, OutOfAttempts
  <2> QED BY <1>1, <1>3, <2>1
<1>4. AttemptsAreFaults'
  <2>1. ASSUME NEW j \in SlotPolls, IsOpen(task'[j])
        PROVE  task'[j].attempts <= faults' + (IF wk'.task = j THEN 1 ELSE 0)
    <3>1. task'[j] = task[j] /\ IsOpen(task[j]) /\ wk'.task # j
      BY <1>1, <2>1, IdsApart
    <3> QED BY <1>1, <1>2, <3>1, AttemptsAndFaults
  <2> QED BY <2>1 DEF AttemptsAreFaults
<1>5. SuccessorOpen'
  BY <1>1 DEF SuccessorOpen
<1> QED BY <1>3, <1>4, <1>5 DEF KeepsPolls, SomePollOpen

LEMMA EndsKeepsPolls ==
  ASSUME KeptInv, Ends
  PROVE  KeepsPolls
<1>1. /\ wk.task \in Ids /\ wk' = WorkerIdle /\ wk'.task = NoTask /\ faults' \in {faults, faults + 1}
      /\ task \in [Ids -> Row] /\ task[wk.task].status = "running"
  BY EndsRow, WorkerRows, TypeParts DEF KeptInv, ChainInv
<1>2. PICK new \in Row :
        /\ task' = [task EXCEPT ![wk.task] = new]
        /\ new.status # "running" /\ (new.status = "queued" => ~new.due)
        /\ new.status = "queued" =>
             new.attempts = task[wk.task].attempts /\ faults' = faults + 1
        /\ TaskFails =>
             (task[wk.task].attempts < MaxAttempts => new.status = "queued")
  BY EndsRow DEF KeptInv
<1>3. task'[wk.task] = new /\ \A j \in Ids : j # wk.task => task'[j] = task[j]
  BY <1>1, <1>2
<1>4. wk.task \in SlotPolls => task[wk.task].attempts <= faults + 1
  BY <1>1 DEF KeptInv, AttemptsAreFaults, IsOpen
<1>5. ASSUME NEW j \in SlotPolls, IsOpen(task'[j])
      PROVE  task'[j].attempts <= faults' + (IF wk'.task = j THEN 1 ELSE 0)
  <2>1. wk'.task # j /\ j \in Ids
    BY <1>1, IdsApart
  <2>2. CASE j = wk.task
    BY <1>2, <1>3, <1>4, <1>5, <2>1, <2>2, AttemptsAndFaults DEF IsOpen
  <2>3. CASE j # wk.task
    <3>1. task'[j] = task[j] /\ task[j].attempts <= faults
      BY <1>3, <1>5, <2>1, <2>3, AttemptsAndFaults DEF KeptInv, AttemptsAreFaults
    <3> QED BY <1>1, <2>1, <3>1, AttemptsAndFaults
  <2> QED BY <2>2, <2>3
<1>6. ASSUME NEW j \in SlotPolls, IsOpen(task[j]), ~wk.stops
      PROVE  SomePollOpen(task') \/ PollGivenUp
  <2>1. CASE j # wk.task
    BY <1>3, <1>6, <2>1, IdsApart DEF SomePollOpen
  <2>2. CASE j = wk.task /\ TaskFails
    <3>1. CASE task[wk.task].attempts < MaxAttempts
      BY <1>2, <1>3, <2>2, <3>1 DEF SomePollOpen, IsOpen
    <3>2. CASE task[wk.task].attempts >= MaxAttempts /\ wk.pc = "claimed"
      <4>1. faults' = faults + 1
        BY <2>2 DEF TaskFails
      <4>2. faults' >= MaxAttempts
        BY <1>4, <2>2, <3>2, <4>1, AttemptsAndFaults
      <4> QED BY <1>6, <2>2, <3>2, <4>2 DEF PollGivenUp, OutOfAttempts
    <3>3. CASE wk.pc # "claimed"
      <4>1. wk.pc \in {"reading", "fetched"}
        BY <2>2, <3>3 DEF TaskFails
      <4>2. \E i \in SlotPolls \ {wk.task} : IsOpen(task[i])
        BY <1>6, <2>2, <4>1 DEF KeptInv, SuccessorOpen
      <4> QED BY <1>3, <4>2, IdsApart DEF SomePollOpen
    <3> QED BY <2>2, <3>1, <3>2, <3>3, AttemptsAndFaults
  <2>3. CASE j = wk.task /\ (ReadRefused \/ Complete)
    <3>1. wk.pc \in {"reading", "done"}
      BY <2>3 DEF ReadRefused, Complete
    <3>2. \E i \in SlotPolls \ {wk.task} : IsOpen(task[i])
      BY <1>6, <2>3, <3>1 DEF KeptInv, SuccessorOpen
    <3> QED BY <1>3, <3>2, IdsApart DEF SomePollOpen
  <2>4. CASE j = wk.task /\ PageRefused
    BY <2>4, IdsApart DEF PageRefused
  <2> QED BY <2>1, <2>2, <2>3, <2>4 DEF Ends
<1>7. SuccessorOpen'
  BY <1>1, IdsApart DEF SuccessorOpen
<1> QED BY <1>5, <1>6, <1>7 DEF KeepsPolls, AttemptsAreFaults, SomePollOpen

\* The tables and the clock pass by the chain; a crash leaves its row running.
LEMMA RestKeepsPolls ==
  ASSUME KeptInv, ChainInv',
         \/ Crash
         \/ /\ wk' = wk /\ faults' = faults
            /\ \A j \in Ids : task'[j].attempts = task[j].attempts /\ task'[j].status = task[j].status
  PROVE  KeepsPolls
<1>1. \A j \in SlotPolls : /\ task'[j].attempts = task[j].attempts
                           /\ IsOpen(task'[j]) <=> IsOpen(task[j])
  BY IdsApart DEF Crash, IsOpen
<1>2. CASE Crash
  <2>1. wk'.task = NoTask /\ faults' = faults + 1
    BY <1>2, WorkerRows DEF Crash
  <2>2. ASSUME NEW j \in SlotPolls, IsOpen(task'[j])
        PROVE  task'[j].attempts <= faults' + (IF wk'.task = j THEN 1 ELSE 0)
    BY <1>1, <2>1, <2>2, AttemptsAndFaults, IdsApart DEF KeptInv, AttemptsAreFaults
  <2>3. SuccessorOpen'
    BY <2>1, IdsApart DEF SuccessorOpen
  <2> QED BY <1>1, <2>2, <2>3 DEF KeepsPolls, AttemptsAreFaults, SomePollOpen
<1>3. CASE wk' = wk /\ faults' = faults
  BY <1>1, <1>3 DEF KeptInv, KeepsPolls, SuccessorOpen, AttemptsAreFaults, SomePollOpen
<1> QED BY <1>2, <1>3

LEMMA NextKeepsPolls ==
  ASSUME KeptInv, Next
  PROVE  KeepsPolls
<1>1. ChainInv'
  BY ChainStep DEF KeptInv
<1>2. CASE Queues
  BY <1>2, QueuesKeepPolls
<1>3. CASE Ends
  BY <1>3, EndsKeepsPolls
<1>4. CASE Crash
  BY <1>1, <1>4, RestKeepsPolls
<1>5. CASE Tick
  BY <1>1, <1>5, RestKeepsPolls DEF Tick
<1>6. ASSUME NEW i \in Ids, Claim(i) PROVE KeepsPolls
  BY <1>6, ClaimKeepsPolls
<1>7. ASSUME NEW i \in Ids, Passes(i) PROVE KeepsPolls
  BY <1>1, <1>7, RestStaysTyped, PassesKeepsChain, RestKeepsPolls DEF KeptInv
<1>8. CASE Sweep
  BY <1>8, RestStaysTyped, SweepKeepsPolls DEF KeptInv
<1> QED BY <1>2, <1>3, <1>4, <1>5, <1>6, <1>7, <1>8 DEF Next, WorkerStep, Queues, Ends

\* "a poll that fails cannot end the chain" (schedule.py), as far as it holds: whatever
\* polls, pages, crashes, retries and connection changes come between, and for any
\* number of failures, the last scheduled poll ends without a successor only when its
\* own first transaction stopped it, or out of attempts with the last attempt lost, by
\* a failure before that transaction committed or by a crash and the sweep, after at
\* least as many failures as a task has attempts.
THEOREM PollFailuresKeepChain == Spec => FailureKeepsChain
<1>1. Init => KeptInv
  <2> SUFFICES ASSUME Init PROVE KeptInv
    OBVIOUS
  <2>1. ChainInv
    BY ChainStart
  <2>2. wk.task = NoTask /\ \A i \in SlotPolls : ~IsOpen(task[i])
    <3>1. AbsentRow.status = "absent"
      BY DEF AbsentRow
    <3> QED BY <3>1, WorkerRows, IdsApart DEF Init, IsOpen
  <2> QED BY <2>1, <2>2, IdsApart DEF KeptInv, SuccessorOpen, AttemptsAreFaults
<1>2. KeptInv /\ [Next]_vars => KeptInv'
  <2>1. CASE KeptInv /\ Next
    BY <2>1, ChainStep, NextKeepsPolls DEF KeptInv, KeepsPolls
  <2>2. CASE KeptInv /\ UNCHANGED vars
    BY <2>2 DEF KeptInv, ChainInv, TypeOK, InHand, SlotsOnGrid, SuccessorOpen, AttemptsAreFaults, vars
  <2> QED BY <2>1, <2>2
<1>3. KeptInv /\ [Next]_vars
        => [OpenIn(task, SlotPolls) # {} /\ OpenIn(task', SlotPolls) = {} =>
              \/ wk.stops
              \/ faults' >= MaxAttempts /\ \E i \in OpenIn(task, SlotPolls) : OutOfAttempts(i)]_vars
  <2>1. CASE KeptInv /\ Next
    BY <2>1, NextKeepsPolls DEF KeepsPolls, SomePollOpen, PollGivenUp, OpenIn
  <2>2. CASE UNCHANGED vars
    BY <2>2
  <2> QED BY <2>1, <2>2
<1> QED BY <1>1, <1>2, <1>3, PTL DEF Spec, FailureKeepsChain
================================================================================
