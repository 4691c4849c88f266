----------------------------- MODULE QboConnect -----------------------------
(***************************************************************************)
(* The link between companies and QuickBooks: connect, callback and        *)
(* disconnect (integrations/qbo/connect.py), the access token refreshed    *)
(* under a row lock (tokens.py, ingest/connections.py), the reader of a    *)
(* poll (reader.py, tasks.py) and Intuit's webhook and disconnect page     *)
(* (webhooks.py, api/qbo.py).  Every session of the code is one action;    *)
(* the two that call Intuit inside a session hold the connection row's     *)
(* lock across the call.  Intuit is external: it keeps the refresh tokens  *)
(* it accepts and replaces one at every refresh, also when its answer is   *)
(* lost on the way back and the client repeats the request.                *)
(***************************************************************************)
EXTENDS Naturals, FiniteSets, Sequences

CONSTANTS Tenant, Realm, User, Browser, Reader, MaxStates, MaxTokens, Nil

VARIABLES
    conn,     \* [Tenant -> [status, realm, token, fresh, other, state, by]]: the connection row
    lock,     \* [Tenant -> Reader or Nil]: FOR UPDATE held across a call to Intuit
    admin,    \* users who are firm_admin
    states,   \* number of state values issued; a value names its tenant
    callback, \* [Browser -> a callback in flight] or Nil
    tokens,   \* the companies of the refresh tokens Intuit has issued, a sequence
    valid,    \* the ones it accepts
    reader,   \* [Reader -> a read in flight] or Nil
    poll,     \* companies with a queued change poll
    records,  \* [Tenant -> the QuickBooks companies whose records it holds]
    lostAt,   \* ghost: tenants whose token Intuit withdrew or replaced unseen, or which
              \* the settings the server was started with cannot use
    crossed   \* ghost: tenants whose company changed under a read or a callback

conVars == <<conn, lock, admin, states, callback, tokens, valid, reader, poll, records, lostAt, crossed>>
intuit == <<tokens, valid>>

\* connection, as far as the properties tell it apart; a token is its number, 0 when
\* there is none or it cannot be decrypted; other: made with the keys of the other
\* Intuit environment than the server's.
ConnectionRow == [status : {"disconnected", "connected", "needs_reconnect"}, realm : Realm \cup {Nil},
                  token : 0..MaxTokens, fresh : BOOLEAN, other : BOOLEAN, state : 0..MaxStates,
                  by : User \cup {Nil}]

\* A callback in flight, with what its first session saw; and a read in flight.
CallbackRow == [step : {"check", "exchange", "verify", "store"}, tenant : Tenant, realm : Realm,
                user : User \cup {Nil}, seen : Realm \cup {Nil},
                status : {"disconnected", "connected", "needs_reconnect"},
                held : SUBSET Realm, token : 0..MaxTokens]
ReadRow == [step : {"refresh", "commit", "get", "rows"}, tenant : Tenant, realm : Realm,
            token : 0..MaxTokens, again : BOOLEAN]

ASSUME ConnectAssumption ==
    /\ MaxStates \in Nat /\ MaxTokens \in Nat
    /\ Nil \notin Realm \cup Reader \cup CallbackRow \cup ReadRow

ConnectInit ==
    /\ conn = [t \in Tenant |-> [status |-> "disconnected", realm |-> Nil, token |-> 0,
                                 fresh |-> FALSE, other |-> FALSE, state |-> 0, by |-> Nil]]
    /\ lock = [t \in Tenant |-> Nil] /\ admin = User /\ states = 0
    /\ callback = [b \in Browser |-> Nil]
    /\ tokens = << >> /\ valid = {}
    /\ reader = [r \in Reader |-> Nil] /\ poll = {}
    /\ records = [t \in Tenant |-> {}] /\ lostAt = {} /\ crossed = {}

\* Intuit answers a code or a refresh with a new refresh token of the company.
Issue(r) == Len(tokens) < MaxTokens /\ tokens' = Append(tokens, r)
NewToken == Len(tokens) + 1

\* client.exchange_code and refresh_tokens, by _send: what the tries of one grant come
\* to.  A try whose answer is lost has replaced the token at Intuit all the same, and
\* the next try sends the same grant: it is "spent" and refused, or no try is answered
\* and what Intuit did is "unseen".
TokenAnswers(accepted) ==
    {"unavailable"} \cup (IF accepted THEN {"tokens", "spent", "unseen"} ELSE {"refused"})

\* client.revoke: Intuit confirms it, or did not and the token still works.
Revoked(tok) == {valid \ {tok}, valid}

\* client.api_get: 401 without an accepted token of the company.
Authorized(r) == \E i \in valid : tokens[i] = r

\* set_connection_tokens, mark_needs_reconnect and mark_disconnected: the row written.
TokensSet(c, r, tok) == [c EXCEPT !.status = "connected", !.realm = r, !.token = tok, !.fresh = TRUE,
                                !.other = FALSE]
NeedsReconnect(c) == [c EXCEPT !.status = "needs_reconnect", !.token = 0, !.fresh = FALSE]
Disconnected(c) == [c EXCEPT !.status = "disconnected", !.token = 0, !.fresh = FALSE,
                             !.state = 0, !.by = Nil]

----------------------------------------------------------------------------
(* Connecting.                                                              *)

\* start_connect: a fresh pending state replaces any earlier one.
StartConnect(t, u) ==
    /\ u \in admin /\ states < MaxStates /\ lock[t] = Nil
    /\ states' = states + 1
    /\ conn' = [conn EXCEPT ![t].state = states + 1, ![t].by = u]
    /\ UNCHANGED <<lock, admin, callback, intuit, reader, poll, records, lostAt, crossed>>

\* The pending state runs out.
ExpireState(t) ==
    /\ conn[t].state # 0
    /\ conn' = [conn EXCEPT ![t].state = 0, ![t].by = Nil]
    /\ UNCHANGED <<lock, admin, states, callback, intuit, reader, poll, records, lostAt, crossed>>

\* _claim_state: the state is used up in a session of its own, whatever follows;
\* an unknown, used or expired one changes nothing.  A session cookie of another
\* user and a cancelled sign-in end here.
ClaimState(b, t, r) ==
    /\ callback[b] = Nil /\ conn[t].state # 0 /\ lock[t] = Nil
    /\ conn' = [conn EXCEPT ![t].state = 0, ![t].by = Nil]
    /\ \/ callback' = [callback EXCEPT ![b] =
             [step |-> "check", tenant |-> t, realm |-> r, user |-> conn[t].by,
              seen |-> conn[t].realm, status |-> conn[t].status, held |-> {}, token |-> 0]]
       \/ UNCHANGED callback
    /\ UNCHANGED <<lock, admin, states, intuit, reader, poll, records, lostAt, crossed>>

\* Faulty: a company that was disconnected may always be replaced.
BadMayConnect(c) ==
    /\ c.user \in admin
    /\ c.seen \notin {Nil, c.realm} => c.status = "disconnected"

\* The starter is still firm_admin, and a different company is refused on a
\* reconnect, and after a disconnect once QuickBooks records are held.
MayConnect(c) ==
    /\ c.user \in admin
    /\ c.seen \notin {Nil, c.realm} => c.status = "disconnected" /\ records[c.tenant] = {}

\* The checks, made with what the claim saw.
CheckCallback(b) ==
    LET c == callback[b] IN
    /\ c # Nil /\ c.step = "check"
    /\ callback' = [callback EXCEPT ![b] = 
         IF MayConnect(c) THEN [c EXCEPT !.step = "exchange", !.held = records[c.tenant]] ELSE Nil]
    /\ UNCHANGED <<conn, lock, admin, states, intuit, reader, poll, records, lostAt, crossed>>

\* exchange_code: the code is refused or Intuit cannot be reached, and the flow
\* ends, or tokens come; tokens in a lost answer are nobody's.
Exchange(b) ==
    LET c == callback[b] IN
    /\ c # Nil /\ c.step = "exchange"
    /\ \E accepted \in BOOLEAN : \E answer \in TokenAnswers(accepted) :
         /\ IF answer \in {"tokens", "spent", "unseen"}
            THEN Issue(c.realm) /\ valid' = valid \cup {NewToken} ELSE UNCHANGED intuit
         /\ callback' = [callback EXCEPT ![b] =
              IF answer = "tokens" THEN [c EXCEPT !.step = "verify", !.token = NewToken] ELSE Nil]
    /\ UNCHANGED <<conn, lock, admin, states, reader, poll, records, lostAt, crossed>>

\* CompanyInfo confirms the company of the redirect; when it cannot be read the
\* tokens are revoked and the flow ends.
VerifyCompany(b) ==
    LET c == callback[b] IN
    /\ c # Nil /\ c.step = "verify"
    /\ \/ /\ Authorized(c.realm)
          /\ callback' = [callback EXCEPT ![b] = [c EXCEPT !.step = "store"]] /\ UNCHANGED valid
       \/ callback' = [callback EXCEPT ![b] = Nil] /\ valid' \in Revoked(c.token)
    /\ UNCHANGED <<conn, lock, admin, states, tokens, reader, poll, records, lostAt, crossed>>

\* What the checks saw is stale: a read of another company is under way, or
\* the company or the records have changed since.
Underway(t, r, b) ==
    \/ \E x \in Reader : reader[x] # Nil /\ reader[x].tenant = t /\ reader[x].realm # r
    \/ conn[t].realm # callback[b].seen
    \/ records[t] # callback[b].held

\* The last session: tokens, company and schedule commit together; the unique
\* index refuses a company another tenant holds and the tokens are revoked.
StoreConnection(b) ==
    LET c == callback[b]
        t == c.tenant
    IN /\ c # Nil /\ c.step = "store" /\ lock[t] = Nil
       /\ callback' = [callback EXCEPT ![b] = Nil]
       /\ IF \E s \in Tenant \ {t} : conn[s].realm = c.realm
          THEN valid' \in Revoked(c.token) /\ UNCHANGED <<conn, poll, lostAt, crossed>>
          ELSE /\ conn' = [conn EXCEPT ![t] = TokensSet(@, c.realm, c.token)]
               /\ poll' = poll \cup {t}
               /\ lostAt' = IF c.token \in valid THEN lostAt \ {t} ELSE lostAt \cup {t}
               /\ crossed' = IF Underway(t, c.realm, b) THEN crossed \cup {t} ELSE crossed
               /\ UNCHANGED valid
       /\ UNCHANGED <<lock, admin, states, tokens, reader, records>>

\* The request dies, or the browser never comes back.
DropCallback(b) ==
    /\ callback[b] # Nil
    /\ callback' = [callback EXCEPT ![b] = Nil]
    /\ UNCHANGED <<conn, lock, admin, states, intuit, reader, poll, records, lostAt, crossed>>

\* disconnect: revoked at Intuit when it answers, cleared here either way; the
\* company link and the records stay.
Disconnect(t) ==
    /\ conn[t].status # "disconnected" /\ lock[t] = Nil
    /\ valid' \in Revoked(conn[t].token)
    /\ conn' = [conn EXCEPT ![t] = Disconnected(@)]
    /\ UNCHANGED <<lock, admin, states, callback, tokens, reader, poll, records, lostAt, crossed>>

\* A firm admin loses the role.
LoseRole(u) ==
    /\ u \in admin /\ admin # {u}
    /\ admin' = admin \ {u}
    /\ UNCHANGED <<conn, lock, states, callback, intuit, reader, poll, records, lostAt, crossed>>

----------------------------------------------------------------------------
(* Reading: a poll asks for the access token, then for the records.         *)

\* The access token's hour is over.
ExpireAccess(t) ==
    /\ conn[t].fresh /\ lock[t] = Nil
    /\ conn' = [conn EXCEPT ![t].fresh = FALSE]
    /\ UNCHANGED <<lock, admin, states, callback, intuit, reader, poll, records, lostAt, crossed>>

\* access_for under the row lock: a connection of the other environment, or whose
\* tokens cannot be decrypted, needs a reconnect; a fresh token is used as it is;
\* otherwise the lock stays held while Intuit is asked.  The queued poll is taken.
AccessFor(x, t) ==
    /\ reader[x] = Nil /\ t \in poll /\ lock[t] = Nil
    /\ poll' = poll \ {t}
    /\ IF conn[t].status # "connected" THEN UNCHANGED <<conn, reader, lock>>
       ELSE IF conn[t].other \/ conn[t].token = 0
       THEN conn' = [conn EXCEPT ![t] = NeedsReconnect(@)] /\ UNCHANGED <<reader, lock>>
       ELSE /\ reader' = [reader EXCEPT ![x] =
                 [step |-> IF conn[t].fresh THEN "get" ELSE "refresh", tenant |-> t,
                  realm |-> conn[t].realm, token |-> conn[t].token, again |-> FALSE]]
            /\ lock' = IF conn[t].fresh THEN lock ELSE [lock EXCEPT ![t] = x]
            /\ UNCHANGED conn
    /\ UNCHANGED <<admin, states, callback, intuit, records, lostAt, crossed>>

\* client.refresh_tokens: Intuit replaces the token it accepts.  With the answer the
\* pair is stored next; invalid_grant, at once or to the try after a lost answer,
\* needs a reconnect; when no try is answered the session rolls back and the row
\* keeps the token it had.
AskIntuit(x) ==
    LET q == reader[x]
        t == q.tenant
    IN /\ q # Nil /\ q.step = "refresh"
       /\ \E answer \in TokenAnswers(conn[t].token \in valid) :
          /\ IF answer \in {"tokens", "spent", "unseen"}
             THEN Issue(q.realm) /\ valid' = (valid \ {conn[t].token}) \cup {NewToken}
             ELSE UNCHANGED intuit
          /\ IF answer = "tokens"
             THEN /\ reader' = [reader EXCEPT ![x] = [q EXCEPT !.step = "commit", !.token = NewToken]]
                  /\ UNCHANGED <<conn, lock>>
             ELSE /\ conn' = IF answer \in {"refused", "spent"}
                             THEN [conn EXCEPT ![t] = NeedsReconnect(@)] ELSE conn
                  /\ reader' = [reader EXCEPT ![x] = Nil] /\ lock' = [lock EXCEPT ![t] = Nil]
          /\ lostAt' = IF answer \in {"spent", "unseen"} THEN lostAt \cup {t} ELSE lostAt
       /\ UNCHANGED <<admin, states, callback, poll, records, crossed>>

\* store_refreshed_tokens: both tokens commit before any API call is made.
StoreRefreshed(x) ==
    LET q == reader[x] IN
    /\ q # Nil /\ q.step = "commit"
    /\ conn' = [conn EXCEPT ![q.tenant] = [@ EXCEPT !.token = q.token, !.fresh = TRUE]]
    /\ lock' = [lock EXCEPT ![q.tenant] = Nil]
    /\ reader' = [reader EXCEPT ![x] = [q EXCEPT !.step = "get"]]
    /\ UNCHANGED <<admin, states, callback, intuit, poll, records, lostAt, crossed>>

\* CompanyReader.get: an answer, or a 401 that causes one refresh and one retry.
Get(x) ==
    LET q == reader[x]
        t == q.tenant
        works == Authorized(q.realm)
    IN /\ q # Nil /\ q.step = "get"
       /\ \/ works /\ reader' = [reader EXCEPT ![x] = [q EXCEPT !.step = "rows"]] /\ UNCHANGED lock
          \/ /\ ~works /\ ~q.again /\ lock[t] = Nil
             /\ IF conn[t].status = "connected"
                THEN /\ lock' = [lock EXCEPT ![t] = x]
                     /\ reader' = [reader EXCEPT ![x] = [q EXCEPT !.step = "refresh", !.again = TRUE,
                                                                  !.realm = conn[t].realm]]
                ELSE reader' = [reader EXCEPT ![x] = Nil] /\ UNCHANGED lock
          \/ ~works /\ q.again /\ reader' = [reader EXCEPT ![x] = Nil] /\ UNCHANGED lock
       /\ UNCHANGED <<conn, admin, states, callback, intuit, poll, records, lostAt, crossed>>

\* The page's records are stored in a session of their own.
StoreRows(x) ==
    LET q == reader[x] IN
    /\ q # Nil /\ q.step = "rows"
    /\ records' = [records EXCEPT ![q.tenant] = @ \cup {q.realm}]
    /\ reader' = [reader EXCEPT ![x] = Nil]
    /\ UNCHANGED <<conn, lock, admin, states, callback, intuit, poll, lostAt, crossed>>

\* The worker dies: its lock is gone, and a refresh Intuit answered is lost.
CrashReader(x) ==
    LET q == reader[x] IN
    /\ q # Nil
    /\ lostAt' = IF q.step = "commit" THEN lostAt \cup {q.tenant} ELSE lostAt
    /\ lock' = [t \in Tenant |-> IF lock[t] = x THEN Nil ELSE lock[t]]
    /\ reader' = [reader EXCEPT ![x] = Nil]
    /\ UNCHANGED <<conn, admin, states, callback, intuit, poll, records, crossed>>

\* The row under settings that changed: the server's keys became the other
\* environment's, or the key ring no longer decrypts what is stored.
OtherKeys(c) == IF c.realm = Nil THEN c ELSE [c EXCEPT !.other = ~@]
OtherRing(c) == [c EXCEPT !.token = 0, !.fresh = FALSE]

\* The server is started again with such settings; what was in flight is gone.
StartWithOtherSettings ==
    /\ \/ conn' = [t \in Tenant |-> OtherKeys(conn[t])]
       \/ conn' = [t \in Tenant |-> OtherRing(conn[t])]
    /\ lostAt' = lostAt \cup {t \in Tenant : conn'[t].other \/ conn'[t].token # conn[t].token}
                       \cup {reader[x].tenant : x \in {y \in Reader : reader[y] # Nil /\ reader[y].step = "commit"}}
    /\ lock' = [t \in Tenant |-> Nil]
    /\ reader' = [x \in Reader |-> Nil] /\ callback' = [b \in Browser |-> Nil]
    /\ UNCHANGED <<admin, states, intuit, poll, records, crossed>>

----------------------------------------------------------------------------
(* What comes from Intuit.                                                  *)

\* The company is disconnected at Intuit.
RevokeAtIntuit(r) ==
    /\ Authorized(r)
    /\ valid' = {i \in valid : tokens[i] # r}
    /\ lostAt' = lostAt \cup {t \in Tenant : conn[t].realm = r}
    /\ UNCHANGED <<conn, lock, admin, states, callback, tokens, reader, poll, records, crossed>>

\* webhooks.dispatch for a stored delivery or the disconnect page: the tenant
\* that holds the company gets one poll while it is connected.
Dispatch(t) ==
    /\ lock[t] = Nil /\ conn[t].realm # Nil /\ conn[t].status = "connected" /\ t \notin poll
    /\ poll' = poll \cup {t}
    /\ UNCHANGED <<conn, lock, admin, states, callback, intuit, reader, records, lostAt, crossed>>

----------------------------------------------------------------------------
ReadStep(x) == \/ \E t \in Tenant : AccessFor(x, t)
               \/ AskIntuit(x) \/ StoreRefreshed(x) \/ Get(x) \/ StoreRows(x)

ConnectNext ==
    \/ \E t \in Tenant, u \in User : StartConnect(t, u)
    \/ \E t \in Tenant : ExpireState(t) \/ Disconnect(t) \/ ExpireAccess(t) \/ Dispatch(t)
    \/ \E b \in Browser, t \in Tenant, r \in Realm : ClaimState(b, t, r)
    \/ \E b \in Browser : CheckCallback(b) \/ Exchange(b) \/ VerifyCompany(b) \/ StoreConnection(b)
                        \/ DropCallback(b)
    \/ \E u \in User : LoseRole(u)
    \/ \E x \in Reader : ReadStep(x) \/ CrashReader(x)
    \/ \E r \in Realm : RevokeAtIntuit(r)
    \/ StartWithOtherSettings

ConnectSpec == ConnectInit /\ [][ConnectNext]_conVars

----------------------------------------------------------------------------
ConnectTypeOK ==
    /\ conn \in [Tenant -> ConnectionRow]
    /\ lock \in [Tenant -> Reader \cup {Nil}] /\ admin \subseteq User
    /\ states \in 0..MaxStates /\ callback \in [Browser -> CallbackRow \cup {Nil}]
    /\ tokens \in Seq(Realm) /\ Len(tokens) <= MaxTokens /\ valid \subseteq 1..Len(tokens)
    /\ reader \in [Reader -> ReadRow \cup {Nil}] /\ poll \subseteq Tenant
    /\ records \in [Tenant -> SUBSET Realm] /\ lostAt \subseteq Tenant /\ crossed \subseteq Tenant

\* A connected company's stored refresh token is one Intuit still accepts, and
\* a connection is put to "needs reconnect" only if Intuit withdrew the token, its
\* answer with the next one was lost (on the way, or in a worker that died before
\* the commit), or the server was started with settings that cannot use it: two
\* polls that find the access token expired never spend one refresh token twice.
TokenKept ==
    \A t \in Tenant :
        /\ conn[t].status = "connected" =>
             \/ conn[t].token \in valid \/ t \in lostAt
             \/ \E x \in Reader : lock[t] = x /\ reader[x].step = "commit" /\ reader[x].token \in valid
        /\ conn[t].status = "needs_reconnect" => t \in lostAt

\* A tenant holds the records of one QuickBooks company (ids are small integers
\* per company, so a second company's would become versions of the first's),
\* unless the company changed while a read or another callback was under way.
OneCompanyHeld ==
    \A t \in Tenant \ crossed :
        Cardinality(records[t]) <= 1
        /\ (records[t] # {} /\ conn[t].status = "connected" => records[t] = {conn[t].realm})

\* The connection, Intuit's tokens and the records of each tenant agree
\* (connect.py complete_connect, tokens.py access_for).
ConnectionsAgree == ConnectTypeOK /\ TokenKept /\ OneCompanyHeld
=============================================================================
