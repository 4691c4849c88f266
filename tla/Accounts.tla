------------------------------ MODULE Accounts ------------------------------
(***************************************************************************)
(* One person's account: password, lockout, TOTP, recovery codes, the      *)
(* activation link and the sessions of the person's browsers               *)
(* (auth/service.py, core/auth.py, core/throttle.py, api/auth.py).         *)
(*                                                                         *)
(* A request is one READ COMMITTED transaction.  It reads the user row     *)
(* without a lock (an operation of this module starts) and when it commits *)
(* writes the columns that differ from what it read over whatever is there *)
(* by then (Flush).  Only start_totp_enrolment locks the row.  Requests    *)
(* that are refused and write nothing but an audit row change nothing      *)
(* here; the rows of failures are counted by the throttle, at the end.     *)
(***************************************************************************)
EXTENDS Naturals, FiniteSets

CONSTANTS Window,      \* browsers the person uses
          Admin,       \* the administrator who resets and issues links
          MaxFails,    \* login_lockout_attempts
          RecoveryCode, MaxTick, MaxEra,
          Caller, Threshold,   \* the throttle
          Free

ASSUME AccountAssumption ==
    /\ MaxFails \in Nat \ {0} /\ MaxTick \in Nat \ {0} /\ MaxEra \in Nat
    /\ IsFiniteSet(Window) /\ Admin \notin Window
ASSUME ThrottleAssumption ==
    /\ Threshold \in Nat /\ IsFiniteSet(Caller) /\ Caller # {}
    /\ Free \notin {"admitted", "mark", "refused"}

VARIABLES
    user,     \* the user row
    isFirm,   \* the person has a firm membership
    held,     \* [Window -> the session of the browser's cookie, or Free]
    asks,     \* [Window and Admin -> the transaction under way, or Free]
    tick,     \* the current TOTP time step
    era,      \* ghost: changes so far that end the person's sessions
    taken,    \* ghost: codes and links accepted so far
    torn,     \* ghost: a request wrote over a row that changed since it read it
    again,    \* ghost: something accepted was accepted before the request began
    failRows, markRows,  \* login_failure and ip_throttled rows of one address in the window
    trying    \* [Caller -> what the throttle saw, or Free]

accountVars == <<user, isFirm, held, asks, tick, era, taken, torn, again>>
throttleVars == <<failRows, markRows, trying>>
peopleVars == <<accountVars, throttleVars>>

\* MaxEra bounds when a change starts; those under way may each add one.
Eras == 0..(MaxEra + Cardinality(Window) + 1)

\* lock and span are timestamps: none, one that is over, or one in force.
UserRow == [password : Eras, count : 0..MaxFails, span : {"none", "over", "open"},
            lock : {"none", "over", "locked"}, secret : Eras, enrolled : BOOLEAN,
            last : 0..(MaxTick + 1), codes : SUBSET RecoveryCode, link : Eras, live : BOOLEAN]
SessionRow == [verified : BOOLEAN, limited : BOOLEAN, era : Eras, late : BOOLEAN]

\* A new account has no password and one activation link; an activated one has
\* used it, and has enrolled a second factor if a firm user.
NewUser == [password |-> 0, count |-> 0, span |-> "none", lock |-> "none", secret |-> 0,
            enrolled |-> FALSE, last |-> 0, codes |-> {}, link |-> 1, live |-> TRUE]
ActiveUser == [NewUser EXCEPT !.password = 1, !.link = 0, !.live = FALSE]
EnrolledUser == [ActiveUser EXCEPT !.secret = 1, !.enrolled = TRUE, !.codes = RecoveryCode]

AccountInit ==
    /\ isFirm \in BOOLEAN
    /\ user \in {NewUser, EnrolledUser} \cup (IF isFirm THEN {} ELSE {ActiveUser})
    /\ held = [w \in Window |-> Free]
    /\ asks = [x \in Window \cup {Admin} |-> Free]
    /\ tick = 1 /\ era = 1 /\ taken = {} /\ torn = FALSE /\ again = FALSE

----------------------------------------------------------------------------
(* The row after a failure, a success and a cleared enrolment.              *)

\* _record_failure: a window that is over starts again; the last attempt locks.
RecordFailure(u) ==
    LET n == IF u.span = "open" THEN u.count + 1 ELSE 1 IN
    IF n >= MaxFails THEN [u EXCEPT !.count = 0, !.span = "none", !.lock = "locked"]
    ELSE [u EXCEPT !.count = n, !.span = "open"]

ClearFailures(u) == [u EXCEPT !.count = 0, !.span = "none", !.lock = "none"]

\* _clear_pending_totp: no-op once enrolled.
ClearPendingTotp(u) == IF u.enrolled THEN u ELSE [u EXCEPT !.secret = 0, !.last = 0]

\* _set_password uses up the link.
SetPassword(u) == [ClearFailures(u) EXCEPT !.password = era + 1, !.link = 0, !.live = FALSE]

\* totp_state: what the session may do.
Usable(s) == s.verified \/ ~(user.enrolled \/ isFirm)

----------------------------------------------------------------------------
(* Transactions.                                                            *)

NoSession == [verified |-> FALSE, limited |-> FALSE, era |-> 0, late |-> FALSE]

\* new: the row it will write; ends: the session of its own cookie or all of
\* the person's; opens: the session it creates; accepts: the code or link it took.
Ask(x, new, ends, opens, accepts) ==
    /\ asks[x] = Free
    /\ asks' = [asks EXCEPT ![x] = [old |-> user, new |-> new, ends |-> ends, opens |-> opens,
                                    accepts |-> accepts, era |-> era, seen |-> accepts \in taken]]
    /\ UNCHANGED <<user, isFirm, held, tick, era, taken, torn, again>>

\* Faulty: the sessions of the other browsers go on.
BadEnded(ends, x) ==
    IF ends = "none" \/ x \notin Window THEN held ELSE [held EXCEPT ![x] = Free]

\* delete_user_sessions, or the deletion of the cookie's own row.
Ended(ends, x) ==
    CASE ends = "all" -> [w \in Window |-> Free]
      [] ends = "own" -> [held EXCEPT ![x] = Free]
      [] OTHER -> held

\* The changed columns are written over the committed row; sessions committed
\* by now are ended; a session it opens is late when they were ended meanwhile.
Flush(x) ==
    LET q == asks[x]
        after == IF q.ends = "all" THEN era + 1 ELSE era
    IN /\ q # Free
       /\ asks' = [asks EXCEPT ![x] = Free]
       /\ user' = [c \in DOMAIN user |-> IF q.new[c] # q.old[c] THEN q.new[c] ELSE user[c]]
       /\ era' = after
       /\ held' = IF q.opens = Free THEN Ended(q.ends, x)
                  ELSE [Ended(q.ends, x) EXCEPT ![x] =
                          [q.opens EXCEPT !.era = IF q.ends = "all" THEN after ELSE q.era,
                                          !.late = @ \/ (q.ends # "all" /\ q.era # era)]]
       /\ torn' = (torn \/ (q.new # q.old /\ q.old # user))
       /\ again' = (again \/ q.seen)
       /\ taken' = IF q.accepts = Free THEN taken ELSE taken \cup {q.accepts}
       /\ UNCHANGED <<isFirm, tick>>

\* A session is rotated: a new row, verified; the enrolment's has a full life.
Rotated(w, fresh) ==
    [held[w] EXCEPT !.verified = TRUE, !.limited = IF fresh THEN FALSE ELSE @]

\* _verified_session: what the code wrote, and the session rotated.
VerifiedSession(w, u, fresh, accepts) == Ask(w, u, "own", Rotated(w, fresh), accepts)

----------------------------------------------------------------------------
(* Signing in.                                                              *)

\* login: refused while locked; a wrong password is a failure; a firm user
\* without TOTP is refused; else failures and a pending secret are cleared.
Login(w, right) ==
    /\ user.lock # "locked"
    /\ \/ ~right /\ Ask(w, RecordFailure(user), "none", Free, Free)
       \/ /\ right /\ user.password # 0 /\ (isFirm => user.enrolled)
          /\ Ask(w, ClearPendingTotp(ClearFailures(user)), "own", NoSession, Free)

Logout(w) ==
    /\ held[w] # Free /\ asks[w] = Free
    /\ held' = [held EXCEPT ![w] = Free]
    /\ UNCHANGED <<user, isFirm, asks, tick, era, taken, torn, again>>

\* start_totp_enrolment under the row lock: a pending secret is shown again.
StartTotpEnrolment(w) ==
    /\ held[w] # Free /\ asks[w] = Free /\ ~user.enrolled /\ user.secret = 0
    /\ user' = [user EXCEPT !.secret = era, !.last = 0]
    /\ UNCHANGED <<isFirm, held, asks, tick, era, taken, torn, again>>

\* match_totp: the code of the step before, the current or the next one.
MatchTotp == {c \in 1..(MaxTick + 1) : c >= tick - 1 /\ c <= tick + 1}

\* _accept_code: a step is accepted once, and none before it.
AcceptCode(c) == c \in MatchTotp /\ c > user.last

\* confirm_totp_enrolment.
ConfirmTotpEnrolment(w, c) ==
    /\ held[w] # Free /\ ~user.enrolled /\ user.secret # 0 /\ user.lock # "locked"
    /\ IF AcceptCode(c)
       THEN VerifiedSession(w, [ClearFailures(user) EXCEPT !.last = c, !.enrolled = TRUE,
                                                         !.codes = RecoveryCode],
                            TRUE, <<"totp", user.secret, c>>)
       ELSE Ask(w, RecordFailure(user), "none", Free, Free)

\* verify_totp; an enrolment without a secret is refused.
VerifyTotp(w, c) ==
    /\ held[w] # Free /\ user.enrolled /\ user.secret # 0 /\ user.lock # "locked"
    /\ IF AcceptCode(c)
       THEN VerifiedSession(w, [ClearFailures(user) EXCEPT !.last = c], FALSE,
                            <<"totp", user.secret, c>>)
       ELSE Ask(w, RecordFailure(user), "none", Free, Free)

\* use_recovery_code.
UseRecoveryCode(w, r) ==
    /\ held[w] # Free /\ user.enrolled /\ user.lock # "locked"
    /\ IF r \in user.codes
       THEN VerifiedSession(w, [ClearFailures(user) EXCEPT !.codes = @ \ {r}], FALSE,
                            <<"code", user.secret, r>>)
       ELSE Ask(w, RecordFailure(user), "none", Free, Free)

----------------------------------------------------------------------------
(* Changing credentials: each ends every session of the person.             *)

\* change_password, with the right current one; a wrong one counts nothing.
ChangePassword(w) ==
    /\ held[w] # Free /\ user.password # 0 /\ era < MaxEra
    /\ Ask(w, SetPassword(user), "all", Free, Free)

\* issue_activation_link replaces an earlier link.
Linked(u) == [ClearPendingTotp(u) EXCEPT !.link = era + 1, !.live = TRUE]
IssueActivationLink == era < MaxEra /\ Ask(Admin, Linked(user), "all", Free, Free)

\* reset_totp_and_issue_link.
ResetTotp ==
    /\ era < MaxEra /\ user.enrolled
    /\ Ask(Admin, Linked([user EXCEPT !.secret = 0, !.enrolled = FALSE, !.last = 0, !.codes = {}]),
           "all", Free, Free)

\* redeem_activation_link: the link in force, not expired; a firm user without
\* TOTP gets a session that can only enrol.
RedeemActivationLink(w) ==
    /\ user.link # 0 /\ user.live /\ era < MaxEra
    /\ Ask(w, ClearPendingTotp(SetPassword(user)), "all",
           IF isFirm /\ ~user.enrolled THEN [NoSession EXCEPT !.limited = TRUE] ELSE Free,
           <<"link", user.link>>)

\* create_firm_membership.
BecomesFirm ==
    /\ ~isFirm /\ era < MaxEra /\ asks[Admin] = Free
    /\ isFirm' = TRUE /\ era' = era + 1
    /\ held' = [w \in Window |-> Free]
    /\ UNCHANGED <<user, asks, tick, taken, torn, again>>

----------------------------------------------------------------------------
(* Time.                                                                    *)

SessionExpires(w) ==
    /\ held[w] # Free /\ held' = [held EXCEPT ![w] = Free]
    /\ UNCHANGED <<user, isFirm, asks, tick, era, taken, torn, again>>
TimePasses ==
    /\ \/ user.lock = "locked" /\ user' = [user EXCEPT !.lock = "over"] /\ UNCHANGED tick
       \/ user.span = "open" /\ user' = [user EXCEPT !.span = "over"] /\ UNCHANGED tick
       \/ user.live /\ user' = [user EXCEPT !.live = FALSE] /\ UNCHANGED tick
       \/ tick < MaxTick /\ tick' = tick + 1 /\ UNCHANGED user
    /\ UNCHANGED <<isFirm, held, asks, era, taken, torn, again>>

AccountNext ==
    \/ \E w \in Window : \/ \E right \in BOOLEAN : Login(w, right)
                         \/ \E c \in MatchTotp : ConfirmTotpEnrolment(w, c) \/ VerifyTotp(w, c)
                         \/ \E r \in RecoveryCode : UseRecoveryCode(w, r)
                         \/ Logout(w) \/ StartTotpEnrolment(w) \/ ChangePassword(w)
                         \/ RedeemActivationLink(w) \/ SessionExpires(w)
    \/ \E x \in Window \cup {Admin} : Flush(x)
    \/ IssueActivationLink \/ ResetTotp \/ BecomesFirm \/ TimePasses

AccountSpec == AccountInit /\ [][AccountNext]_accountVars

----------------------------------------------------------------------------
(* The throttle of one address.                                             *)

ThrottleInit == failRows = 0 /\ markRows = 0 /\ trying = [c \in Caller |-> Free]

\* Faulty: the refusals stop only at one more than the threshold.
BadIsThrottled(c) ==
    /\ trying[c] = Free
    /\ trying' = [trying EXCEPT ![c] = CASE markRows > 0 -> "refused"
                                         [] markRows = 0 /\ failRows > Threshold -> "mark"
                                         [] OTHER -> "admitted"]
    /\ UNCHANGED <<failRows, markRows>>

\* is_throttled: refused while an ip_throttled row is in the window; the first
\* attempt at the threshold writes it.
IsThrottled(c) ==
    /\ trying[c] = Free
    /\ trying' = [trying EXCEPT ![c] = CASE markRows > 0 -> "refused"
                                         [] markRows = 0 /\ failRows >= Threshold -> "mark"
                                         [] OTHER -> "admitted"]
    /\ UNCHANGED <<failRows, markRows>>

\* The request ends: one failure row at most, or the mark, or nothing.
AttemptEnds(c, fails) ==
    /\ trying[c] # Free /\ (fails => trying[c] = "admitted")
    /\ trying' = [trying EXCEPT ![c] = Free]
    /\ failRows' = IF fails THEN failRows + 1 ELSE failRows
    /\ markRows' = IF trying[c] = "mark" THEN markRows + 1 ELSE markRows

\* The rows fall out of the window.
RowsAge ==
    /\ \/ failRows > 0 /\ failRows' = failRows - 1 /\ UNCHANGED markRows
       \/ markRows > 0 /\ markRows' = markRows - 1 /\ UNCHANGED failRows
    /\ UNCHANGED trying

ThrottleNext ==
    \/ \E c \in Caller : IsThrottled(c) \/ \E fails \in BOOLEAN : AttemptEnds(c, fails)
    \/ RowsAge

ThrottleSpec == ThrottleInit /\ [][ThrottleNext]_throttleVars

----------------------------------------------------------------------------
AccountTypeOK ==
    /\ user \in UserRow /\ held \in [Window -> SessionRow \cup {Free}]
    /\ tick \in 1..MaxTick /\ era \in Eras

\* Every session was opened or verified under the credentials and the role in
\* force: a password change, a new link, a reset of TOTP and a firm membership
\* end every earlier session.  Only a request that was already under way when
\* they were ended can leave one behind (no lock is held between the check of
\* a password or code and the insert of the session).
SessionsCurrent ==
    \A w \in Window : held[w] # Free => held[w].late \/ held[w].era = era

\* An enrolment is whole: enrolled with the secret its codes come from, and a
\* verified session belongs to an enrolled person, unless requests overlapped.
EnrolmentWhole ==
    /\ ~torn => (user.enrolled => user.secret # 0)
    /\ ~torn => \A w \in Window :
         held[w] # Free /\ held[w].verified /\ ~held[w].late => user.enrolled

\* A time step, a recovery code and a link are accepted once, unless two
\* requests overlapped: the later write takes back what the earlier used up.
AcceptedOnce == ~torn => ~again

\* A firm user works only in a session verified with a second factor.
FirmVerified ==
    \A w \in Window : held[w] # Free /\ isFirm /\ Usable(held[w]) => held[w].verified

\* The account and its sessions agree (auth/service.py).
AccountsHold == AccountTypeOK /\ SessionsCurrent /\ EnrolmentWhole /\ AcceptedOnce /\ FirmVerified

\* The insert-only table cannot grow without bound from one address: at most
\* one failure row per request admitted before the threshold was seen, and one
\* mark per request that saw it (throttle.py).
ThrottleBounds ==
    /\ failRows <= Threshold + Cardinality(Caller) - 1
    /\ markRows <= Cardinality(Caller)
=============================================================================
