------------------------- MODULE EstimateVersions -------------------------
(* One estimate on one job, from the sheets people upload to the contract   *)
(* figures people read: the versions the normalizer makes                   *)
(* (domain/estimates/normalize.py, versions.py), the kinds people confirm   *)
(* on their work areas, the change orders they approve and withdraw         *)
(* (domain/jobs/service.py) and the contract computed from all of it        *)
(* (domain/jobs/contract.py).                                               *)
(*                                                                          *)
(* The normalizer is a task of the one worker; it reads, builds a version   *)
(* and commits, and people's requests commit in between.  A person's        *)
(* request is a read step and a write step, with nothing locked.            *)
(*                                                                          *)
(* Left out: cost lines (they follow their work area), the header's text,   *)
(* the policy and date checks of an approval, which only refuse.            *)
EXTENDS Naturals, Sequences, FiniteSets, FiniteSetsExt, Functions

CONSTANTS Order,        \* work area numbers
          Sheet,        \* uploaded Work areas sheets: functions Order -> row, on a subset
          CoName,       \* the names that read as a change order ("CO: ...")
          HeaderPrice,
          Person,
          MaxUploads, MaxEvents,
          None          \* no sheet, no request, no load

ASSUME EstimateConstants ==
    /\ MaxUploads \in Nat /\ MaxEvents \in Nat
    /\ \A s \in Sheet : /\ DOMAIN s \subseteq Order /\ DOMAIN s # {} /\ IsFiniteSet(DOMAIN s)
                        /\ \A o \in DOMAIN s : s[o].name \in STRING /\ s[o].kept \in BOOLEAN
                                               /\ s[o].price \in Nat

VARIABLES raw,       \* the latest raw records: [status, areas, sheet, uploads]
          est,       \* the estimate row: [status, applied]; status "none": not made
          versions,  \* estimate_version, oldest first
          load,      \* the normalizer's task between its reads and its commit
          role,      \* the estimate's role on the job; "none": detached
          events,    \* change_order_approval, oldest first
          pending    \* Person -> the person's request between read and write

estVars == <<raw, est, versions, load, role, events, pending>>

-----------------------------------------------------------------------------
(* Versions.                                                                *)

WithAreas == {n \in DOMAIN versions : versions[n].areas > 0}
LatestAreas == Max(WithAreas)
\* The work areas a reader is shown; load_views.
Shown == versions[LatestAreas].rows
Baseline == {n \in DOMAIN versions : versions[n].baseline}

\* compare: the kept work areas whose number the baseline does not have.
NewOrders(base, now) == {o \in DOMAIN now : now[o].kept /\ o \notin DOMAIN base}

\* new_orders_flagged: a change order by its name, or by coming after the
\* baseline.
Suggested(o, sheet, base) == sheet[o].name \in CoName \/ o \in NewOrders(base, sheet)

\* _confirmed_kinds: a kind is carried to the same number with the same name.
Carried(o, sheet, previous) ==
    IF o \in DOMAIN previous /\ previous[o].name = sheet[o].name
    THEN previous[o].kind ELSE "none"

\* The rows of a new version (_make_version).
Rows(sheet, base, previous) ==
    [o \in DOMAIN sheet |->
        [name |-> sheet[o].name, kept |-> sheet[o].kept, price |-> sheet[o].price,
         suggested |-> Suggested(o, sheet, base),
         kind |-> Carried(o, sheet, previous)]]

NoRows == [o \in {} |-> "none"]

-----------------------------------------------------------------------------
(* Uploads: a sheet becomes the latest raw record of its kind, and its      *)
(* batch queues the normalizer.                                             *)

UploadHeader(status) ==
    /\ raw.uploads < MaxUploads
    /\ status # raw.status
    /\ raw' = [raw EXCEPT !.status = status, !.uploads = @ + 1]
    /\ UNCHANGED <<est, versions, load, role, events, pending>>

UploadAreas(sheet) ==
    /\ raw.uploads < MaxUploads
    /\ sheet # raw.sheet
    /\ raw' = [raw EXCEPT !.sheet = sheet, !.areas = raw.uploads + 1, !.uploads = @ + 1]
    /\ UNCHANGED <<est, versions, load, role, events, pending>>

-----------------------------------------------------------------------------
(* The normalizer.                                                          *)

\* The reads: the latest raw of each entity, and the kinds confirmed on the
\* latest work areas.
NormalizeRead ==
    /\ load = None
    /\ est.applied < raw.uploads
    /\ load' = [raw |-> raw,
                previous |-> IF WithAreas = {} THEN NoRows ELSE Shown]
    /\ UNCHANGED <<raw, est, versions, role, events, pending>>

\* Faulty: a header that did not change ends the comparison.
SomethingNewInHeader(r) == r.status # est.status

\* Whether anything of the estimate is new to the spine.
SomethingNew(r) ==
    \/ r.status # est.status
    \/ versions = << >>
    \/ versions[Len(versions)].areas # r.areas

\* D-01: the first version with work areas received while sold; when a later
\* upload marks it sold, the latest version with work areas at that moment.
NewBaseline(r, rows, n) ==
    IF r.status = "sold" /\ Baseline = {} /\ rows # NoRows
    THEN IF (versions = << >> \/ versions[Len(versions)].areas # r.areas) \/ WithAreas = {}
         THEN n ELSE LatestAreas
    ELSE 0

MadeVersion(r, previous) ==
    LET n == Len(versions) + 1
        base == IF Baseline = {} THEN NoRows ELSE versions[Max(Baseline)].rows
        rows == IF r.areas = 0 THEN NoRows
                ELSE Rows(r.sheet, IF Baseline = {} THEN r.sheet ELSE base, previous)
        b == NewBaseline(r, rows, n)
        new == [areas |-> r.areas, status |-> r.status, rows |-> rows, baseline |-> b = n]
    IN Append([k \in DOMAIN versions |->
                  [versions[k] EXCEPT !.baseline = @ \/ b = k]], new)

\* The commit.  An id with no header and no estimate is held.
NormalizeCommit ==
    /\ load # None
    /\ LET r == load.raw IN
          IF r.status = "none"
          THEN /\ est' = [est EXCEPT !.applied = r.uploads]
               /\ UNCHANGED versions
          ELSE /\ est' = [status |-> r.status, applied |-> r.uploads]
               /\ versions' = IF SomethingNew(r) THEN MadeVersion(r, load.previous)
                              ELSE versions
    /\ load' = None
    /\ UNCHANGED <<raw, role, events, pending>>

\* The worker dies with the transaction open; the task is run again.
NormalizeCrash ==
    /\ load # None
    /\ load' = None
    /\ UNCHANGED <<raw, est, versions, role, events, pending>>

-----------------------------------------------------------------------------
(* Approvals, read against the versions after them (rule C).                *)

Later(e) == {n \in WithAreas : n > e.version}

\* Faulty: the price is compared with the latest version's only.
BreaksLatestPrice(e, n) ==
    \/ e.order \notin DOMAIN versions[n].rows
    \/ LET row == versions[n].rows[e.order]
       IN ~row.kept \/ row.name # e.name \/ (n = LatestAreas /\ row.price # e.price)

\* Faulty: the price of a later version is not compared.
BreaksNotPrice(e, n) ==
    \/ e.order \notin DOMAIN versions[n].rows
    \/ LET row == versions[n].rows[e.order]
       IN ~row.kept \/ row.name # e.name

\* A later version that does not carry the work area as it was approved.
Breaks(e, n) ==
    \/ e.order \notin DOMAIN versions[n].rows
    \/ LET row == versions[n].rows[e.order]
       IN ~row.kept \/ row.name # e.name \/ row.price # e.price

Broken(e) == \E n \in Later(e) : Breaks(e, n)

\* approval_state: unbroken, and on an original estimate still confirmed as a
\* change order on the latest version.
StateApplies(e) ==
    /\ ~Broken(e)
    /\ (role # "change_order" /\ Later(e) # {} /\ Shown # NoRows)
          => Shown[e.order].kind = "change_order"

\* _approvals: the latest event of a work area decides.
EventsOn(o) == {i \in DOMAIN events : events[i].order = o}
LatestEvent(o) == events[Max(EventsOn(o))]
Approved(o) == EventsOn(o) # {} /\ LatestEvent(o).action = "approved"
Applies(o) == Approved(o) /\ StateApplies(LatestEvent(o))

\* _first_seen: the earliest version of the unbroken run of versions that
\* carry the name at the number.
FirstSeen(o) ==
    Min({n \in WithAreas :
            \A k \in WithAreas : k >= n =>
                o \in DOMAIN versions[k].rows /\ versions[k].rows[o].name = Shown[o].name})

-----------------------------------------------------------------------------
(* People's requests.                                                       *)

AskFor(c, q) ==
    /\ pending[c] = None
    /\ pending' = [pending EXCEPT ![c] = q]
    /\ UNCHANGED <<raw, est, versions, load, role, events>>

\* confirm_kind: a kept work area of the latest version of the original; an
\* approved change order keeps its kind.
ConfirmKind(c, o, kind) ==
    /\ role = "original" /\ WithAreas # {}
    /\ o \in DOMAIN Shown
    /\ Shown[o].kept
    /\ ~(kind = "original" /\ Shown[o].kind = "change_order" /\ Applies(o))
    /\ AskFor(c, [do |-> "kind", version |-> LatestAreas, kinds |-> [p \in {o} |-> kind]])

\* confirm_suggested_kinds, as_suggested: every kept work area without a kind
\* at its suggestion.
ConfirmSuggested(c) ==
    /\ role = "original" /\ WithAreas # {}
    /\ LET chosen == {o \in DOMAIN Shown : Shown[o].kept /\ Shown[o].kind = "none"}
       IN /\ chosen # {}
          /\ AskFor(c, [do |-> "kind", version |-> LatestAreas,
                     kinds |-> [o \in chosen |->
                         IF Shown[o].suggested THEN "change_order" ELSE "original"]])

\* approve_change_order: a kept change order of the latest version, at its
\* price, that no approval applies to.
ApproveChangeOrder(c, o) ==
    /\ role # "none" /\ WithAreas # {}
    /\ o \in DOMAIN Shown
    /\ Shown[o].kept
    /\ role = "original" => Shown[o].kind = "change_order"
    /\ ~Applies(o)
    /\ AskFor(c, [do |-> "event",
               event |-> [order |-> o, action |-> "approved", version |-> LatestAreas,
                          name |-> Shown[o].name, price |-> Shown[o].price]])

\* withdraw_approval: the latest event is an approval, applying or not.
WithdrawApproval(c, o) ==
    /\ Approved(o)
    /\ AskFor(c, [do |-> "event", event |-> [LatestEvent(o) EXCEPT !.action = "withdrawn"]])

SetKinds(rows, kinds) ==
    [o \in DOMAIN rows |-> IF o \in DOMAIN kinds THEN [rows[o] EXCEPT !.kind = kinds[o]]
                           ELSE rows[o]]

WriteRequest(c) ==
    /\ pending[c] # None
    /\ LET q == pending[c] IN
          IF q.do = "kind"
          THEN /\ versions' = [versions EXCEPT ![q.version].rows = SetKinds(@, q.kinds)]
               /\ UNCHANGED events
          ELSE /\ Len(events) < MaxEvents
               /\ events' = Append(events, q.event)
               /\ UNCHANGED versions
    /\ pending' = [pending EXCEPT ![c] = None]
    /\ UNCHANGED <<raw, est, load, role>>

\* The estimate leaves the job, or joins it in another role; its approvals
\* stay (they are the job's history).
SetRole(r) ==
    /\ r # role
    /\ role = "none" \/ r = "none"
    /\ r # "none" => est.status = "sold"
    /\ role' = r
    /\ UNCHANGED <<raw, est, versions, load, events, pending>>

-----------------------------------------------------------------------------
(* job_contract, for a fixed-price job with this one estimate.              *)

PriceOf(orders) == SumFunction([o \in orders |-> Shown[o].price])
Kept == {o \in DOMAIN Shown : Shown[o].kept}

IsChangeOrder(o) == role = "change_order" \/ Shown[o].kind = "change_order"

\* The original contract, the approved and the unapproved change orders, and
\* the price of the work areas still to confirm.
Contract ==
    IF WithAreas = {}
    THEN [original |-> IF role = "original" THEN HeaderPrice ELSE 0, approved |-> 0,
          unapproved |-> IF role = "change_order" THEN HeaderPrice ELSE 0, toConfirm |-> 0]
    ELSE [original |-> IF role = "original"
                       THEN PriceOf({o \in Kept : Shown[o].kind = "original"}) ELSE 0,
          approved |-> PriceOf({o \in Kept : IsChangeOrder(o) /\ Applies(o)}),
          unapproved |-> PriceOf({o \in Kept : IsChangeOrder(o) /\ ~Applies(o)}),
          toConfirm |-> IF role = "original"
                        THEN PriceOf({o \in Kept : Shown[o].kind = "none"}) ELSE 0]

\* unapproved_change_orders, the page that lists them: each with the price shown.
Unapproved ==
    {o \in Kept : (role = "original" => Shown[o].kind = "change_order") /\ ~Applies(o)}

-----------------------------------------------------------------------------
EstInit ==
    /\ raw = [status |-> "none", areas |-> 0, sheet |-> None, uploads |-> 0]
    /\ est = [status |-> "none", applied |-> 0]
    /\ versions = << >>
    /\ load = None
    /\ role = "none"
    /\ events = << >>
    /\ pending = [c \in Person |-> None]

EstNext ==
    \/ \E s \in {"pending", "sold"} : UploadHeader(s)
    \/ \E s \in Sheet : UploadAreas(s)
    \/ NormalizeRead \/ NormalizeCommit \/ NormalizeCrash
    \/ \E c \in Person :
          \/ \E o \in Order, k \in {"original", "change_order"} : ConfirmKind(c, o, k)
          \/ ConfirmSuggested(c)
          \/ \E o \in Order : ApproveChangeOrder(c, o) \/ WithdrawApproval(c, o)
          \/ WriteRequest(c)
    \/ \E r \in {"none", "original", "change_order"} : SetRole(r)

EstSpec == EstInit /\ [][EstNext]_estVars

-----------------------------------------------------------------------------
(* Properties.                                                              *)

AreaRow == [name : STRING, kept : BOOLEAN, price : Nat, suggested : BOOLEAN,
        kind : {"none", "original", "change_order"}]

\* Versions are numbered without a gap, rows have their shape, and an approval
\* names a work area its version has.
EstTypeOK ==
    /\ raw.uploads \in 0..MaxUploads /\ est.applied \in 0..raw.uploads
    /\ Len(versions) <= MaxUploads
    /\ \A n \in DOMAIN versions : \A o \in DOMAIN versions[n].rows : versions[n].rows[o] \in AreaRow
    /\ \A n \in DOMAIN versions : versions[n].areas = 0 => versions[n].rows = NoRows
    /\ Len(events) <= MaxEvents
    /\ \A i \in DOMAIN events : events[i].order \in DOMAIN versions[events[i].version].rows

\* Rule C: an approval that counts is for the work area as it is shown now,
\* at the agreed price, even when the version arrived while the person was
\* approving.
ApprovedAtShownPrice ==
    \A o \in Order : Applies(o) =>
        /\ o \in Kept
        /\ Shown[o].price = LatestEvent(o).price
        /\ Shown[o].name = LatestEvent(o).name

\* The two readings of the version history agree: the work area an approval
\* applies to was first seen, under its name, no later than the version it
\* was approved on.
SeenBeforeApproved ==
    \A o \in Order : Applies(o) => FirstSeen(o) <= LatestEvent(o).version

\* Every kept work area's price is in exactly one figure of the contract,
\* whatever approvals, kinds and roles the estimate went through.
ContractCountsOnce ==
    (role # "none" /\ WithAreas # {} /\ load = None) =>
        Contract.original + Contract.approved + Contract.unapproved + Contract.toConfirm
            = PriceOf(Kept)

\* The list of unapproved change orders adds up to the contract's figure, though
\* the two are computed apart (service.py unapproved_change_orders, contract.py
\* job_contract).  A load under way has written nothing yet, here and above.
UnapprovedTie ==
    (role # "none" /\ WithAreas # {} /\ load = None) => Contract.unapproved = PriceOf(Unapproved)

\* D-01: there is one baseline; it has work areas, and they are the ones in
\* force when the estimate was first known as sold with work areas.
BaselineAtSale ==
    /\ Cardinality(Baseline) <= 1
    /\ \A b \in Baseline :
          /\ b \in WithAreas
          /\ versions[b].status = "sold"
                \/ \E n \in DOMAIN versions : n > b /\ versions[n].status = "sold"
                                              /\ versions[n].areas = versions[b].areas
          /\ \A n \in WithAreas : n < b => versions[n].status # "sold"
    /\ Baseline = {} => \A n \in DOMAIN versions : versions[n].status = "sold" => n \notin WithAreas

\* Every version after the baseline suggests as a change order each kept work
\* area whose number the baseline does not have.
NewOrdersSuggested ==
    \A b \in Baseline, n \in DOMAIN versions :
        n > b => \A o \in NewOrders(versions[b].rows, versions[n].rows) :
                     versions[n].rows[o].suggested

\* When the normalizer has read every upload, the latest version shows it: no
\* sheet is lost between two loads, a crash and a held id.
LatestShowsUploads ==
    (est.applied = raw.uploads /\ raw.status # "none") =>
        /\ est.status = raw.status
        /\ versions # << >> /\ versions[Len(versions)].areas = raw.areas

\* A break ends an approval for good: no later version, kind or role revives
\* it.
BreakIsForGood ==
    [][\A i \in DOMAIN events :
          (events[i].action = "approved" /\ Broken(events[i])) => Broken(events[i])']_estVars

\* Approvals that count agree with what is shown, in the version history and now.
ApprovalsHold == ApprovedAtShownPrice /\ SeenBeforeApproved /\ UnapprovedTie

\* The version history of an estimate: every upload ends in it, one baseline at the
\* sale, later numbers suggested as change orders, every price in one contract figure.
VersionsFollow ==
    /\ EstTypeOK /\ ContractCountsOnce /\ BaselineAtSale
    /\ NewOrdersSuggested /\ LatestShowsUploads
=============================================================================
