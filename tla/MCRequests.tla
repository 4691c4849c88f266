----------------------------- MODULE MCRequests -----------------------------
(* Requests of people that overlap, for TLC: on jobs with their links, on an   *)
(* estimate's versions with their approvals, on the work areas of invoice      *)
(* lines, and on a job's pay applications.  A request changes rows of one of   *)
(* these, so a behaviour follows one.                                          *)
EXTENDS Jobs, EstimateVersions, BillingLines, PayApplications, TLC

CONSTANTS c1, c2, j1, j2, e1, e2, k1, k2

VARIABLE part

\* k2 is a sub-customer of k1.
MCParent == [k \in {k1, k2} |-> k1]

\* A sheet of one work area, the same repriced, renamed, and omitted beside
\* another.
Wall == [name |-> "wall", kept |-> TRUE, price |-> 2]
MCSheet == { [o \in {1} |-> Wall],
             [o \in {1} |-> [Wall EXCEPT !.price = 3]],
             [o \in {1} |-> [Wall EXCEPT !.name = "CO: wall"]],
             [o \in {1, 2} |-> IF o = 1 THEN [Wall EXCEPT !.kept = FALSE] ELSE Wall] }

\* What is uploaded before the normalizer first runs comes with the initial state:
\* the header, the work areas as first sold, both or none.
FirstUploads ==
    /\ \E s \in {"none", "pending", "sold"}, t \in {None, [o \in {1} |-> Wall]} :
          raw = [status |-> s, areas |-> IF t = None THEN 0 ELSE 1, sheet |-> t, uploads |-> 1]
    /\ est = [status |-> "none", applied |-> 0]
    /\ versions = << >> /\ load = None
    /\ role = "none" /\ events = << >>
    /\ pending = [c \in Person |-> None]

\* Bound: any two of two people's requests and the normalizer overlap on the first
\* version; from the second version on one follows another.  The second approval
\* event comes before the third upload, or not at all.
OverlapEarly ==
    LET open == Cardinality({c \in Person : pending'[c] # None}) + (IF load' = None THEN 0 ELSE 1)
    IN /\ open <= IF Len(versions) < 2 THEN 2 ELSE 1
       /\ events' # events => raw.uploads < MaxUploads \/ Len(events') < MaxEvents

\* Bound: after two requests have overlapped on a job, requests follow one
\* another; every overlap is met once, with any sequence before and after it.
OneOverlap == raced # {} => Cardinality({c \in Client : request'[c] # NoRequest}) <= 1

\* An invoice of two lines, the same with its lines changed over (one of them
\* the surcharge), and voided.
Priced(a, h, f) == [amount |-> a, hash |-> h, surcharge |-> f]
MCShape == { [void |-> FALSE, deposit |-> FALSE, lines |-> <<Priced(5, 0, FALSE), Priced(3, 1, FALSE)>>],
             [void |-> FALSE, deposit |-> FALSE, lines |-> <<Priced(3, 0, FALSE), Priced(5, 0, TRUE)>>],
             [void |-> TRUE, deposit |-> FALSE, lines |-> <<Priced(0, 0, FALSE)>>] }
MCSplit == (0 :> {<<0>>}) @@ (3 :> {<<3>>}) @@ (5 :> {<<5>>, <<2, 3>>, <<2, 2>>})
MCAreaKey == {<<"o", 1>>, <<"c", 1>>}

\* Bound: at most one thing around the lines is out of its first state.
OneOdd ==
    /\ keyed' => decided' /\ \A k \in AreaKey : area'[k] = "kept"
    /\ ~decided' => \A k \in AreaKey : area'[k] = "kept"
    /\ Cardinality({k \in AreaKey : area'[k] # "kept"}) <= 1

\* Bound: overlapping requests are explored on the first application with nothing
\* changing around them; the last application is made with nothing changing.
Bound ==
    /\ alone \/ (changes = 0 /\ \A i \in 2..MaxApps : apps[i].status = "absent")
    /\ apps[MaxApps].status = "absent" \/ changes = 0

MCSymmetry == Permutations({j1, j2}) \cup Permutations({c1, c2})

\* What the other parts start from is fixed.
MCInit ==
    /\ JobsInit /\ FirstUploads /\ LinesInit /\ Init
    /\ part \in {"estimates", "customers", "versions", "lines", "pay"}
    /\ part # "versions" => raw.status = "none" /\ raw.sheet = None
    /\ part # "lines" => incoming[1].void
    /\ part # "pay" => \A k \in Areas : price[k] = 2

MCNext ==
    /\ UNCHANGED part
    /\ \/ /\ \/ part = "estimates" /\ EstimateSide
             \/ part = "customers" /\ CustomerSide
             \/ part \in {"estimates", "customers"} /\ \E c \in Client : Commit(c)
          /\ OneOverlap /\ UNCHANGED <<estVars, lineVars, vars>>
       \/ part = "versions" /\ EstNext /\ OverlapEarly /\ UNCHANGED <<jobVars, lineVars, vars>>
       \/ part = "lines" /\ LinesNext /\ OneOdd /\ UNCHANGED <<jobVars, estVars, vars>>
       \/ part = "pay" /\ Next /\ UNCHANGED <<jobVars, estVars, lineVars>>

MCSpec == MCInit /\ [][MCNext]_<<jobVars, estVars, lineVars, vars, part>>
=============================================================================
