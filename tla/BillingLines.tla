---------------------------- MODULE BillingLines ----------------------------
(***************************************************************************)
(* The lines of a job's invoice and the work areas they are billed for     *)
(* (domain/billing/assignments.py, work_areas.py, the line rewrite of      *)
(* sync.py _write_billing).  People assign a line, split it, clear it or   *)
(* confirm suggestions; each request reads the board and then appends its  *)
(* event, which carries the start of its transaction as recorded_at.       *)
(* Meanwhile the normalizer replaces the document's line rows and new      *)
(* estimate versions drop and bring back work areas.                       *)
(*                                                                         *)
(* A line row is <<version, position>>: every applied version has its own. *)
(* The foreign key of an event to its line is ON DELETE RESTRICT.          *)
(***************************************************************************)
EXTENDS Integers, Sequences, FiniteSets, SequencesExt

CONSTANTS
    Shape,      \* versions of the invoice: [void, deposit, lines : a sequence of lines]
    AreaKey,    \* work areas: <<estimate, number>>
    Original,   \* the job's original estimate
    SplitOf,    \* [amounts -> sequences of parts a person may split it into]
    Clerk, MaxVersions, MaxDecisions, Erased, Unasked

\* billing_line, as far as the properties tell it apart.
BillingLine == [amount : Nat, hash : Nat, surcharge : BOOLEAN]

ASSUME LinesAssumption ==
    /\ IsFiniteSet(AreaKey) /\ MaxVersions \in Nat \ {0} /\ Erased \notin Shape
    /\ \A s \in Shape :
          /\ s.lines \in Seq(BillingLine)
          /\ \A i \in DOMAIN s.lines : SplitOf[s.lines[i].amount] \subseteq Seq(Int)

VARIABLES
    incoming,   \* Seq(Shape or Erased): the raw versions
    built,      \* the version whose lines are in billing_line
    applied,    \* the version the document row shows
    area,       \* [AreaKey -> "absent", "kept" or "omitted"]: the latest versions
    keyed,      \* the document was keyed from an issued pay application
    decided,    \* the fuel surcharge treatment is decided
    decision,   \* Seq([line, at, parts]): billing_line_work_area, one entry per event
    asking,     \* [Clerk -> request or Unasked]
    now         \* transactions begun

lineVars == <<incoming, built, applied, area, keyed, decided, decision, asking, now>>
aroundLines == <<area, keyed, decided>>

\* billing_line_work_area by event: the rows one request writes for a line
\* share recorded_at; a cleared event has no part.
LineEvent == [line : (1..MaxVersions) \X (Nat \ {0}), at : Nat \ {0},
              parts : SUBSET [area : AreaKey, amount : Int]]

LinesInit ==
    /\ \E s \in Shape : incoming = <<s>>
    /\ built = 1 /\ applied = 1
    /\ area = [k \in AreaKey |-> "kept"] /\ keyed = FALSE /\ decided = TRUE
    /\ decision = << >> /\ asking = [c \in Clerk |-> Unasked] /\ now = 0

----------------------------------------------------------------------------
(* How a line is tied.                                                      *)

LineRows == {<<built, i>> : i \in DOMAIN incoming[built].lines}
LineAt(l) == incoming[l[1]].lines[l[2]]

\* billing_counted: the document row is neither deleted nor void.
DocCounts == incoming[applied] # Erased /\ ~incoming[built].void

\* offered: a line of a counted document that is not the deposit, no
\* surcharge, once the treatment of surcharges is decided.
Offered(l) == decided /\ DocCounts /\ ~incoming[built].deposit /\ ~LineAt(l).surcharge

\* resolve_hash: "#n" names the original's work area when no other estimate
\* of the job carries n.
ByNumber(l) ==
    LET carrying == {k \in AreaKey : area[k] # "absent" /\ k[2] = LineAt(l).hash}
    IN IF <<Original, LineAt(l).hash>> \in carrying /\ Cardinality(carrying) = 1 THEN carrying ELSE {}

\* Faulty: every assignment of the line counts, not the latest event's.
BadCurrent(l) ==
    UNION {decision[i].parts : i \in {j \in DOMAIN decision : decision[j].line = l}}

\* latest_assignments: the rows of the line's event with the latest recorded_at;
\* a cleared event has none.
Current(l) ==
    LET on == {i \in DOMAIN decision : decision[i].line = l}
    IN IF on = {} THEN {}
       ELSE decision[CHOOSE i \in on : \A j \in on : decision[j].at <= decision[i].at].parts

\* _assigned: all the rows find their work area, or the line counts for none; a
\* single row counts for the whole line.
AssignedParts(l) ==
    LET rows == Current(l) IN
    IF \E r \in rows : area[r.area] = "absent" THEN {}
    ELSE IF Cardinality(rows) = 1 THEN {[r EXCEPT !.amount = LineAt(l).amount] : r \in rows}
    ELSE rows

\* tie_line, in D-45's order: not offered, the pay application, the number,
\* the assignment.
How(l) == CASE ~Offered(l) -> "none"
            [] Offered(l) /\ keyed -> "pay_application"
            [] Offered(l) /\ ~keyed /\ ByNumber(l) # {} -> "number"
            [] OTHER -> IF AssignedParts(l) # {} THEN "assigned" ELSE "none"
Parts(l) == CASE How(l) = "number" -> {[area |-> k, amount |-> LineAt(l).amount] : k \in ByNumber(l)}
              [] How(l) = "assigned" -> AssignedParts(l)
              [] OTHER -> {}

Sum(parts) == SumFunction([r \in parts |-> r.amount])

\* job_work_areas: billed by the lines on one work area.
BilledOn(k) == SumFunction([l \in LineRows |-> Sum({r \in Parts(l) : r.area = k})])

----------------------------------------------------------------------------
(* The requests.                                                            *)

\* _assignable and _resolve: an offered line tied by neither its number nor an
\* application; kept work areas, each once, no part of 0.00.
MayTake(l, parts) ==
    /\ l \in LineRows /\ Offered(l) /\ How(l) \notin {"number", "pay_application"}
    /\ parts # {}
    /\ \A r \in parts : area[r.area] = "kept" /\ r.amount # 0
    /\ \A r, q \in parts : r.area = q.area => r = q

\* _write: the parts sum to the line, and differ from what is there.
MayWrite(l, parts) ==
    MayTake(l, parts) /\ Sum(parts) = LineAt(l).amount /\ parts # Current(l)

MayAsk(c) == asking[c] = Unasked /\ Len(decision) < MaxDecisions

\* The transaction begins and reads the board.
BeginAsking(c, writes) ==
    /\ now' = now + 1
    /\ asking' = [asking EXCEPT ![c] = [at |-> now + 1, writes |-> writes]]
    /\ UNCHANGED <<incoming, built, applied, aroundLines, decision>>

\* assign_line (one part, the whole amount) and split_line.
AssignLine(c, l, parts) ==
    /\ MayAsk(c) /\ MayWrite(l, parts)
    /\ BeginAsking(c, {[line |-> l, parts |-> parts]})

\* clear_line: one event ends every current row.
ClearLine(c, l) ==
    /\ MayAsk(c) /\ How(l) \notin {"number", "pay_application"} /\ Current(l) # {}
    /\ BeginAsking(c, {[line |-> l, parts |-> {}]})

\* assign_pairs: lines that count for nothing yet, each to one work area; one
\* that cannot be written refuses all.
AssignPairs(c, f) ==
    /\ MayAsk(c) /\ Cardinality(DOMAIN f) > 1
    /\ \A l \in DOMAIN f : Parts(l) = {} /\ MayWrite(l, {[area |-> f[l], amount |-> LineAt(l).amount]})
    /\ BeginAsking(c, {[line |-> l, parts |-> {[area |-> f[l], amount |-> LineAt(l).amount]}] :
                         l \in DOMAIN f})

\* The insert: refused by the foreign key when the line row is gone, and then
\* nothing of the request is written.
CommitAsking(c) ==
    /\ asking[c] # Unasked
    /\ asking' = [asking EXCEPT ![c] = Unasked]
    /\ IF \A w \in asking[c].writes : w.line \in LineRows
       THEN decision' = decision \o
              SetToSeq({[line |-> w.line, at |-> asking[c].at, parts |-> w.parts] : w \in asking[c].writes})
       ELSE UNCHANGED decision
    /\ UNCHANGED <<incoming, built, applied, aroundLines, now>>

----------------------------------------------------------------------------
(* Around the requests.                                                     *)

\* A new raw version of the invoice, or its deletion.
StoreVersion(s) ==
    /\ Len(incoming) < MaxVersions /\ Last(incoming) # s
    /\ incoming' = Append(incoming, s)
    /\ UNCHANGED <<built, applied, aroundLines, decision, asking, now>>

\* The delete of the old line rows is refused while any event names one.
Rewritable == \A i \in DOMAIN decision : decision[i].line \notin LineRows

\* apply_raw of the latest version: a deletion marks the row, anything else
\* replaces every line row or fails as a whole.
RewriteLines ==
    /\ applied < Len(incoming)
    /\ \/ /\ Last(incoming) = Erased
          /\ applied' = Len(incoming) /\ UNCHANGED built
       \/ /\ Last(incoming) # Erased /\ Rewritable
          /\ applied' = Len(incoming) /\ built' = Len(incoming)
    /\ UNCHANGED <<incoming, aroundLines, decision, asking, now>>

\* A new estimate version drops, omits or brings back a work area.
AreaChanges(k, s) ==
    /\ area[k] # s /\ area' = [area EXCEPT ![k] = s]
    /\ UNCHANGED <<incoming, built, applied, keyed, decided, decision, asking, now>>

\* An application is issued for the document or voided; the policy is decided.
KeyedChanges == /\ keyed' = ~keyed
                /\ UNCHANGED <<incoming, built, applied, area, decided, decision, asking, now>>
PolicyDecided == /\ decided' = ~decided
                 /\ UNCHANGED <<incoming, built, applied, area, keyed, decision, asking, now>>

LinesNext ==
    \/ \E c \in Clerk, l \in LineRows : ClearLine(c, l)
    \/ \E c \in Clerk, l \in LineRows : \E q \in SplitOf[LineAt(l).amount] :
          \E ks \in [DOMAIN q -> AreaKey] :
             AssignLine(c, l, {[area |-> ks[i], amount |-> q[i]] : i \in DOMAIN q})
    \/ \E c \in Clerk, f \in UNION {[S -> AreaKey] : S \in SUBSET LineRows} : AssignPairs(c, f)
    \/ \E c \in Clerk : CommitAsking(c)
    \/ \E s \in Shape \cup {Erased} : StoreVersion(s)
    \/ RewriteLines
    \/ \E k \in AreaKey, s \in {"absent", "kept", "omitted"} : AreaChanges(k, s)
    \/ KeyedChanges \/ PolicyDecided

LinesSpec == LinesInit /\ [][LinesNext]_lineVars

----------------------------------------------------------------------------
LinesTypeOK ==
    /\ built \in 1..Len(incoming) /\ applied \in built..Len(incoming)
    /\ area \in [AreaKey -> {"absent", "kept", "omitted"}]
    /\ decision \in Seq(LineEvent)

\* A line counts for its whole amount or for nothing, whoever assigned it, split
\* it or cleared it at the same time and whatever happened to the work areas:
\* the parts of a tied line add up to the line, so the work areas' billed to
\* date never exceeds what the document bills.
LinesCountOnce ==
    /\ \A l \in LineRows : Parts(l) # {} => Sum(Parts(l)) = LineAt(l).amount
    /\ SumFunction([k \in AreaKey |-> BilledOn(k)])
         = SumFunction([l \in {l \in LineRows : Parts(l) # {}} |-> LineAt(l).amount])

\* An event is never separated from the line it was about: the row it names is
\* there, with the amount the person saw, and a version of the document that
\* would replace it waits (billing_line_work_area, ON DELETE RESTRICT).
EventsKeepLines ==
    \A i \in DOMAIN decision :
        /\ decision[i].line \in LineRows
        /\ decision[i].parts # {} => Sum(decision[i].parts) = LineAt(decision[i].line).amount

\* The lines, their events and what they count for agree.
LinesAgree == LinesTypeOK /\ LinesCountOnce /\ EventsKeepLines
=============================================================================
