----------------------------- MODULE CostLedger -----------------------------
(***************************************************************************)
(* The cost lines of one company: documents of QuickBooks turned into      *)
(* ledger_line rows (integrations/qbo/normalize/cost.py,                   *)
(* domain/cost/sync.py), the cost run and the normalize task that write    *)
(* them (domain/cost/run.py, integrations/qbo/tasks.py), and the figures   *)
(* read from them (domain/cost/figures.py, load.py, report.py).            *)
(*                                                                         *)
(* One worker runs one task at a time; people's requests commit while a    *)
(* task is between reading what it knows about accounts and links          *)
(* (load_lookup) and writing the lines.  A link that meets a running       *)
(* job-ids run is the subject of RunTriggers; here that run is one step.   *)
(***************************************************************************)
EXTENDS Integers, FiniteSets, Sequences, FiniteSetsExt, Functions

CONSTANTS
    CostDoc, CostLineId, CostAccount,
    ExpenseTyped,   \* accounts whose ledger type is on the expense side
    CostItem, Coded, CostSite,   \* items, customers a line can name, jobs
    CostSlot, LABOR_SLOTS,
    CostPayload,    \* what QuickBooks may send for a document; a date before the
                    \* history start is month 0
    AsOf,           \* the month figures are read in
    CostPolicy,     \* WIP bases and active categories the figures may be read with
    MapChoice,      \* rows people confirm in account_map
    MaxSent, MaxEdits, Nothing

\* A payload line posts to an account of its own or to its item's.
PayloadLine ==
    [by : {"account"}, of : CostAccount, customer : Coded \cup {Nothing}, amount : Int]
    \cup [by : {"item"}, of : CostItem, customer : Coded \cup {Nothing}, amount : Int]
MappingRow == [jobCost : BOOLEAN, slot : CostSlot \cup {Nothing}]
LedgerLine == [month : Nat, account : CostAccount \cup {Nothing}, customer : Coded \cup {Nothing},
               job : CostSite \cup {Nothing}, amount : Int, deleted : BOOLEAN]

\* A task with what load_lookup gave it: a document's version, or the whole run.
FullRun == <<Nothing, 0>>
CostLookup == [side : SUBSET CostAccount, items : [CostItem -> CostAccount \cup {Nothing}],
               alias : [Coded -> CostSite \cup {Nothing}]]
CostTask == [task : (CostDoc \X Nat) \cup {FullRun}, look : CostLookup]

ASSUME CostAssumption ==
    /\ IsFiniteSet(CostDoc) /\ IsFiniteSet(CostLineId) /\ IsFiniteSet(CostSite)
    /\ IsFiniteSet(CostSlot) /\ IsFiniteSet({p.month : p \in CostPayload})
    /\ Nothing \notin CostSite \cup LedgerLine \cup CostTask
    /\ CostPolicy \subseteq [basis : SUBSET CostSlot \cup {Nothing}, categories : SUBSET CostSlot]
    /\ MapChoice \subseteq MappingRow
    /\ ExpenseTyped \subseteq CostAccount /\ LABOR_SLOTS \subseteq CostSlot
    /\ \A p \in CostPayload :
          /\ p.gone \in BOOLEAN /\ p.readable \in BOOLEAN /\ p.month \in Nat
          /\ p.sign \in {-1, 1} /\ p.note \in BOOLEAN
          /\ DOMAIN p.lines \subseteq CostLineId
          /\ \A l \in DOMAIN p.lines : p.lines[l] \in PayloadLine

VARIABLES
    sent,      \* [CostDoc -> versions of the document, oldest first]
    itemOf,    \* [CostItem -> its expense account, or Nothing]
    mapping,   \* [CostAccount -> the confirmed account_map row, or Nothing]
    alias,     \* [Coded -> the job it is linked to, or Nothing]
    line,      \* [CostDoc -> [CostLineId -> a ledger_line row, or Nothing]]
    todo,      \* queued normalize tasks: <<document, version>>
    runs,      \* queued cost runs, by dedupe key
    busy,      \* the task of the worker with its lookup, or Nothing
    edits,     \* changes made by people so far
    remapped   \* ghost: the expense side changed since a full run last read it

costVars == <<sent, itemOf, mapping, alias, line, todo, runs, busy, edits, remapped>>
settings == <<mapping, alias>>

CostInit ==
    /\ sent = [d \in CostDoc |-> << >>] /\ itemOf = [i \in CostItem |-> Nothing]
    /\ mapping = [a \in CostAccount |-> Nothing]
    /\ alias = [c \in Coded |-> Nothing]
    /\ line = [d \in CostDoc |-> [l \in CostLineId |-> Nothing]]
    /\ todo = {} /\ runs = {} /\ busy = Nothing /\ edits = 0 /\ remapped = FALSE

----------------------------------------------------------------------------
(* Normalizing one document.                                                *)

\* load_lookup: an account is on the expense side by its type, or by a
\* confirmed mapping that says something about cost.
ExpenseSide ==
    ExpenseTyped \cup {a \in CostAccount : mapping[a] # Nothing /\
                          (mapping[a].jobCost \/ mapping[a].slot # Nothing)}
LoadLookup == [side |-> ExpenseSide, items |-> itemOf, alias |-> alias]

\* _line: the lines that post to the expense side; an item without an account
\* keeps its line, with none.
AccountRef(x, k) == IF x.by = "item" THEN k.items[x.of] ELSE x.of
CostLines(p, k) ==
    {l \in DOMAIN p.lines : LET a == AccountRef(p.lines[l], k) IN
        a \in k.side \/ (a = Nothing /\ p.lines[l].by = "item")}

\* normalize_cost: voided when the note says so and every line is zero.
VoidedDoc(p, k) ==
    /\ p.note /\ CostLines(p, k) # {}
    /\ \A l \in CostLines(p, k) : p.lines[l].amount = 0

\* _write: rows in place, the lines the document no longer has deleted.
Written(p, k) ==
    [l \in CostLineId |->
        IF l \notin CostLines(p, k) THEN Nothing
        ELSE LET x == p.lines[l] IN
             [month |-> p.month, account |-> AccountRef(x, k), customer |-> x.customer,
              job |-> IF x.customer = Nothing THEN Nothing ELSE k.alias[x.customer],
              amount |-> p.sign * x.amount, deleted |-> VoidedDoc(p, k)]]

\* _mark_deleted keeps the rows.
MarkDeleted(d) ==
    [l \in CostLineId |-> IF line[d][l] = Nothing THEN Nothing
                          ELSE [line[d][l] EXCEPT !.deleted = TRUE]]

\* apply_raw: a payload that cannot be read leaves the rows as they are.
ApplyCost(d, p, k) ==
    IF p.gone \/ p.month = 0 THEN MarkDeleted(d)
    ELSE IF p.readable THEN Written(p, k) ELSE line[d]

\* Faulty: a line whose customer lost its job keeps it.
BadRefill(rows) ==
    [d \in CostDoc |-> [l \in CostLineId |->
        IF rows[d][l] = Nothing \/ rows[d][l].customer = Nothing \/ alias[rows[d][l].customer] = Nothing
        THEN rows[d][l]
        ELSE [rows[d][l] EXCEPT !.job = alias[rows[d][l].customer]]]]

\* refill_job_ids: filled and cleared from the links.
Refill(rows) ==
    [d \in CostDoc |-> [l \in CostLineId |->
        IF rows[d][l] = Nothing THEN Nothing
        ELSE [rows[d][l] EXCEPT !.job = IF rows[d][l].customer = Nothing THEN Nothing
                                        ELSE alias[rows[d][l].customer]]]]

----------------------------------------------------------------------------
(* The worker.                                                              *)

\* A change poll or a backfill page stores a version and queues its task.
Fetch(d, p) ==
    /\ busy = Nothing /\ Len(sent[d]) < MaxSent
    /\ sent' = [sent EXCEPT ![d] = Append(@, p)]
    /\ todo' = todo \cup {<<d, Len(sent[d]) + 1>>}
    /\ UNCHANGED <<itemOf, settings, line, runs, busy, edits, remapped>>

\* A poll that stored an Item asks for a full run.
FetchItem(i, a) ==
    /\ busy = Nothing /\ edits < MaxEdits /\ itemOf[i] # a
    /\ itemOf' = [itemOf EXCEPT ![i] = a] /\ edits' = edits + 1
    /\ runs' = runs \cup {"full"}
    /\ UNCHANGED <<sent, settings, line, todo, busy, remapped>>

BeginNormalize(t) ==
    /\ busy = Nothing
    /\ busy' = [task |-> t, look |-> LoadLookup] /\ todo' = todo \ {t}
    /\ UNCHANGED <<sent, itemOf, settings, line, runs, edits, remapped>>

\* Only the latest version of a document is applied.
EndNormalize ==
    /\ busy # Nothing /\ busy.task # FullRun
    /\ LET d == busy.task[1] IN
       line' = IF busy.task[2] = Len(sent[d])
               THEN [line EXCEPT ![d] = ApplyCost(d, sent[d][busy.task[2]], busy.look)] ELSE line
    /\ busy' = Nothing
    /\ UNCHANGED <<sent, itemOf, settings, todo, runs, edits, remapped>>

BeginFullRun ==
    /\ busy = Nothing /\ "full" \in runs
    /\ busy' = [task |-> FullRun, look |-> LoadLookup] /\ runs' = runs \ {"full"}
    /\ remapped' = FALSE
    /\ UNCHANGED <<sent, itemOf, settings, line, todo, edits>>

\* apply_everything, then the job ids.
EndFullRun ==
    /\ busy # Nothing /\ busy.task = FullRun
    /\ line' = Refill([d \in CostDoc |->
                 IF sent[d] = << >> THEN line[d]
                 ELSE ApplyCost(d, sent[d][Len(sent[d])], busy.look)])
    /\ busy' = Nothing
    /\ UNCHANGED <<sent, itemOf, settings, todo, runs, edits, remapped>>

JobsRun ==
    /\ busy = Nothing /\ "jobs" \in runs
    /\ line' = Refill(line) /\ runs' = runs \ {"jobs"}
    /\ UNCHANGED <<sent, itemOf, settings, todo, busy, edits, remapped>>

\* The worker dies: its transaction is undone, its task is claimed again, and
\* the start-up hook asks for a full run.
CostWorkerDies ==
    /\ busy # Nothing
    /\ busy' = Nothing /\ runs' = runs \cup {"full"}
    /\ todo' = IF busy.task = FullRun THEN todo ELSE todo \cup {busy.task}
    /\ UNCHANGED <<sent, itemOf, settings, line, edits, remapped>>

----------------------------------------------------------------------------
(* People.                                                                  *)

Edit == edits < MaxEdits /\ edits' = edits + 1
          /\ UNCHANGED <<sent, itemOf, line, todo, busy>>

\* A link and an unlink queue the job-ids run with their commit.
SetLink(c, j) ==
    /\ Edit /\ alias[c] # j
    /\ alias' = [alias EXCEPT ![c] = j] /\ runs' = runs \cup {"jobs"}
    /\ UNCHANGED <<mapping, remapped>>

\* A confirmed mapping queues nothing: figures read it when they are computed.
ConfirmMapping(a, r) ==
    /\ Edit /\ mapping' = [mapping EXCEPT ![a] = r]
    /\ remapped' = (remapped \/ ExpenseSide' # ExpenseSide)
    /\ UNCHANGED <<alias, runs>>

CostNext ==
    \/ \E d \in CostDoc, p \in CostPayload : Fetch(d, p)
    \/ \E i \in CostItem, a \in CostAccount \cup {Nothing} : FetchItem(i, a)
    \/ \E t \in todo : BeginNormalize(t)
    \/ EndNormalize \/ BeginFullRun \/ EndFullRun \/ JobsRun \/ CostWorkerDies
    \/ \E c \in Coded, j \in CostSite \cup {Nothing} : SetLink(c, j)
    \/ \E a \in CostAccount, r \in MapChoice : ConfirmMapping(a, r)
CostSpec == CostInit /\ [][CostNext]_costVars

----------------------------------------------------------------------------
(* The figures.                                                             *)

RowsOf == {x \in CostDoc \X CostLineId : line[x[1]][x[2]] # Nothing}
CostRow(x) == line[x[1]][x[2]]
LiveRows == {x \in RowsOf : ~CostRow(x).deleted}
Total(S) == SumFunction([x \in S |-> CostRow(x).amount])

\* AccountIn: labor, job cost; a line without a mapped account is neither.
MapOf(x) == IF CostRow(x).account = Nothing THEN Nothing ELSE mapping[CostRow(x).account]
SlotOf(x) == MapOf(x).slot
Labor(x) == MapOf(x) # Nothing /\ SlotOf(x) \in LABOR_SLOTS
JobCostLine(x) == MapOf(x) # Nothing /\ MapOf(x).jobCost /\ ~Labor(x)

\* part_of, under a policy pol: the WIP basis and the active categories.
PartOf(x, pol) ==
    CASE Labor(x) -> "labor"
      [] ~Labor(x) /\ ~JobCostLine(x) -> "outside"
      [] JobCostLine(x) /\ CostRow(x).job = Nothing -> "unassigned"
      [] OTHER -> IF pol.basis = Nothing \/ SlotOf(x) \in pol.basis THEN "on_jobs" ELSE "memo"

\* tie_out, over the months up to m.
TieOut(p, pol, m) == Total({x \in LiveRows : PartOf(x, pol) = p /\ CostRow(x).month <= m})

\* job_cost: by active category, up to the day the figure is read on.
CategoryCost(j, s) ==
    Total({x \in LiveRows : CostRow(x).job = j /\ JobCostLine(x) /\ CostRow(x).month <= AsOf /\ SlotOf(x) = s})
JobCost(j, S) == SumFunction([s \in S |-> CategoryCost(j, s)])

\* unassigned_documents: one row per document and customer reference.
UnassignedDocs ==
    {u \in CostDoc \X (Coded \cup {Nothing}) :
        \E x \in LiveRows : x[1] = u[1] /\ CostRow(x).customer = u[2] /\ JobCostLine(x) /\ CostRow(x).job = Nothing}
UnassignedAmount(u) ==
    Total({x \in LiveRows : x[1] = u[1] /\ CostRow(x).customer = u[2] /\ JobCostLine(x) /\ CostRow(x).job = Nothing})

\* ledger_sums and raw_sums, the cost side of the nightly check.
CostMonths == {p.month : p \in CostPayload} \ {0}
LedgerSum(m, a) == Total({x \in LiveRows : CostRow(x).month = m /\ CostRow(x).account = a})
Newest(d) == sent[d][Len(sent[d])]
Counts(d) == sent[d] # << >> /\ ~Newest(d).gone /\ Newest(d).month # 0 /\ Newest(d).readable
RawOf(p, a) ==
    SumFunction([l \in {l \in CostLines(p, LoadLookup) : AccountRef(p.lines[l], LoadLookup) = a} |->
                    p.sign * p.lines[l].amount])
RawSum(m, a) ==
    SumFunction([d \in {d \in CostDoc : Counts(d) /\ Newest(d).month = m
                                          /\ ~VoidedDoc(Newest(d), LoadLookup)} |-> RawOf(Newest(d), a)])
CostDifferences ==
    {x \in CostMonths \X (CostAccount \cup {Nothing}) : LedgerSum(x[1], x[2]) # RawSum(x[1], x[2])}

----------------------------------------------------------------------------
CostTypeOK ==
    /\ line \in [CostDoc -> [CostLineId -> LedgerLine \cup {Nothing}]]
    /\ mapping \in [CostAccount -> MappingRow \cup {Nothing}]
    /\ runs \subseteq {"full", "jobs"}

CostQuiet == todo = {} /\ runs = {} /\ busy = Nothing

\* Once the worker has done what was asked, every line is on the job its
\* customer is linked to now, in whatever order documents, items and links came
\* and however they overlapped with the task that wrote it (sync.py).
LinesOnTheirJob ==
    CostQuiet => \A x \in RowsOf :
        CostRow(x).job = IF CostRow(x).customer = Nothing THEN Nothing ELSE alias[CostRow(x).customer]

\* ... and the nightly check finds nothing, unless a version could not be read
\* or a mapping moved an account to or from the expense side since the last
\* full run (a mapping queues none; report.py cost_differences).
NoFalseDrift ==
    CostQuiet /\ ~remapped /\ (\A d \in CostDoc : sent[d] # << >> => Newest(d).readable)
        => CostDifferences = {}

\* The pages agree: what the jobs show as cost is what the tie-out has on jobs
\* and in memo, and the unassigned documents add up to its unassigned part,
\* as long as every job-cost account has an open category (figures.py).  A task
\* under way has written nothing yet, and one that dies leaves what is shown.
FiguresTie ==
    busy = Nothing => \A pol \in CostPolicy :
        /\ (\A a \in CostAccount : mapping[a] # Nothing /\ mapping[a].jobCost
                => mapping[a].slot \in pol.categories) =>
             /\ SumFunction([j \in CostSite |-> JobCost(j, pol.categories)])
                  = TieOut("on_jobs", pol, AsOf) + TieOut("memo", pol, AsOf)
             /\ pol.basis # Nothing =>
                  SumFunction([j \in CostSite |-> JobCost(j, pol.categories \cap pol.basis)])
                    = TieOut("on_jobs", pol, AsOf)
        /\ SumFunction([u \in UnassignedDocs |-> UnassignedAmount(u)]) = TieOut("unassigned", pol, Max(CostMonths))

\* The cost ledger: lines on the job of their customer, no drift reported where
\* nothing is missing, figures that are one another's sums (domain/cost/sync.py,
\* run.py, report.py, figures.py).
CostAgrees == CostTypeOK /\ LinesOnTheirJob /\ NoFalseDrift /\ FiguresTie
=============================================================================
