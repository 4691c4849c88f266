--------------------------- MODULE ReviewExceptions ---------------------------
(***************************************************************************)
(* The review queue of one tenant (backend/app/domain/exceptions): the run *)
(* that persists what the generators raise, and what a person does to an   *)
(* exception.  Every transaction is READ COMMITTED and takes no lock when  *)
(* it reads: it loads rows, decides on what it loaded, and its flush       *)
(* writes the columns it changed over whatever is there by then.  The      *)
(* table's CHECK and UNIQUE constraints refuse some of those flushes.      *)
(*                                                                         *)
(* source : what the generators would raise now: per identity NoIssue, or  *)
(*          the facts its sentence states and its severity                 *)
(* row    : the exception table, one row per identity; status "absent" is  *)
(*          no row; resolved/dismissed tell whether resolved_at and        *)
(*          dismissed_at/dismissed_by are set                              *)
(* shown  : per identity the status event of exception_event its page ends  *)
(*          with, the one with the latest occurred_at                       *)
(* elder  : per transaction that has taken its time of day, that one and    *)
(*          those in flight that took theirs before it; empty before that   *)
(* passed : per transaction the identities that were given a status event   *)
(*          with a later time since it took its own                         *)
(* overtaken : the identities whose last committed status event is not the  *)
(*          one with the latest time                                        *)
(* judged : the facts the person saw who dismissed it last                 *)
(* run    : per run its step, what collect returned and the rows it loaded *)
(*          and whether anything was committed since it began (clean)      *)
(* person : per person the action being handled and the row it loaded      *)
(* fresh  : nothing was committed since the last run began                 *)
(***************************************************************************)
EXTENDS Naturals, FiniteSets

CONSTANTS Keys,      \* identities (subject, code, item_key)
          Facts,     \* what a sentence may state
          Members,   \* the members an exception can be assigned to
          Persons,   \* the people acting at the same time
          Runs,      \* the runs that may be in flight at the same time
          NoIssue, Nobody

ASSUME NonEmptyAssumption == Keys # {} /\ Facts # {}
ASSUME NobodyAssumption == Nobody \notin Members
ASSUME ApartAssumption == Runs \cap Persons = {}
ASSUME NoIssueAssumption == NoIssue \notin [stated : Facts, severity : {"warn", "block_close"}]

VARIABLES source, row, shown, judged, run, person, fresh, elder, passed, overtaken

times == <<elder, passed>>
history == <<shown, overtaken>>
vars == <<source, row, shown, judged, run, person, fresh, elder, passed, overtaken>>

Transactions == Runs \cup Persons

Severities == {"warn", "block_close"}
Issue == [stated : Facts, severity : Severities]

AnyFact == CHOOSE f \in Facts : TRUE

AbsentRow == [status |-> "absent", stated |-> AnyFact, severity |-> "warn",
              resolved |-> FALSE, dismissed |-> FALSE, assigned |-> Nobody]

IdleRun == [pc |-> "idle", raised |-> [k \in Keys |-> NoIssue],
            loaded |-> [k \in Keys |-> AbsentRow], clean |-> FALSE]

IdlePerson == [doing |-> "nothing", key |-> CHOOSE k \in Keys : TRUE,
               loaded |-> AbsentRow, user |-> Nobody]

Init ==
  /\ source = [k \in Keys |-> NoIssue]
  /\ row = [k \in Keys |-> AbsentRow]
  /\ shown = [k \in Keys |-> "none"] /\ overtaken = {}
  /\ elder = [x \in Transactions |-> {}] /\ passed = [x \in Transactions |-> {}]
  /\ judged = [k \in Keys |-> AnyFact]
  /\ run = [r \in Runs |-> IdleRun]
  /\ person = [p \in Persons |-> IdlePerson]
  /\ fresh = FALSE

\* A flush writes a column that differs from what was loaded and leaves the others.
Column(cur, loaded, target) == IF target # loaded THEN target ELSE cur

Flushed(cur, loaded, target) ==
  [status    |-> Column(cur.status, loaded.status, target.status),
   stated    |-> Column(cur.stated, loaded.stated, target.stated),
   severity  |-> Column(cur.severity, loaded.severity, target.severity),
   resolved  |-> Column(cur.resolved, loaded.resolved, target.resolved),
   dismissed |-> Column(cur.dismissed, loaded.dismissed, target.dismissed),
   assigned  |-> Column(cur.assigned, loaded.assigned, target.assigned)]

\* ck_exception_resolved and ck_exception_dismissed.
Checks(r) ==
  r.status # "absent" => /\ (r.status = "resolved") <=> r.resolved
                         /\ (r.status = "dismissed") <=> r.dismissed

\* Somebody else committed: runs that have begun, and the last one, are behind.
Stale(rs) == [r \in Runs |-> [rs[r] EXCEPT !.clean = FALSE]]

-----------------------------------------------------------------------------
(* A transaction takes the time of day once and gives it to its events; the *)
(* history of an exception is in the order of those times.                  *)

Timed == {x \in Transactions : elder[x] # {}}

TakesTime(x) ==
  /\ elder' = [elder EXCEPT ![x] = Timed \cup {x}]
  /\ UNCHANGED passed

\* x ends and has written the status events of these identities.
Ends(x, events) ==
  /\ elder' = [y \in Transactions |-> IF y = x THEN {} ELSE elder[y] \ {x}]
  /\ passed' = [y \in Transactions |->
                  IF y = x THEN {} ELSE IF y \in elder[x] THEN passed[y] \cup events ELSE passed[y]]

\* Each is the latest of its identity, unless a later time was written before it.
Recorded(x, events, kinds) ==
  /\ shown' = [k \in Keys |-> IF k \in events \ passed[x] THEN kinds[k] ELSE shown[k]]
  /\ overtaken' = (overtaken \ events) \cup (events \cap passed[x])

-----------------------------------------------------------------------------
(* The generators' input changes (QuickBooks, imports, people's work).      *)

ChangeSource(k, i) ==
  /\ source[k] # i
  /\ source' = [source EXCEPT ![k] = i]
  /\ run' = Stale(run)
  /\ fresh' = FALSE
  /\ UNCHANGED <<row, history, judged, person, times>>

-----------------------------------------------------------------------------
(* The run: refresh in one transaction. *)

\* Its now, before it reads anything.
BeginRun(r) ==
  /\ run[r].pc = "idle"
  /\ run' = [run EXCEPT ![r].pc = "begun"]
  /\ TakesTime(r)
  /\ UNCHANGED <<source, row, history, judged, person, fresh>>

\* collect(db, tenant_id).
Collect(r) ==
  /\ run[r].pc = "begun"
  /\ run' = [run EXCEPT ![r].pc = "collected", ![r].raised = source, ![r].clean = TRUE]
  /\ UNCHANGED <<source, row, history, judged, person, fresh, times>>

\* The existing rows, in a statement of its own.
LoadExisting(r) ==
  /\ run[r].pc = "collected"
  /\ run' = [run EXCEPT ![r].pc = "loaded", ![r].loaded = row]
  /\ UNCHANGED <<source, row, history, judged, person, fresh, times>>

Raised(i) == [AbsentRow EXCEPT !.status = "open", !.stated = i.stated, !.severity = i.severity]

Resolved(old) ==
  [old EXCEPT !.status = "resolved", !.resolved = TRUE, !.dismissed = FALSE]

\* A resolved sentence that is raised again, or a dismissed one that now states
\* something else, opens.
Reopens(old, i) ==
  \/ old.status = "resolved"
  \/ old.status = "dismissed" /\ old.stated # i.stated

\* Faulty: the severity stays the one the exception was raised with.
RefreshedKeepsSeverity(old, i) ==
  [old EXCEPT !.status = IF Reopens(old, i) THEN "open" ELSE @,
              !.resolved = IF Reopens(old, i) THEN FALSE ELSE @,
              !.dismissed = IF Reopens(old, i) THEN FALSE ELSE @,
              !.stated = i.stated]

Refreshed(old, i) ==
  [old EXCEPT !.status = IF Reopens(old, i) THEN "open" ELSE @,
              !.resolved = IF Reopens(old, i) THEN FALSE ELSE @,
              !.dismissed = IF Reopens(old, i) THEN FALSE ELSE @,
              !.stated = i.stated, !.severity = i.severity]

\* refresh's row for one identity, from the row it loaded and what was raised.
Target(old, i) ==
  IF i = NoIssue
  THEN IF old.status \in {"absent", "resolved"} THEN old ELSE Resolved(old)
  ELSE IF old.status = "absent" THEN Raised(i) ELSE Refreshed(old, i)

\* Faulty: a sentence that is still raised gets an event every run.
StatusEventAlways(old, i) ==
  CASE i = NoIssue /\ old.status \in {"open", "dismissed"} -> "resolved"
    [] i # NoIssue /\ old.status = "absent" -> "raised"
    [] i # NoIssue /\ old.status \in {"open", "resolved"} -> "raised_again"
    [] i # NoIssue /\ old.status = "dismissed" /\ old.stated # i.stated -> "reopened"
    [] OTHER -> "none"

\* refresh's event for it, if any.
StatusEvent(old, i) ==
  CASE i = NoIssue /\ old.status \in {"open", "dismissed"} -> "resolved"
    [] i # NoIssue /\ old.status = "absent" -> "raised"
    [] i # NoIssue /\ old.status = "resolved" -> "raised_again"
    [] i # NoIssue /\ old.status = "dismissed" /\ old.stated # i.stated -> "reopened"
    [] OTHER -> "none"

RunTarget(r, k) == Target(run[r].loaded[k], run[r].raised[k])
RunWrites(r, k) == Flushed(row[k], run[r].loaded[k], RunTarget(r, k))
RunEvent(r, k) == StatusEvent(run[r].loaded[k], run[r].raised[k])
RunEvents(r) == {k \in Keys : RunEvent(r, k) # "none"}

\* uq_exception_identity: a row raised by two runs is inserted once.
Insertable(r, k) == RunEvent(r, k) = "raised" => row[k].status = "absent"

Persistable(r) == \A k \in Keys : Insertable(r, k) /\ Checks(RunWrites(r, k))

\* The flush succeeds and the run commits.
Persist(r) ==
  /\ run[r].pc = "loaded"
  /\ Persistable(r)
  /\ row' = [k \in Keys |-> RunWrites(r, k)]
  /\ Recorded(r, RunEvents(r), [k \in Keys |-> RunEvent(r, k)]) /\ Ends(r, RunEvents(r))
  /\ fresh' = run[r].clean
  /\ run' = IF row' = row THEN [run EXCEPT ![r] = IdleRun] ELSE [Stale(run) EXCEPT ![r] = IdleRun]
  /\ UNCHANGED <<source, judged, person>>

\* A constraint refuses the flush, or the run raises: rolled back, the task retries.
RunFails(r) ==
  /\ run[r].pc # "idle"
  /\ run' = [run EXCEPT ![r] = IdleRun]
  /\ Ends(r, {})
  /\ UNCHANGED <<source, row, history, judged, person, fresh>>

-----------------------------------------------------------------------------
(* A person's actions: the row is loaded and checked, then the time taken,   *)
(* then the row written.                                                    *)

may_dismiss(severity) == severity # "block_close"

LoadRow(p, doing, k, user) ==
  /\ person[p].doing = "nothing"
  /\ row[k].status # "absent"
  /\ person' = [person EXCEPT ![p] = [doing |-> doing, key |-> k, loaded |-> row[k], user |-> user]]
  /\ UNCHANGED <<source, row, history, judged, run, fresh, times>>

StartDismiss(p, k) ==
  /\ may_dismiss(row[k].severity)
  /\ row[k].status = "open"
  /\ LoadRow(p, "dismiss", k, Nobody)

StartReopen(p, k) ==
  /\ row[k].status = "dismissed"
  /\ LoadRow(p, "reopen", k, Nobody)

StartAssign(p, k, u) ==
  /\ row[k].assigned # u
  /\ LoadRow(p, "assign", k, u)

TakeTime(p) ==
  /\ person[p].doing # "nothing" /\ elder[p] = {}
  /\ TakesTime(p)
  /\ UNCHANGED <<source, row, history, judged, run, person, fresh>>

\* What dismiss, reopen and assign write over the row they loaded.
PersonTarget(a) ==
  CASE a.doing = "dismiss" -> [a.loaded EXCEPT !.status = "dismissed", !.dismissed = TRUE]
    [] a.doing = "reopen"  -> [a.loaded EXCEPT !.status = "open", !.dismissed = FALSE]
    [] a.doing = "assign"  -> [a.loaded EXCEPT !.assigned = a.user]

PersonEvents(a) == IF a.doing \in {"dismiss", "reopen"} THEN {a.key} ELSE {}
PersonEvent(a) == IF a.doing = "dismiss" THEN "dismissed" ELSE "reopened"

\* The person's flush succeeds and the request commits, with its event.
CommitAction(p) ==
  LET a == person[p]
      new == Flushed(row[a.key], a.loaded, PersonTarget(a))
  IN /\ a.doing # "nothing" /\ elder[p] # {}
     /\ Checks(new)
     /\ row' = [row EXCEPT ![a.key] = new]
     /\ Recorded(p, PersonEvents(a), [k \in Keys |-> PersonEvent(a)]) /\ Ends(p, PersonEvents(a))
     /\ judged' = [judged EXCEPT ![a.key] = IF a.doing = "dismiss" THEN a.loaded.stated ELSE @]
     /\ person' = [person EXCEPT ![p] = IdlePerson]
     /\ run' = Stale(run)
     /\ fresh' = FALSE
     /\ UNCHANGED source

\* A constraint refuses the flush: the request fails and writes nothing.
ActionRefused(p) ==
  /\ person[p].doing # "nothing" /\ elder[p] # {}
  /\ ~Checks(Flushed(row[person[p].key], person[p].loaded, PersonTarget(person[p])))
  /\ person' = [person EXCEPT ![p] = IdlePerson]
  /\ Ends(p, {})
  /\ UNCHANGED <<source, row, history, judged, run, fresh>>

-----------------------------------------------------------------------------
Next ==
  \/ \E k \in Keys, i \in Issue \cup {NoIssue} : ChangeSource(k, i)
  \/ \E r \in Runs : BeginRun(r) \/ Collect(r) \/ LoadExisting(r) \/ Persist(r) \/ RunFails(r)
  \/ \E p \in Persons : TakeTime(p) \/ CommitAction(p) \/ ActionRefused(p)
  \/ \E p \in Persons, k \in Keys : StartDismiss(p, k) \/ StartReopen(p, k)
  \/ \E p \in Persons, k \in Keys, u \in Members \cup {Nobody} : StartAssign(p, k, u)

Spec == Init /\ [][Next]_vars

-----------------------------------------------------------------------------
(* Properties. *)

Row == [status : {"absent", "open", "resolved", "dismissed"}, stated : Facts,
        severity : Severities, resolved : BOOLEAN, dismissed : BOOLEAN,
        assigned : Members \cup {Nobody}]

\* Every row and every transaction in flight has its shape, and the resolution and
\* dismissal columns are set exactly in their status, whatever overlapped.
TypeOK ==
  /\ source \in [Keys -> Issue \cup {NoIssue}]
  /\ row \in [Keys -> Row]
  /\ shown \in [Keys -> {"none", "raised", "raised_again", "reopened", "resolved", "dismissed"}]
  /\ elder \in [Transactions -> SUBSET Transactions]
  /\ passed \in [Transactions -> SUBSET Keys] /\ overtaken \subseteq Keys
  /\ judged \in [Keys -> Facts]
  /\ run \in [Runs -> [pc : {"idle", "begun", "collected", "loaded"},
                       raised : [Keys -> Issue \cup {NoIssue}],
                       loaded : [Keys -> Row], clean : BOOLEAN]]
  /\ person \in [Persons -> [doing : {"nothing", "dismiss", "reopen", "assign"}, key : Keys,
                             loaded : Row, user : Members \cup {Nobody}]]
  /\ fresh \in BOOLEAN
  /\ \A k \in Keys : row[k].resolved = (row[k].status = "resolved")
  /\ \A k \in Keys : row[k].dismissed = (row[k].status = "dismissed")

StatusAfter(kind) ==
  CASE kind = "none" -> "absent"
    [] kind \in {"raised", "raised_again", "reopened"} -> "open"
    [] OTHER -> kind

\* The history explains the row: through any overlap of runs and people, the last
\* status event of an exception's page tells the status the row has, unless that
\* event was overtaken: one with an earlier time was committed after it, by a run or
\* a person that took its time before it and wrote after it.
HistoryExplainsStatus == \A k \in Keys \ overtaken : row[k].status = StatusAfter(shown[k])

\* service.get_exception: the page shows the row and its events in the order of their
\* times; not kept, the last one can contradict the row it is shown with (a run that
\* began before a dismissal and reopens what was dismissed).
HistoryInOrder == \A k \in Keys : row[k].status = StatusAfter(shown[k])

\* After a run with nothing committed since it began, the queue is what the
\* generators raise: every sentence has its row with its facts and severity, open
\* or dismissed, and every other row is resolved.
FreshRunMirrors ==
  fresh => \A k \in Keys :
             IF source[k] = NoIssue
             THEN row[k].status \in {"absent", "resolved"}
             ELSE /\ row[k].status \in {"open", "dismissed"}
                  /\ row[k].stated = source[k].stated
                  /\ row[k].severity = source[k].severity

\* "A second run with nothing changed writes nothing (no row, no event)".
SecondRunWritesNothing ==
  [][\A r \in Runs : fresh /\ run[r].clean /\ Persist(r) =>
       UNCHANGED row /\ RunEvents(r) = {}]_vars

\* "Nobody resolves an exception by hand", and the run does so only when its
\* generators no longer raised the sentence.
OnlyRunResolves ==
  [][\A k \in Keys : row[k].status # "resolved" /\ row'[k].status = "resolved" =>
       \E r \in Runs : run[r].pc = "loaded" /\ run[r].raised[k] = NoIssue]_vars

\* What refresh, dismiss, reopen and assign leave together, whatever overlapped: rows
\* in shape, a history that explains each row's status, and after a run that nothing
\* overlapped the queue its generators raise (domain/exceptions/run.py, service.py).
QueueMirrors == TypeOK /\ HistoryExplainsStatus /\ FreshRunMirrors

\* What a run may do and nobody else: only refresh resolves, only what its generators
\* no longer raise, and a second run with nothing changed writes no row and no event.
RunDiscipline == OnlyRunResolves /\ SecondRunWritesNothing

\* BLUEPRINT 10: "an info or warn exception may be dismissed, a block-close one
\* never (it closes only when its cause is gone ...)": stated where a run has just
\* compared every row with its generators.
NoBlockCloseDismissed ==
  fresh => \A k \in Keys : ~(row[k].status = "dismissed" /\ row[k].severity = "block_close")

\* D-46: "A dismissed exception stays dismissed while what its sentence states is
\* unchanged, and opens again when that changes": what a dismissed row states is
\* what the person who dismissed it judged, at the latest after the next run.
DismissedStatesJudged ==
  fresh => \A k \in Keys : row[k].status = "dismissed" => row[k].stated = judged[k]
===============================================================================
