------------------------------ MODULE MCEndings ------------------------------
(* What is started ends, for TLC: the tasks of the queue, the import batches   *)
(* whose work is done by two kinds of task, and the set-up the home page leads *)
(* through.  Each module models for itself what it sees of the others, so a    *)
(* behaviour follows one of them.                                              *)
EXTENDS TaskQueue, ImportBatches, Checklist, TLC

CONSTANTS w1, w2, t1, f1, f2, f3, f4, f5, u1, u2

VARIABLES part,
          shelf   \* the files that are uploaded in this behaviour

\* A good chart, one with rows that cannot be read and one account fewer, a file
\* whose reading breaks, one without a row and one without a row that can be read.
MCOutcome == f1 :> "good" @@ f2 :> "mixed" @@ f3 :> "broken" @@ f4 :> "empty"
             @@ f5 :> "unreadable"
MCChart == f1 :> ("a" :> "x" @@ "b" :> "y") @@ f2 :> ("a" :> "x")
           @@ f3 :> << >> @@ f4 :> << >> @@ f5 :> << >>

\* Two charts and an empty file when no step fails; a chart and one other file when
\* one does.
Shelves == {{f1, f2, f4}, {f1, f2}, {f1, f3}, {f1, f4}, {f1, f5}}

MCInit == Init /\ ImportInit /\ HomeInit /\ part \in {"queue", "import", "home"}
          /\ shelf \in IF part = "import" THEN Shelves ELSE {{}}
MCNext == /\ UNCHANGED <<part, shelf>>
          /\ \/ part = "queue" /\ Next /\ UNCHANGED <<impVars, homeVars>>
             \/ /\ part = "import" /\ ImportNext /\ UNCHANGED <<vars, homeVars>>
                /\ upload' \in [Uploader -> shelf \cup {None}]
                /\ Cardinality(shelf) = 3 => failures' = 0
             \/ part = "home" /\ HomeNext /\ UNCHANGED <<vars, impVars>>

\* The fairness of each part, in the behaviours that follow it.
MCFairness ==
    /\ \A w \in Workers : WF_vars(part = "queue" /\ WorkerStep(w))
    /\ \A i \in TaskId : /\ WF_vars(part = "queue" /\ LeaseExpires(i))
                         /\ WF_vars(part = "queue" /\ RunAfterPasses(i))
    /\ WF_impVars(part = "import" /\ Work)
    /\ WF_homeVars(part = "home" /\ FollowPrimary)
    /\ WF_homeVars(part = "home" /\ FollowNeed)
    /\ WF_homeVars(part = "home" /\ BackfillEnds)
MCSpec == MCInit /\ [][MCNext]_<<vars, impVars, homeVars, part, shelf>> /\ MCFairness

\* Checklist's HomeLeadsOn, in the behaviours that follow the home page: whatever
\* undoes finished lines on the way, a person who only does what the page asks
\* ends with a company that is set up and a job with nothing open
\* (domain/home/checklist.py setup_lines, next_need), unless a backfill's run was left
\* open without the items, or the last poll's cursor is too old (integrations/qbo/
\* schedule.py start_backfill, resume_cursor).
HomePageLeadsOn == part = "home" => HomeLeadsOn
=============================================================================
