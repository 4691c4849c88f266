--------------------------- MODULE ImportBatches ---------------------------
(***************************************************************************)
(* File imports of one company: ingest/imports.py, core/storage.py and the *)
(* follow-up of a chart of accounts, domain/config/chart.py.  People       *)
(* upload; the one worker process reads a stored file into raw records and *)
(* then applies the chart to the accounts.  A file is known by its bytes   *)
(* (sha256); each transaction of the code is one action, and the worker    *)
(* may fail or crash between any two of them.                              *)
(***************************************************************************)
EXTENDS Naturals, Sequences, FiniteSets, SequencesExt

CONSTANTS File,          \* files a person may upload, by their bytes
          Outcome,       \* [File -> "good", "mixed", "empty", "unreadable" or "broken"]
          Account, Name,
          Chart,         \* [File -> [a set of accounts -> Name]], the rows that can be read
          Uploader, MaxTries, MaxFailures, None

ASSUME ImportAssumption ==
    /\ Outcome \in [File -> {"good", "mixed", "empty", "unreadable", "broken"}]
    /\ \A f \in File : /\ DOMAIN Chart[f] \subseteq Account
                       /\ \A a \in DOMAIN Chart[f] : Chart[f][a] \in Name
                       /\ (DOMAIN Chart[f] = {}) <=> (Outcome[f] \in {"empty", "unreadable", "broken"})
    /\ MaxTries \in Nat \ {0} /\ MaxFailures \in Nat

VARIABLES
    object,    \* files in the object store
    upload,    \* [Uploader -> File or None]: object written, row not yet committed
    batch,     \* [File -> [status, at, outcome]]: import_batch; at is the upload's rank
    work,      \* [{"process", "follow"} -> [File -> [status, attempts]]]
    rawRow,    \* [Account -> Seq([file, name])]: the versions of a raw record
    account,   \* [Account -> [name, active]] or None: gl_account
    worker,    \* what the worker holds: [job, file, step]
    applied,   \* ghost: charts in the order they were applied
    failures,  \* failures and crashes so far
    left       \* ghost: files whose batch once stayed at processing with no worker on it

impVars == <<object, upload, batch, work, rawRow, account, worker, applied, failures, left>>

WorkKind == {"process", "follow"}
AtRest == [job |-> None, file |-> None, step |-> "idle"]
NoWork == [status |-> "none", attempts |-> 0]
Loaded == {"loaded", "loaded_with_issues"}
End == Loaded \cup {"nothing_loaded", "failed"}

\* The rows, as far as the properties tell them apart.
BatchRow == [status : End \cup {"none", "received", "processing"}, at : Nat,
             outcome : {None, "applied", "superseded"}]
RawRow == [file : File, name : Name]
AccountRow == [name : Name, active : BOOLEAN]

ImportInit ==
    /\ object = {} /\ upload = [u \in Uploader |-> None]
    /\ batch = [f \in File |-> [status |-> "none", at |-> 0, outcome |-> None]]
    /\ work = [j \in WorkKind |-> [f \in File |-> NoWork]]
    /\ rawRow = [a \in Account |-> << >>]
    /\ account = [a \in Account |-> None]
    /\ worker = AtRest /\ applied = << >> /\ failures = 0 /\ left = {}

----------------------------------------------------------------------------
(* The upload request.                                                      *)

\* The same bytes of the same tenant and kind are the existing batch.
FindBatch(f) == batch[f].status # "none"

\* receive_upload up to store.put: a known file is answered with its batch and
\* changes nothing; the object is written before the row.
PutObject(u, f) ==
    /\ upload[u] = None /\ ~FindBatch(f)
    /\ object' = object \cup {f}
    /\ upload' = [upload EXCEPT ![u] = f]
    /\ UNCHANGED <<batch, work, rawRow, account, worker, applied, failures, left>>

\* Enqueues a task unless one with the same key is open.
Enqueue(tasks, j, f) ==
    IF tasks[j][f].status \in {"queued", "running"} THEN tasks
    ELSE [tasks EXCEPT ![j][f] = [status |-> "queued", attempts |-> 0]]

\* Faulty: the loser of the race replaces the row and queues the file again.
BadInsertBatch(u) ==
    LET f == upload[u] IN
    /\ f # None
    /\ upload' = [upload EXCEPT ![u] = None]
    /\ batch' = [batch EXCEPT ![f] =
                   [status |-> "received", outcome |-> None,
                    at |-> Cardinality({g \in File : FindBatch(g)}) + 1]]
    /\ work' = Enqueue(work, "process", f)
    /\ UNCHANGED <<object, rawRow, account, worker, applied, failures, left>>

\* The row, the task and the audit row commit together; when another upload of
\* the same bytes won the race, theirs is the batch.
InsertBatch(u) ==
    LET f == upload[u] IN
    /\ f # None
    /\ upload' = [upload EXCEPT ![u] = None]
    /\ IF FindBatch(f) THEN UNCHANGED <<batch, work>>
       ELSE /\ batch' = [batch EXCEPT ![f] =
                           [status |-> "received", outcome |-> None,
                            at |-> Cardinality({g \in File : FindBatch(g)}) + 1]]
            /\ work' = Enqueue(work, "process", f)
    /\ UNCHANGED <<object, rawRow, account, worker, applied, failures, left>>

\* The request dies after the object was written: no row, the object stays.
LoseUpload(u) ==
    /\ upload[u] # None /\ failures < MaxFailures
    /\ upload' = [upload EXCEPT ![u] = None]
    /\ failures' = failures + 1
    /\ UNCHANGED <<object, batch, work, rawRow, account, worker, applied, left>>

----------------------------------------------------------------------------
(* The worker: import.process_batch.                                        *)

\* queue.claim: any queued task, one attempt more.
ClaimWork(j, f) ==
    /\ worker = AtRest /\ work[j][f].status = "queued"
    /\ work' = [work EXCEPT ![j][f] = [status |-> "running", attempts |-> @.attempts + 1]]
    /\ worker' = [job |-> j, file |-> f, step |-> IF j = "process" THEN "start" ELSE "apply"]
    /\ UNCHANGED <<object, upload, batch, rawRow, account, applied, failures, left>>

\* The first session: a failed batch is final, any other goes to processing.
StartReading(f) ==
    /\ worker = [job |-> "process", file |-> f, step |-> "start"]
    /\ IF batch[f].status = "failed"
       THEN worker' = [worker EXCEPT !.step = "permanent"] /\ UNCHANGED batch
       ELSE /\ batch' = [batch EXCEPT ![f].status = "processing"]
            /\ worker' = [worker EXCEPT !.step = "read"]
    /\ UNCHANGED <<object, upload, work, rawRow, account, applied, failures, left>>

\* store_raw for every row that could be read: a payload equal to the latest
\* version writes nothing.
StoreRaw(f) ==
    [a \in Account |->
       IF a \in DOMAIN Chart[f] /\ (rawRow[a] = << >> \/ Last(rawRow[a]).name # Chart[f][a])
       THEN Append(rawRow[a], [file |-> f, name |-> Chart[f][a]]) ELSE rawRow[a]]

\* Opening, parsing and storing is one session: a parse that raises, or any
\* failure, stores no row of the file.
Read(f) ==
    /\ worker = [job |-> "process", file |-> f, step |-> "read"]
    /\ \/ /\ Outcome[f] # "broken" /\ f \in object
          /\ rawRow' = StoreRaw(f)
          /\ worker' = [worker EXCEPT !.step = "loaded"]
          /\ UNCHANGED failures
       \/ /\ Outcome[f] = "broken"
          /\ worker' = [worker EXCEPT !.step = "broken"]
          /\ UNCHANGED <<rawRow, failures>>
       \/ /\ failures < MaxFailures
          /\ failures' = failures + 1
          /\ worker' = [worker EXCEPT !.step = "transient"]
          /\ UNCHANGED rawRow
    /\ UNCHANGED <<object, upload, batch, work, account, applied, left>>

\* The status a finished read gives the batch.  A file without a row to load or
\* to reject (a header line, blank lines) is loaded.
FinalStatus(f) ==
    IF worker.step = "broken" THEN "failed"
    ELSE IF worker.step = "transient" THEN "received"
    ELSE CASE Outcome[f] = "unreadable" -> "nothing_loaded"
           [] Outcome[f] = "mixed"      -> "loaded_with_issues"
           [] OTHER                     -> "loaded"

\* How the queue is told of the end of the work.
AfterFinish == CASE worker.step = "broken"    -> "permanent"
                 [] worker.step = "transient" -> "retry"
                 [] OTHER                     -> "done"

\* The finally block: counts, status and, when a row was loaded, the follow-up
\* commit together; it may itself fail, which leaves the batch at processing and the task to retry.
Finish(f) ==
    /\ worker.job = "process" /\ worker.file = f
    /\ worker.step \in {"loaded", "broken", "transient"}
    /\ \/ /\ batch' = [batch EXCEPT ![f].status = FinalStatus(f)]
          /\ work' = IF FinalStatus(f) \in Loaded /\ DOMAIN Chart[f] # {}
                     THEN Enqueue(work, "follow", f) ELSE work
          /\ worker' = [worker EXCEPT !.step = AfterFinish]
          /\ UNCHANGED <<failures, left>>
       \/ /\ failures < MaxFailures
          /\ failures' = failures + 1 /\ left' = left \cup {f}
          /\ worker' = [worker EXCEPT !.step = "retry"]
          /\ UNCHANGED <<batch, work>>
    /\ UNCHANGED <<object, upload, rawRow, account, applied>>

\* runner._execute: succeeded, failed for good, or queued again while attempts
\* are left.
Settle ==
    /\ worker.step \in {"done", "permanent", "retry"}
    /\ work' = [work EXCEPT ![worker.job][worker.file].status =
                  CASE worker.step = "done"      -> "succeeded"
                    [] worker.step = "permanent" -> "failed"
                    [] OTHER -> IF @ = "running" /\ work[worker.job][worker.file].attempts < MaxTries
                                THEN "queued" ELSE "failed"]
    /\ worker' = AtRest
    /\ UNCHANGED <<object, upload, batch, rawRow, account, applied, failures, left>>

\* The worker process dies with the task leased.
WorkerDies ==
    /\ worker # AtRest /\ failures < MaxFailures
    /\ failures' = failures + 1
    /\ left' = left \cup {f \in {worker.file} : batch[f].status = "processing"}
    /\ worker' = AtRest
    /\ UNCHANGED <<object, upload, batch, work, rawRow, account, applied>>

\* Faulty: only the tasks whose attempts are used up are swept.
BadLeaseEnds(j, f) ==
    /\ work[j][f].status = "running" /\ ~(worker.job = j /\ worker.file = f)
    /\ work[j][f].attempts >= MaxTries
    /\ work' = [work EXCEPT ![j][f].status = "failed"]
    /\ UNCHANGED <<object, upload, batch, rawRow, account, worker, applied, failures, left>>

\* The lease of a dead worker's task runs out: claimable again, or swept as
\* failed when its attempts are used up.
LeaseEnds(j, f) ==
    /\ work[j][f].status = "running" /\ ~(worker.job = j /\ worker.file = f)
    /\ work' = [work EXCEPT ![j][f].status = IF work[j][f].attempts < MaxTries THEN "queued" ELSE "failed"]
    /\ UNCHANGED <<object, upload, batch, rawRow, account, worker, applied, failures, left>>

----------------------------------------------------------------------------
(* The follow-up: config.normalize_chart.                                   *)

\* Faulty: every batch that was uploaded counts, the unreadable ones too.
BadIsNewestChartBatch(f) == \A g \in File : FindBatch(g) => batch[g].at <= batch[f].at

\* Only batches that were loaded or are being read supersede an older one.
IsNewestChartBatch(f) ==
    \A g \in File : batch[g].status \in Loaded \cup {"processing"} => batch[g].at <= batch[f].at

\* normalize_chart: an account with a raw row of this batch is added, renamed
\* or made active; an active one that the file itself does not hold is made
\* inactive, unless the file holds none.
NormalizeChart(f) ==
    [a \in Account |->
       LET rows == {i \in DOMAIN rawRow[a] : rawRow[a][i].file = f} IN
       IF rows # {} THEN [name |-> rawRow[a][Max(rows)].name, active |-> TRUE]
       ELSE IF account[a] # None /\ DOMAIN Chart[f] # {} /\ a \notin DOMAIN Chart[f]
            THEN [account[a] EXCEPT !.active = FALSE]
       ELSE account[a]]

\* Read the numbers in the stored file, then apply the chart in one session; a
\* superseded file changes nothing.  The suggestions and QuickBooks ids that
\* follow have sessions of their own, so a failure there leaves the chart
\* applied and the task to retry.
Apply(f) ==
    /\ worker = [job |-> "follow", file |-> f, step |-> "apply"]
    /\ \/ /\ f \in object
          /\ IF IsNewestChartBatch(f)
             THEN /\ account' = NormalizeChart(f)
                  /\ applied' = Append(applied, f)
                  /\ batch' = [batch EXCEPT ![f].outcome = "applied"]
             ELSE /\ batch' = [batch EXCEPT ![f].outcome = "superseded"]
                  /\ UNCHANGED <<account, applied>>
          /\ \/ worker' = [worker EXCEPT !.step = "done"] /\ UNCHANGED failures
             \/ /\ IsNewestChartBatch(f) /\ failures < MaxFailures
                /\ failures' = failures + 1
                /\ worker' = [worker EXCEPT !.step = "retry"]
       \/ /\ failures < MaxFailures
          /\ failures' = failures + 1
          /\ worker' = [worker EXCEPT !.step = "retry"]
          /\ UNCHANGED <<account, applied, batch>>
    /\ UNCHANGED <<object, upload, work, rawRow, left>>

----------------------------------------------------------------------------
Work == \/ Settle
        \/ \E f \in File : StartReading(f) \/ Read(f) \/ Finish(f) \/ Apply(f)
        \/ \E j \in WorkKind, f \in File : ClaimWork(j, f) \/ LeaseEnds(j, f)

ImportNext ==
    \/ \E u \in Uploader, f \in File : PutObject(u, f)
    \/ \E u \in Uploader : InsertBatch(u) \/ LoseUpload(u)
    \/ Work \/ WorkerDies

\* The worker polls while anything is queued; failures are finite.
ImportFairness == WF_impVars(Work)
ImportSpec == ImportInit /\ [][ImportNext]_impVars /\ ImportFairness

----------------------------------------------------------------------------
ImportTypeOK ==
    /\ object \subseteq File
    /\ upload \in [Uploader -> File \cup {None}]
    /\ batch \in [File -> BatchRow]
    /\ work \in [WorkKind -> [File -> [status : {"none", "queued", "running", "succeeded", "failed"},
                                  attempts : 0..MaxTries]]]
    /\ rawRow \in [Account -> Seq(RawRow)]
    /\ account \in [Account -> AccountRow \cup {None}]

Quiet == worker = AtRest /\ \A j \in WorkKind, f \in File : work[j][f].status \notin {"queued", "running"}

\* Two batches never share a place in the order of uploads, and a batch's file
\* is in the object store.
RowAfterObject ==
    \A f \in File : FindBatch(f) =>
        f \in object /\ \A g \in File : FindBatch(g) /\ g # f => batch[g].at # batch[f].at

\* A file is stored whole or not at all: a batch that ended loaded has every
\* readable row among the raw versions and, when there is one, its follow-up was
\* queued; one that failed or held nothing stored no row.
WholeFile ==
    \A f \in File :
        /\ batch[f].status \in Loaded =>
             /\ DOMAIN Chart[f] # {} => work["follow"][f].status # "none"
             /\ \A a \in DOMAIN Chart[f] : \E i \in 1..Len(rawRow[a]) : rawRow[a][i].name = Chart[f][a]
        /\ batch[f].status \in {"none", "failed", "nothing_loaded"} =>
             \A a \in Account : \A i \in 1..Len(rawRow[a]) : rawRow[a][i].file # f

\* When nothing is open, no batch is left at processing unless the attempts of
\* its task ran out; a crash of the worker is met by the lease and the retry.
NoneLeftProcessing ==
    Quiet => \A f \in File : batch[f].status = "processing" =>
                work["process"][f].status = "failed" /\ work["process"][f].attempts = MaxTries

\* An account is active only when the chart applied last holds it, and inactive
\* only when a chart that was applied does not: an unchanged account, which has no
\* raw row of the newer file, is never read as removed.
ActiveIsHeld ==
    \A a \in Account : account[a] # None =>
        IF account[a].active THEN applied # << >> /\ a \in DOMAIN Chart[Last(applied)]
        ELSE \E i \in 1..Len(applied) : a \notin DOMAIN Chart[applied[i]]

\* Import pipeline: what the rows of a batch, its object, its raw records and
\* the accounts say of each other, whatever uploads overlap and wherever the
\* worker fails (ingest/imports.py, process_batch_now; config/chart.py).
ImportsAgree ==
    ImportTypeOK /\ RowAfterObject /\ WholeFile /\ NoneLeftProcessing /\ ActiveIsHeld

\* A batch that counts as newer and holds no chart the worker will apply: a file
\* without a row that is loaded all the same, one that was being read when a worker
\* died and was not loaded in the end, one whose follow-up used up its attempts.
StandsInTheWay(g) ==
    \/ Outcome[g] = "empty"
    \/ g \in left /\ batch[g].status \notin Loaded
    \/ work["follow"][g].status = "failed"

\* When nothing is open, a chart that was loaded is no newer than the one applied
\* last (chart.py, _is_newest_chart_batch): a late older batch never replaces it
\* and a newer one that failed or held nothing never suppresses it.  The exceptions
\* are a follow-up out of attempts, its own or a newer one's, and the two newer
\* batches without a chart that the query takes for one.
NewestChartApplied ==
    Quiet => \A f \in File : batch[f].status \in Loaded /\ DOMAIN Chart[f] # {} =>
        \/ applied # << >> /\ batch[f].at <= batch[Last(applied)].at
        \/ work["follow"][f].status = "failed"
        \/ \E g \in File : FindBatch(g) /\ batch[g].at > batch[f].at /\ StandsInTheWay(g)

\* What the docs say and the code does not do: a batch that ends without a row
\* supersedes nothing (imports.py:17-18 and chart.py:76-78); a file without a row
\* ends loaded, so the chart before it is never applied when it comes late.
EmptySupersedesNothing ==
    \A f, g \in File : Outcome[g] = "empty" /\ batch[f].outcome = "superseded" =>
        \E h \in File \ {g} : FindBatch(h) /\ batch[h].at > batch[f].at

\* What the docs say and the code does not do: the accounts show the chart that was
\* applied last (chart.py:3-5).  An account the newer file repeats unchanged has no
\* raw row of its own there; when the older chart comes late it is superseded, and
\* the account is never added.
AccountsShowChart ==
    Quiet /\ applied # << >> =>
        LET c == Chart[Last(applied)] IN
        \A a \in DOMAIN c : account[a] = [name |-> c[a], active |-> TRUE]

Awaited(f) ==
    batch[f].status \in {"received", "processing"} /\ work["process"][f].status # "failed"

\* Every upload that was accepted ends: its batch reaches an end state, or its
\* task failed for good (imports.py: the task retries with backoff).
EveryBatchEnds == (\E f \in File : Awaited(f)) ~> (\A f \in File : ~Awaited(f))
=============================================================================
