# Verification of wip-app

TLA+ models of the parts of wip-app whose correctness depends on the order in
which things happen, the TLC runs that check them on small instances, and TLAPS
proofs of the main safety properties for every instance.

wip-app is a multi-tenant job-cost and work-in-progress platform for
contractors: a FastAPI service over Postgres (SQLAlchemy, READ COMMITTED,
row-level security per tenant), a task worker, a QuickBooks Online integration
and a React front end. A request is one transaction. Most transactions take no
lock: they load rows, decide on what they loaded, and the flush writes the
changed columns over whatever is committed by then. Constraints, a few row and
advisory locks and the task queue are what keeps them apart. That is where the
models look.

## 1. Inventory

| Component (backend/app) | State it keeps | Operations | Talks to |
|---|---|---|---|
| Task queue and worker, `worker/` | `task` rows: status, attempts, run_after, lease, dedupe key | enqueue, claim, complete, fail, sweep; the loop: LISTEN, pass over tenants, run, wait, stop | everybody enqueues; runs the tasks of all others |
| Triggers of the derived runs, `domain/exceptions/run.py`, `domain/cost/run.py`, `domain/jobs/service.py` | open runs under their dedupe keys | request_refresh, request_cost_run, after-write and start-up hooks | queue; ledger lines; review queue |
| Review exceptions, `domain/exceptions/` | `exception`, `exception_event` | the run (collect, load, persist), dismiss, reopen, assign, note | reads every domain; run by the worker, acted on by people |
| QuickBooks scheduling, `integrations/qbo/schedule.py`, `tasks.py`, `api/qbo.py` | connection status, sync runs, poll slots | after_connect, ensure_scheduled, poll and its successor, start_backfill, pages, disconnect | queue; Intuit; copy |
| QuickBooks copy, `integrations/qbo/tasks.py`, `fetch.py`, `ingest/raw.py` | raw versions, normalized rows, cursors | backfill_page, cdc_poll, normalize | Intuit; billing; ledger |
| QuickBooks connection and tokens, `connect.py`, `tokens.py`, `reader.py` | connection row, OAuth state, encrypted tokens | start, callback, company check, refresh, disconnect | Intuit; scheduling |
| Webhooks and status page, `webhooks.py`, `status.py` | deliveries | store once, queue a poll | scheduling |
| Drift check, `qbo/tasks.py` | a sync run with counts | nightly comparison of both sides | Intuit; billing; ledger |
| Normalizers, `qbo/normalize/`, `domain/billing/sync.py` | customers, documents, payments and their lines | payload to row, row written, deletion | copy; jobs |
| Imports and storage, `ingest/imports.py`, `core/storage.py` | import batches, objects, raw records | upload, read, finish, apply a chart | queue; estimates; configuration |
| Pay applications, `domain/billing/pay_application*.py` | `pay_application`, its lines, frozen figures | draft, redraft, issue, void, discard | estimates, billing lines, policy |
| Billing assignment, `domain/billing/assignments.py`, `work_areas.py` | events on billing lines | assign, split, clear, confirm; rewrite by normalize | copy; estimates; pay applications |
| Billing figures and reports, `board.py`, `figures.py`, `totals.py`, `report.py` | none (sums) | month totals, job figures, tie-out, exports | billing |
| Cost ledger, `domain/cost/` | ledger lines, job ids | normalize, full run, job-id run, figures | jobs; configuration; queue |
| Jobs, `domain/jobs/` | jobs, estimates attached, aliases, tracked rows, approvals | create, update, attach, detach, link, unlink, approve, withdraw | cost runs; exceptions |
| Estimates, `domain/estimates/` | versions, work areas, baselines | normalize of uploads, kinds | jobs; pay applications |
| Configuration, `domain/config/` | divisions, categories, rules, mappings, rates, policy | edit, suggest, confirm, add a rate, decide a key | everybody reads |
| Home checklist, `domain/home/` | none (derived) | setup lines, primary line, next need of a job | reads all |
| Accounts and sessions, `auth/`, `core/auth.py`, `core/throttle.py` | users, roles, entry rows, links, sessions, failures | sign in, enrol, reset, issue and redeem links, roles, choose a company | every request |
| Tenancy | the tenant of the session | set per transaction | Postgres policies |
| Audit, settings, encryption | audit rows | append | everybody |
| Migrations, deployment, front end | - | - | - |

What is hard about them:

- *Concurrency without locks*: two people, or a person and a run, load the same
  rows (exceptions, pay applications); two workers store the same record (raw
  versions, backfill progress).
- *Visibility*: a request enqueues a run before it commits; the run may start in
  between; `open_task`'s answer is old when `enqueue` runs.
- *Leases and crashes*: a task outlives its lease and runs twice; a worker dies
  after the task's commit and before `complete`.
- *Chains*: each poll queues its successor; a poll that fails, is retried or is
  late could end or fork the chain. A backfill is a chain of pages per entity.
- *Cursors and clocks*: a change may become visible in QuickBooks later than its
  update time says; a cursor may become too old.
- *Row locks across transactions*: requests that change roles wait for the firm
  row and for session rows, one removal spans several transactions, and the token
  refresh keeps the connection row locked while Intuit is asked.
- *Decisions on what was read*: an approval, a mapping, an assignment or a link is
  decided on rows that another request, a run or a normalizer replaces before the
  decision is written.
- *Order of arrival*: uploads, versions and documents are applied by tasks in any
  order and more than once; the rows must say the same in the end.
- *Frozen figures*: what is frozen when an application is issued is computed
  from rows read in several steps, with rounding per work area.

What makes each component correct is stated in section 4.

## 2. Modules

| Module | What it is |
|---|---|
| `QueueOps` | the statements of `worker/queue.py` as operators on a task table; extended by every module that queues |
| `TaskQueue` | workers, leases, LISTEN/NOTIFY and faults over `QueueOps` |
| `SingleFlight` | the abstract specification of the queue: what a caller that names a dedupe key is promised |
| `TaskQueueProofs` | theorems about `TaskQueue`, with the refinement of `SingleFlight` |
| `RunTriggers` | request transactions, cost and exceptions runs of one tenant, over `QueueOps` |
| `ReviewExceptions`, `JobsProofs` | the run and people over one tenant's exceptions |
| `QboConnect`, `ConnectProofs` | connect, callback, token refresh and disconnect of companies, with Intuit's tokens |
| `QboChain`, `ConnectProofs` | polls, backfill runs, connection changes of one company, over `QueueOps` |
| `QboCopy`, `CopyProofs` | what pages, polls and normalize read and write of one company |
| `BillingRows`, `BillingProofs` | customers, documents and payments as the normalizers write them, and the figures summed from them |
| `BillingLines`, `BillingProofs` | the lines of an invoice and the work areas they are billed for |
| `PayApplications`, `BillingProofs` | the pay applications of one fixed-price job |
| `CostLedger`, `CopyProofs` | cost documents turned into ledger lines, and the figures summed from them |
| `ImportBatches`, `ConfigProofs` | uploads, the reading of a file, the chart that follows |
| `Config`, `ConfigProofs` | divisions, categories, rules, mappings, burden rates and the history start |
| `Jobs`, `JobsProofs` | jobs with their estimates, outside ids and QuickBooks rows |
| `EstimateVersions`, `JobsProofs` | one estimate from its uploads to the contract |
| `Accounts`, `AuthProofs` | one person's account and sessions, and the throttle |
| `Memberships`, `AuthProofs` | firm memberships, memberships, entry rows and sessions of one firm |
| `Checklist` | the home page and a person who follows it |
| `SumTheorems` | facts about sums over finite sets, cited where money is added up |
| `MC*` | the instances for TLC: model values, symmetry, state constraints |

`TaskQueue` establishes what the modules above it assume: one open row per
tenant and key (`OneOpenPerKey`), and that every task ends (`EveryTaskEnds`).
`RunTriggers` and `QboChain` therefore keep one row per dedupe key, and
`ImportBatches` one per file and kind. `QboConnect` says when a company is
connected, `QboChain` when pages and polls are queued and `QboCopy` what they do;
in `QboCopy` a poll may always be queued. `BillingRows`, `BillingLines` and
`CostLedger` say what a normalize task writes.

The MC modules `MCEndings`, `MCSetup`, `MCCompany`, `MCBilling` and `MCRequests`
extend several of these. Components that meet only in rows which each module models
for itself are put beside each other there: the variable `part`, chosen at the
start, says which of them a behaviour follows, the others keep their first state.

Definitions under a comment beginning with "Faulty:" are plausible mistakes in the
code; no specification uses them. Put in place of the definition they vary, each
makes a property fail.

### How state and actions correspond to the code

**QueueOps, TaskQueue.** A row keeps status, attempts, key, lease holder, and
instead of times the two questions the statements ask: `due` (run_after <= now)
and `expired` (locked_until < now). `RunAfterPasses` and `LeaseExpires` are the
clock. A worker is a process with its place in the loop (`down`, `pass`, `run`,
`wait`), the tenants its pass has still to visit, its LISTEN socket with a
buffered notice, and the stop event. Each statement of `queue.py` is one
transaction and one step. The task function is a step that begins with the claim
and ends with complete or fail; in between the lease may expire, the process may
die, and another worker may claim the row. `fail` retries with back-off or ends
the row at `max_attempts`; `sweep_expired` ends what died in its last attempt.

**RunTriggers.** A request writes (and, for a link, queues the cost run), reads
`open_task`, enqueues, and commits: four steps, what it inserted becomes visible
with the last. A run reads in one step and writes in a later one. `rely` records
the keys the request found open by somebody else. `seen` and `lines` are what
the review queue and the ledger lines reflect.

**ReviewExceptions.** A run takes its time of day, collects, loads the rows and
persists, in four steps; a person's action loads and checks the row, takes its time
and commits, in three. An event carries the time of its transaction, and a page shows
the events in that order: `shown` is the status event it ends with, `elder` and
`passed` say who took the time before whom, and `overtaken` is where an event was
committed after one with a later time. A flush writes the columns
whose loaded value differs from the target (`Column`, `Flushed`) over the row
that is there, and the CHECK and UNIQUE constraints may refuse it, which rolls
the transaction back. What the generators would raise (`source`) changes at any
moment. Notes change no status and are left out.

**QboChain.** A poll or page is claimed, its first transaction decides whether
it may go on, Intuit answers or fails, its last transaction writes and queues
the successor, and `complete` follows; the process may die between any two. A pass
with nothing to claim still sweeps (`Sweep`).
Slots are a grid of `SlotTicks`. The routes (connect, disconnect, poll now, fresh
backfill, history start) are actions. The nightly drift chain has the shape of
the poll chain and is left out.

**QboCopy.** QuickBooks is a set of records with versions, deletes and update
times, shown up to `Lag` late. A page or a poll reads the source, loads the
latest raw versions, and commits new versions with their normalize tasks; the
unique index on versions refuses the second of two writers. A change answer is
cut at `CdcCap`. Two things are assumed: no line of a copied document has an
assigned work area (the foreign key then refuses the rewrite, `sync.py:163`;
`BillingLines` is about that), and a task is retried until it succeeds.

**PayApplications.** A request is up to three steps: the route reads the board
(prices, tied billing, invoice numbers, and for an issue the whole computed
view), the service reads the application rows and decides, the flush writes.
Figures are integers in cents and hundredths of a percent, with the code's half
up rounding (`earned`, `prefill_percent`, `previous_for`, `negative_issue`,
`draft_lines`, `amount_due`, `next_number` keep the code's names). `late` marks a
request whose lines another one has replaced since: its DELETE does not see the
new ones. `alone` is true while no two requests have overlapped. The tie to the
keyed invoice is computed on read and left out; so are dates: every invoice
counts as dated before the application.

**QboConnect.** A callback is claim, check, exchange, verify and store, each a
session; a read is the token (`AccessFor`, with the row lock kept while Intuit is
asked), the answer, the stored rows. Intuit keeps the refresh tokens it accepts and
replaces one at every refresh, also when its answer is lost: the client then sends the
spent token again and is refused, or gives up (`TokenAnswers`: "spent", "unseen").
`StartWithOtherSettings` starts the server and the worker together with keys of the other
environment or without the key of the stored tokens, which `access_for` meets next.
`lostAt` records the tenants whose token Intuit withdrew, replaced without a commit or
whose token the settings no longer use, `crossed` those whose company changed while
a read or another callback was under way.

**BillingRows.** A version of a record is stored with its task (`Arrive`), tasks run
in any order (`NormalizeRecord`), and a row is written with what was found at that
moment; a document fills in the payment lines that waited for it (`Filled`). Months
stand for dates and a payload is what the normalizers read of it. The sums keep the
code's splits: a payment counts on its own row and on the rows of its documents.

**BillingLines.** A request reads the board and decides, then inserts its event; the
event carries the start of its transaction. A line row belongs to the version that
wrote it, and the foreign key of an event keeps it.

**CostLedger.** The worker reads links and mappings (`LoadLookup`), then writes the
lines; edits commit in between. A full run is one document after another. Figures
are computed from mappings as they are when they are read.

**ImportBatches.** Object, row, task: three steps of an upload. The reading is a
session for the status, one for the rows and one, the finally block, for the end;
any of them may fail, and the worker may die between any two. A file without a row
(a header only) is loaded like any other and queues no follow-up. The follow-up applies
the chart unless a newer one is loaded or being read. `left` are the files that a
dying worker, or one whose last session failed, once left at processing.

**Config.** A run of the suggestions reads in one step and writes in another, and so
does the adding of a burden rate; a change of the history start is asked for
(`MaySetHistoryStart`) and committed (`SetHistoryStart`), with no lock between. Everything
else is one action under its unique key. `overtaken` and `doubled` record what met such a
run or another addition, `early` the history starts asked for before the first backfill
completed and not yet committed.

**Jobs.** Every write action is a step that reads and decides and a step that flushes
(`Commit`), where the unique keys are checked. `raced` collects the rows on which
two requests overlapped.

**EstimateVersions.** Header and work areas are uploaded, the normalizer reads,
builds a version and commits; people confirm kinds, approve and withdraw in two
steps. `Breaks` is the rule by which a later version ends an approval.

**Accounts.** A request reads the user row, and `Flush` writes the columns it changed
over the row that is there. `torn` records that a request wrote over a change it
had not seen. Codes are time steps, sessions carry the era of the change they
belong to. The throttle counts the rows of one address.

**Checklist.** Facts are what `service.py` reads: of QuickBooks the connection, the
latest backfill's run, whether the cursors of the last backfill and of the last poll are
fresh enough, and whether items have come. A person follows the primary line or a job's
line, surprises undo what was done. A run that a disconnect leaves open stays open, and
no other is started; a fresh backfill leaves a poll's old cursor in force.

**Memberships.** A request reads the principal (`Begin`, where `get_principal`
may clear a stale active tenant), decides (`Decide`, under the firm row's lock
where the code takes it), writes and commits. `lock` is the `FOR UPDATE` of
`_lock_firm`; an audit row's foreign key to the firm waits for it too
(`FirmHolders`). A session row stays locked between the steps of a request in two
places, and `HoldsSession` names them. `own` says whether the firm membership
loaded with the principal is still there: the ORM does not refresh it, so an
administrator who changes the own role decides on the loaded one (`HeldRole`).
`remove_firm_membership` is `Remove`, one `Clean` per company and `EndRemove`.
`link` stands for what ends a person's sessions before it writes its audit row
(`issue_activation_link`, `reset_totp`). Left out: waits for unique keys and for
membership rows; passwords and TOTP, which are in `Accounts`, so a login is one
request; a share of the firm row is not kept between steps, since whoever holds one
waits only for requests that need no more than a share.

## 3. Runs

| Run | Instance | What it shows |
|---|---|---|
| `queue_safety` | 2 workers, 1 tenant, 2 tasks, 2 attempts, 2 faults of any kind | dedupe, attempts, leases, wake-ups; the refinement of `SingleFlight` |
| `endings` | 2 workers, 1 task, 2 faults; 2 people, 5 files of which 3 or 2 are uploaded, 1 failing step; 2 accounts, 1 division, 2 surprises | every task, every batch and the set-up end, with the exceptions named; no loaded chart is newer than the one applied last unless a named batch stands in the way |
| `triggers_settle` | 1 write, 1 link, 2 faults | a committed change reaches the review queue, a link through the ledger lines |
| `exceptions` | 1 exception, 2 people, 1 run | columns and status agree through every overlap, and the history where its events were written in the order of their times |
| `chain` | 2 entities, 1 page each; 2 connection changes and a fault, or 2 faults | the poll chain does not fork and ends only as stated, running out of attempts included; a backfill ends |
| `copy_one` | 1 worker, 2 records on a full page, 1 crash | no change falls before the cursor; rows follow the raw versions; in the end they show QuickBooks |
| `setup` | 2 browsers and an administrator; 1 company, 2 QuickBooks companies, 2 readers; 2 workers, 1 record, answers cut at the cap | accounts and sessions; tokens through lost answers, crashes and other settings; raw versions; the throttle |
| `company` | 2 people, 1 company; 1 ledger account, 2 divisions, 2 rates; 1 document in 2 versions, 3 edits | roles and locks; configuration, with a history start asked for around a backfill; ledger lines and their figures |
| `billing` | 2 customers, 3 documents and a payment on 2 jobs, 3 new versions | rows show the latest version; every way to count the money ties |
| `requests` | 2 people on 2 jobs, 2 estimates, a customer and its sub-customer; 3 uploads, 2 approval events; 1 invoice in 2 versions, 2 work areas, 2 decisions; 3 pay applications on 1 work area, 2 changes around them | which overlaps of requests the unique keys and the rules withstand; what is frozen belongs together and stays |
| `triggers_links`, `chain_stuck` | see section 6 | statements of the repository that the code does not keep |

Bounds, and why the interesting cases fit:

- `TaskQueue`: two workers are enough for a reclaimed lease and a late finish,
  two tasks under one key for dedupe, two attempts for a retry and an exhausted
  row, two faults for a crash within the sweep of a crash. `MaxFaults` bounds
  crashes, lost sockets, database errors, refused listeners and SIGTERM
  together; expired leases are not counted, attempts bound them. Several tenants
  are only needed for what SIGTERM does inside a pass (section 6).
- `RunTriggers`: one write and one link share the refresh key and need different
  runs; `MaxFaults < MaxAttempts`, so no run is exhausted.
- `ReviewExceptions`: identities are independent rows, so one is enough; two
  facts tell a changed sentence from the same one; two people and a run are the
  smallest set in which three loaded rows are stale at once. `Bounded` lets one of the
  facts be only a warning and keeps an assignment from overlapping the other person's
  action. The proofs lift all of it.
- `QboChain`: slots of two ticks make "late" and "on the grid" differ; the clock
  reaches the second slot; two entities make the end of a backfill a meeting of
  two pages. `MaxRuns`, `MaxFaults` and `MaxChanges` bound backfills, failures and
  connection changes; `MaxTrouble` bounds the last two together (`MayFail`, `MayChange`):
  two changes and a failure, or two failures, which are every attempt of a task.
- `QboCopy`: `PageSize = 2` with two records makes a full page followed by an
  empty one; two versions, a lag of one tick and an overlap of one tick put a
  change on either side of the cursor; `CdcCap = 1` in `setup` cuts an answer.
  `copy_one` starts with the first record in QuickBooks, where nothing changes before
  the backfill has begun; `CopyBound` puts the fault of `setup` into the first
  backfill. The proof of `CopyHolds` lifts all of it, with any number of backfills.
- `QboConnect`: two callbacks of one company and two readers are what the checks,
  the unique index and the row lock stand between; `MaxStates` and `MaxTokens` bound
  sign-ins and the tokens Intuit issues, those whose answer is lost included.
- `Accounts`: two browsers and an administrator overlap; `MaxFails = 2` locks after
  the second failure; `MaxTick` and `MaxEra` bound time steps and changes that end
  sessions. `AccountBound` lets two requests overlap while no failure is counted and
  nothing is torn. The throttle has one more caller than its threshold leaves room for.
- `ImportBatches`: a chart, one with an account fewer and rows that cannot be read,
  a file whose reading breaks, one without a row and one without a readable row; two
  attempts. A behaviour uploads what is on its `shelf`: both charts and the file without a
  row when no step fails, a chart and one other file when one does.
- `Config`: one account decided by two rules over two divisions; days and rates
  small enough for every overlap of two periods. `AroundSuggest` keeps what the
  rules are made of fixed while a run of the suggestions is under way. Two people may ask
  for a history start before, while and after the first backfill runs.
- `Jobs`: two jobs and two estimates for a second home, a sub-customer for the
  parent row. `OneOverlap`: after two requests have overlapped on a row, requests
  follow one another.
- `EstimateVersions`: a sheet with a change of price, of name and of order makes
  each of the breaks; three uploads put a version after the one that broke.
  `OverlapEarly` lets requests overlap on the first version; `FirstUploads` makes
  what is uploaded before the normalizer first runs part of the initial state.
- `BillingLines`: a line and a surcharge that change places, a split in two parts
  with the right and a wrong sum. `OneOdd` lets one thing around the lines be out of
  its first state.
- `BillingRows`: a sub-customer's invoice, a credit memo, a receipt and a payment
  over several documents with a remainder; a month before the history start. Documents
  are on two jobs or on none. The proofs lift all of it, the sums too.
- `CostLedger`: two lines of an account and an item, an account that is expense-side
  only by its mapping, a void, a deletion and an unreadable version.
- `PayApplications`: three applications give an "earlier" and a "latest" issued
  one; prices 2 and 3 cents with 50.00 and 100.00 percent round differently;
  billed 4 of 3 exceeds 100.00 percent; `MaxNumber = 1` lets a keyed invoice move
  the next number. The constraint `Bound` of `MCRequests` keeps what follows an
  overlap to the first application with nothing changing around it; the last
  application is made with nothing changing.
- `Memberships`: two people are enough for two administrators who demote, remove
  and lock out each other, one company for an entry row, a client row and an active
  tenant that goes stale. Nothing else is bounded. The proof lifts both.
- `Checklist`: two accounts, one confirmed before the other; two surprises undo two
  finished lines, or disconnect a running backfill and age its cursor.

Symmetry is used over workers, tasks and people in runs without liveness.
`CHECK_DEADLOCK FALSE` stands where the instance may stop: bounds used up and
nothing enqueued.

### Fairness

- A worker's step is weakly fair: the loop has no exit but the stop event and
  errors, and systemd starts it again (`deploy/systemd/wip-worker.service`,
  `Restart=always`).
- Clocks advance: leases expire, `run_after` passes.
- A request that has started ends. Nothing makes a request arrive, a person act
  or QuickBooks change.
- `QboChain`, `QboCopy`: `claim_one` takes the row that is due longest, so neither
  polls nor the other tasks wait behind one another for ever: strong fairness per
  class of tasks, not per task. Faults are bounded by `MaxFaults`.
- `ImportBatches`: the worker goes on while a step of it is possible.
- `Checklist`: the person follows the primary line and the job's line; that
  is what the page promises such a person. A backfill whose pages all come ends while the
  company stays connected (`QboChain!BackfillEnds`); one whose page was refused does not.

## 4. Properties

What a run checks is named in the cfg; most are conjunctions of the parts below.

`TaskQueue`
- `OneOpenPerKey`: one tenant never has two open tasks under one key.
- `ExecutionsCounted`: a task is in no more executions than claims were counted.
- `LeaseDiscipline`: a worker inside a task loses its lease only by expiry
  (`LeaseLostByExpiry`); a running row ends or is requeued only by its holder or by
  the sweep of an expired lease at the last attempt (`OnlyHolderFinishes`); a
  finished task is never touched again (`TerminalIsFinal`).
- `NoLostWakeup`: a worker that waits under a live listener with nothing buffered
  has no prompt task waiting.
- `OneInFlight`: the refinement of `SingleFlight`.
- `EveryTaskEnds`.

`RunTriggers`
- `RunsSettle`: a committed change reaches the review queue, a link through the
  ledger lines, unless the run it relied on was claimed between its enqueue and its
  commit (`ChangeReachesQueue`, section 6); no insert meets the unique index late.

`ReviewExceptions`
- `QueueMirrors`: the status event with the latest time tells the status of the row,
  unless one with an earlier time was committed after it (`HistoryExplainsStatus`; section
  6 says what the page shows then); after a run with nothing committed since it began, the
  queue is what the generators raise (`FreshRunMirrors`).
- `RunDiscipline`: only a run resolves, and a second one writes nothing.

`QboChain`
- `ChainHolds`: at most one poll waits for a slot to come.
- `FailureKeepsChain`: the last scheduled poll ends without a successor only where its
  first transaction decided so, or where it is out of attempts after as many failures as
  a task has attempts.
- `BackfillEnds`: unless a page was refused for good.

`QboConnect`
- `ConnectionsAgree`: a connected company's stored token is one Intuit accepts, or
  its loss is accounted for by a withdrawal, an answer lost on the way or in a crash, or
  settings that cannot use it, and needs_reconnect has such a reason too (`TokenKept`);
  a tenant holds the records of one QuickBooks company, unless the company changed
  under a read or a callback (`OneCompanyHeld`).

`QboCopy`
- `CopyHolds`: what the copy does not hold lies after the cursor of the next poll
  (`NothingMissed`, `DeletesArrive`); a row shows the latest raw version or that
  version's task is open (`CanonFollows`); an open run has a page task for every
  entity not done (`BackfillProgresses`).
- `RawAppends`: versions are only appended, one at a time.
- `EventuallyCopied`: once QuickBooks is quiet the rows show it.

`BillingRows`
- `BillingFollows`: rows show the latest version they were written from, and every
  payment line found its document, in whatever order the tasks ran.
- `MonthsTie`: month totals, the sums on jobs and on none, a job's own figures and,
  with nothing refused or left to apply, the raw payloads give the same money.

`BillingLines`
- `LinesAgree`: every offered line is billed on work areas at most once, and
  an event keeps the line it is about.

`PayApplications`
- `OneDraft`, `IssuedExplained`, `IssuedStays`: as long as no requests overlap there
  is one draft, the amount due is explained by the frozen lines and billed before,
  the surcharge was decided, and an issued application keeps its lines and figures;
  a void one is not issued or drafted again through any overlap (it may be discarded).
- `EarnedGrows`: an issued application earns on a work area no less than the
  latest one before it, unless the price went down.

`CostLedger`
- `CostAgrees`: every line is on the job of its customer's link, no difference is
  reported where nothing is missing, and the figures are one another's sums.

`ImportBatches`
- `ImportsAgree`: a row has its object, a file is stored whole, with a follow-up when it
  has a row, or not at all, no batch is left at processing unless its attempts ran out,
  and an account is active only when the chart applied last holds it, inactive only when
  an applied chart lacked it (`ActiveIsHeld`).
- `NewestChartApplied`: with nothing open, a loaded chart is no newer than the one applied
  last, unless a follow-up is out of attempts or a newer batch without a chart stands in
  the way (`StandsInTheWay`): a file without a row, or one that was once left at
  processing and not loaded in the end. It is about which chart was applied, not about
  what the accounts then show (section 6).
- `EveryBatchEnds`: there comes a time when no accepted upload is unfinished, but for
  tasks that failed for good.

`Config`
- `ConfigAgrees`: no two divisions share a digit; after a run of the suggestions
  that met nothing, mappings are what the rules give; active rates of a division do
  not overlap unless two additions did, and `pick_rate` finds one where there is one.
- `DecisionsKept`: a confirmed mapping stays confirmed unless it was changed under a
  run of the suggestions, and after the first backfill has completed the history start
  moves only by requests that asked before, each once.

`Jobs`
- `EstimateHome`: an estimate is on one job, with its outside id, through any
  overlap; it has the outside id exactly when it is on the job, and programs hold
  only ignored ones, where no requests overlapped.
- `CustomerLinks`: a job has a customer exactly while it is linked, and a linked row
  is tracked, where no requests overlapped.

`EstimateVersions`
- `ApprovalsHold`: an approval that applies is at the price that is shown, and what
  it approved had been seen; the count of unapproved change orders agrees.
- `VersionsFollow`: the contract counts every price once, the baseline is the
  version at the sale, new orders are suggested, the latest version shows the uploads.
- `BreakIsForGood`: a broken approval is not revived.

`Accounts`
- `AccountsHold`: a session belongs to the account as it is now, an enrolment has a
  secret, a code or link is accepted once, a firm user works only with a second
  factor; the overlaps that lose a write are excepted by `torn` and `late`.
- `ThrottleBounds`: rows per address are bounded by the threshold and the requests
  in flight.

`Memberships`
- `AdminStays`: an administrator is left, through any overlap.
- `RequestsApart`: as long as no requests overlap nobody holds a firm role and a
  client role; requests wait in a circle only when one of them has cleared its
  active tenant or ended sessions before its audit row.
- `RemovalCleans`: a removal that answers leaves neither a firm role nor an entry
  row, whatever an interrupted one left before.

`Checklist`
- `HomePageLeadsOn`: a person who only does what the page asks ends with a company
  that is set up, with a current copy, and a job with nothing open. Two dead ends are
  excepted by name: a run left open for ever that never brought the items
  (`ItemsNeverCome`), and a poll's cursor too old (`NeverCurrent`); a run left open
  after they came only excuses the copy.

## 5. Proofs

All theorems hold for every value of the constants that satisfies the named
assumptions of the module.

**TaskQueueProofs** (assumes: NULL is no worker, key or tenant; `NoTask` is no
task; `MaxAttempts >= 1`). The inductive invariant is `TypeInv` (shapes, and a
worker that runs has a task) with `LeaseColumns` (a lease holder exactly while
running). `EveryRowStep` reduces every action to seven kinds of change of one row
(`RowStep`); the action properties follow from it by cases. `DedupeSafe` adds that
a step that opens a row either keeps its tenant and key or inserts it where
`Conflicts` found nothing.
- `LeaseIsKept` joins `TerminalStays`, `LeaseSafe` and `FinishSafe`.
- `QueueKeepsPromise`: under each key the queue implements `SingleFlight`. Every kind
  of change of a row is a step of the abstract work or a stutter.
- `ClaimsAreCounted`: `CountedInv` says that the set of workers inside a task is
  finite and no larger than the row's attempts, and that an absent row was never
  tried. A claim adds one worker and one attempt; nothing else adds a worker.
- `WakeUpIsKept`: `WakeInv` says that a task enqueued to run at once and not yet
  taken (`Fresh`) can be claimed, and of a worker whose listener is live and has
  buffered no notice since its pass began (`Watches`): while it waits nothing is
  fresh, in the pass only tenants it has still to visit have something fresh. The order in
  the code (listen, then pass, then wait) is what makes it inductive.

**BillingProofs** (assumes, for `PayApplications`: bounds, prices, amounts and percents are
naturals, and `NoHold` is no percent). `VoidStaysVoid`
needs no more than the shape of the tables: the one write that could issue a
void row again is refused by the table's check. The others rest on
`Solo`: while no requests have overlapped at most one is in flight, and it knows
the row it will write (`Knows`): a new draft knows that there is none, a redraft
or a discard that its row is a draft, an issue that its amount due is what the
lines will earn once the held percents are written, and that the rate fits the
answer, a void that its row is issued. `HoldingSame` shows that leaving out the
percents that are there already changes no line. Theorems: `OpenDraftIsOne`,
`IssuedStaysKept`, `DueIsExplained`, `SurchargeIsDecided`; `IssuedIsExplained` and
`IssuedIsKept` join them.
`EarnedGrows` needs more of the same state (`Growing`): no two rows that are there have
one number, so "the latest earlier application" is one row; values, percents and numbers
are naturals; and the lines an issue will write, held, stand at that row's percent
or earn no less than it (`HoldFits`), from the moment the route computed them until the
flush, whatever is repriced or billed in between. That rounding half up keeps the order of two
earnings at one percent is `EarnedMonotone`. Theorem: `EarningsGrow`.
For `BillingRows` (which assumes that customers, documents and payments are different records
that NULL is none of their rows and no job, and
that there are finitely many of each and of months) `RowsInv` adds that the versions stored are among
the payloads (`VersionsFit`) and, of every row at every moment, that it shows a version that
could be applied (`RowsShow`): what `RowsFollow` says of a row after its last task needs what
is true of it before. Each applier is a lemma of its own (`DeleteStep`,
`BuyerStep`, `DocumentStep`, `ChequeStep`, `RefusedStep`) about what it does to its record's
row and to the rows that name it. Theorem: `BillingRowsFollow`.
`MonthsTie` compares sums over the same money cut in different ways: by month and then
job, by job and then month, by document, by line. It needs of the rows that amounts are
integers, that every row counted is of a month and of a job or none, and that a document's
lines add up to it (`FiguresShow`). Then each side is a sum over pairs of a row and a key,
and two sums are exchanged (`SumByFirst`, `SumBySecond`, `SumOfBoth`). What a job has
collected is not one of the parts that are cut, but what was applied on it with what was
paid straight in, less what was taken out again (`CollectedTies`). Theorem: `MonthsAlwaysTie`.
For `BillingLines` (which assumes finitely many work areas, that a split's parts are whole
amounts, and that the erased document is none of the shapes) `LinesInv` says what is
there: versions that are only appended and lines built from one of them (`BooksShaped`),
events that are of a line that is there and carry parts divided out for it
(`DecisionsFit`), and requests whose writes were divided out for the line they name when
they read it (`AsksKnow`). The lines are only rewritten where no event refuses it, and a request whose line was
rewritten is refused, so this stays true whatever commits in between. `LinesCountOnce` then is a table of lines
against work areas added by rows and by columns (`SumExchange`, `CountedOnce`).
Theorem: `LinesKeepAgreeing`.

**AuthProofs** (assumes, for `Memberships`: the first administrator is a user,
`Nobody` is none, role and tenant names differ from the other strings; for `Accounts`:
bounds are naturals, browsers and callers are finitely many, the administrator is no
browser, `Free` is none of the throttle's answers). `AdminStays` is not inductive: a demotion counts in one step and writes in
another. `AdminInv` adds the type, with the lock held exactly by the request that
decided and has not committed, and `AnotherIsLeft`: while that request holds the
lock and its operation takes the role away, somebody other than its target is an
administrator. Only that request can take the role from anybody; creating a firm
membership writes where there is none. Theorems: `LockIsExclusive`,
`FirmKeepsAnAdmin`.
`RequestsApart` needs `OneByOne` while `alone`: at most one request is under way, and
it is `Steady`: what it decided still holds of the rows it will write. The circles
of waiting requests need no invariant: the one firm row has one holder, so a circle must
also wait for a row of a session (`CirclesAreKnown`). Theorems: `RequestsStayApart`, `RemovalsFinish`.
For `Accounts` the invariant `AccountInv` speaks of every request under way (`AskHolds`): it
holds the row it read, keeps or ends the enrolment it saw (`KeepsEnrolment`), opens a
verified session only with a row it changes and that is enrolled (`OpensVerified`), and
uses up what it accepts (`UsesUp`); the administrator's holds a link nobody has seen
(`FreshLink`). `TakenSpent` says of all that was ever accepted that the row in force
no longer takes it, unless a write went over another (`torn`). The bound on the changes
that end sessions counts those under way (`Ending`). The throttle counts the rows there
and those the admitted requests may add. Theorems: `AccountsKeepHolding`,
`ThrottleIsBounded`.

**JobsProofs** (assumes: there is a job, customer rows form a tree of parents, NULL
is no customer row). `IInv` has the shapes, an estimate on at most one job
(`OneHome`), `JobsInOrder` (an estimate's outside id exactly while it is linked, only
ignored ones in a pool or program, a customer exactly while a QuickBooks row is
linked, for jobs no overlap has touched), `LinkedIsTracked`, and of every request
under way what its write will leave behind (`Pending`). A request decides from what it
read and writes later; while nobody else has written the same rows (`raced`),
`Pending` stays true until its write makes it so. Theorems: `EstimatesAreHome`,
`CustomersFollowLinks`.
For `EstimateVersions` (which assumes that a sheet with work areas names at least one, with
a price in cents, as the template reader gives it) the argument is one about histories:
every step leaves what the versions that are there show (it may mark one as the baseline
or change a kind) and may add one (`VersionsGrow`), so what an approval, or a request that decided one, says of the version it
was shown (`EventFits`) stays true. `EstInv` adds that a load is of an earlier upload or the
latest, and that a version has the numbers of the upload of work areas it names
(`HistoryFits`, `FromSheet`), which is why the version that becomes the baseline of a
sale shows what was sold (`BaselinePlaced`). Theorems: `ApprovalsKeepHolding`,
`BreaksAreForGood`, `VersionsKeepFollowing`. Its figures add up the work areas of the
baseline and of each later version that counts, which are disjoint sets (`PricesOfBoth`,
`EstInvContract`); a sheet is assumed to have finitely many rows.
For `ReviewExceptions` (which assumes that there are identities and facts, that `Nobody` is
no member and `NoIssue` no issue) `HistoryExplainsStatus` is not inductive: a
flush writes only the columns that differ from what was loaded, so one needs to
know what a loaded row says of the row that is there. `QueueInv` adds: a row that was
loaded is still a row (`RunLoadedThere`, `PersonLoadedThere`: nothing deletes
one), a person's action loaded a status it accepts (`PersonSaw`), and a run that
is still clean has collected exactly what the generators raise and, once it has loaded,
loaded exactly what is there (`CleanRun`). An identity that is not overtaken after a commit
shows that commit's event, or had none in it and was not overtaken before (`RecordedShown`),
so nothing need be known of the order in which the times were taken. The CHECK constraints do the rest: a flush over a
row whose status somebody else changed either is refused or leaves columns and
status in step (`RunFlush`, `PersonFlush`). Theorems: `ExceptionsTyped`,
`HistorySafe`, `MirrorSafe`, `ResolvedByRun`, `SecondRunSafe`, for any number of
runs and people; `QueueIsMirror` and `RunsAreDisciplined` join them.

**ConfigProofs** (assumes: days are integers, rules are rows over divisions and
categories, `Unset` is none of the rows). Three invariants over disjoint variables: of the
mappings (`MapInv`: a run of the suggestions never decides for a confirmed mapping it
saw, and while `fresh` it will write what the rules give), of the rates (`RateInv`: unless
two additions both read first, the period being added clashes with no active one), and
of the history start (`PolicyInv`: who may still write once the backfill has completed
asked before it did). The first rule that holds
for an account is the least element of a set of naturals (by well-foundedness); that
`pick_rate` finds the covering period counts a set of at most one member.
Theorems: `ConfigurationAgrees`, `DecisionsAreKept`.
For `ImportBatches` (which assumes that a file has no row exactly when it is unreadable,
broken or empty)
`ImpInv` places every task and batch against the one worker's step: a task of a
batch that is known, uploads ranked without a tie (`WorkFits`, `RanksFit`), a batch's
status explained by its file and by the rows that are stored (`RowsFit`, `OutcomesFit`),
and nothing left at processing without a task or a used-up one (`ProcessingFits`).
`NewestChartApplied` asks what is true when all is quiet; it follows from `NewestFits`, which
says of every chart at every moment that it waits for its turn, is older than a batch that
is a chart or stands in the way, or is no newer than the one applied last. That needs `LeftFits`: nobody else is at
processing while the worker reads. Theorems: `ImportsKeepAgreeing`, `NewestChartIsApplied`.

**ConnectProofs** (assumes: bounds are naturals, `Nil` is no company, reader, callback
or read). `ConnectionsAgree` is not inductive: what a callback or a reader has in its
hands will be stored later. `IInv` adds that every token was issued for the company of
who holds it (`TokensFit`), that no two connections, callbacks or refreshes hold one
token (`TokensApart`), that a refresh under way has the row's lock and the connection
it read (`LockHeld`), that the token it was given is accepted or its loss accounted for
(`TokenInHand`), and that what was read, or is being read, is the tenant's one company
unless it changed underneath (`OneCompany`). Theorem: `ConnectionsKeepAgreeing`.
For `QboChain` (which assumes its bounds are naturals, and a slot, a page and an attempt
at least) `ChainInv` places the polls on the slot grid (`SlotsOnGrid`): an open poll is
one whose slot has come or the one of the next slot, and only the former can be taken or
be running; so a successor counted from a late poll is the slot that
`ensure_scheduled` would have seeded. `SlotGrid` is the arithmetic of `next_cdc_slot`: when the clock moves, the next slot
stays or is the moment reached. `KeptInv` adds that a poll past its
first transaction has another one open (`SuccessorOpen`) and that the attempts of an
open poll are explained by failures (`AttemptsAreFaults`). Theorems: `ChainNeverForks`, and
`PollFailuresKeepChain`, which covers running out of attempts: with one attempt per
failure counted, a poll out of attempts has seen as many failures as a task has attempts
(`PollGivenUp`), and a sweep ends no other (`SweepKeepsPolls`).

**CopyProofs** (assumes: `Lag <= Overlap`, records are finitely many with positive
Ids, page size and cap are positive). For any number of workers `BaseInv`: every
cursor and watermark lies behind the clock by the overlap, a poll is queued only
where there is a cursor, a task is in one worker's hands. It gives
`RawVersionsAppend`. For one worker (`OneWorker`) `LoneInv` adds, for what the worker has in
hand (`LoadOf`, `HandRows`, `DoneOf`): what it loaded is what is there; a row it
read is what QuickBooks says or changed since, later than any cursor that can be
set before it is read again (`Late`); a task it has finished can be removed. `MissInv` is
the heart: what the copy does not hold lies after the next cursor, of the records
an open backfill has been over (`Covered`) also after its watermark, and a first
backfill begins with an empty copy. A page is the records up to its last Id
(`LastOfPage`), by counting the smaller Ids. The step that finishes a backfill makes every
live record `Covered`, so its watermark may become the cursor; deletes are what
`Unasked` counts. Theorem: `OneWorkerCopies`. With two workers its conclusion is
false (section 6).
For `CostLedger` (which assumes that documents, their lines, jobs, categories and months
are finitely many and that NULL is no job, row or task) `LedgerInv` relates the rows to
what was sent and to what the task in hand read. `LookFits` and `JobsFit` say when its
lookup is still what is there: items change between tasks only; a link that changes queues a job-ids run and a
mapping that moves the expense side sets `remapped`. `ShownFits` says that, unless a
full run is ahead or under way, every document's rows show its newest payload or that
version has its task. With nothing queued both give `LinesOnTheirJob` and
`NoFalseDrift`; the sums follow document by document (`RawIsPosted`, `NothingPosted`), and
those of the pages by job and category (`JobsShow`, `WorkingParts`) and by document and
customer (`UnassignedShow`). Theorem: `CostsKeepAgreeing`.

Only model-checked: everything about liveness (`EveryTaskEnds`, `RunsSettle`,
`BackfillEnds`, `EventuallyCopied`, `EveryBatchEnds`, `HomePageLeadsOn`) and
`ENABLED`, which the prover does not do.

## 6. Where code and repository disagree

Kept as runs whose counterexample TLC finds:

- `triggers_links` (`LinkReachesLines`): a link committed after a running job-id
  run has read the aliases queues no run of its own, since `request_cost_run`
  dedupes against the running row and has no follow-up key as `request_refresh`
  has. The lines keep their old job.
- `chain_stuck` (`OpenRunHasPage`): a page that starts after the connection was
  lost is refused without closing its run. The run stays open, and "A backfill is
  already running." answers every new one.

Stated in the modules and refuted by TLC under the constants given, without a
configuration of their own:

- `TaskQueue!StopClaimsNothing` (docs/OPERATIONS.md:300-301, "a task in flight
  finishes, then the loop ends"): after SIGTERM the pass still claims from the
  tenants it has not visited. One worker, two tenants, `FaultKinds = {"stop"}`.
- `TaskQueue!OnlyStopEnds` (runner.py, "polling only"): a listener that is refused
  ends the loop. One worker, `FaultKinds = {"listen", "stop"}`.
- `RunTriggers!QueuedRunTakesChange` (run.py, "A run already queued takes the
  change"): the queued run may be claimed, and read, between the request's
  enqueue and its commit. `Requests = {c1, c2}`, `Links = {}`, no faults.
- `ReviewExceptions!DismissedStatesJudged` (D-46): a dismissal that overlaps a run
  may dismiss a sentence whose facts the person never saw. One person, one run.
- `ReviewExceptions!HistoryInOrder` (domain/exceptions/service.py:346-357, the page shows
  the row and its events by `occurred_at`): a run takes its time before it reads, so a
  dismissal committed before it loads, and reopened by it, is the later event on the page
  of an open exception. The constants of `exceptions`.
- `ReviewExceptions!NoBlockCloseDismissed` (docs/BLUEPRINT.md:331): a dismissed
  warning whose severity rises to block_close stays dismissed (run.py:118).
- `PayApplications!NoNegative` (pay_applications.py:17-18, "no application ever
  shows a negative"): `negative_issue` holds a line at its previous percent, not at
  its previous amount; after a price went down it shows a negative amount earned.
  One person, `Prices = {2, 3}`, `Amounts = {0}`, `MaxApps = 2`, `MaxChanges = 1`.
- `ImportBatches!EmptySupersedesNothing` (imports.py:17-18, chart.py:76-78, a batch that
  ends without a row supersedes nothing): a file of a header only ends loaded, is taken for
  the newest chart and has no follow-up; the chart before it is never applied when its own
  follow-up comes late. The constants of `endings`.
- `ImportBatches!AccountsShowChart` (chart.py:3-5): an account that the newer file repeats
  unchanged has no raw row of that file; when the older chart comes late it is superseded
  and the account is never added. The constants of `endings`.
- `Config!HistoryFixed` (api/config.py:524-525, "it cannot move"): the check takes no lock,
  so a request that asked before the first backfill completed moves the date after it. The
  constants of `company`.
- `Checklist!DoneHasCopy` (checklist.py:123, "QuickBooks is connected and a backfill has
  succeeded"): a run that a disconnect left open counts as one under way, so the line is
  done without a copy. The constants of `endings`.
- `Memberships!NeverWaitCycle` (core/auth.py:338-340, "the request transaction must
  not hold a row lock on the session for its whole duration, or an admin ending
  this user's sessions concurrently would deadlock with it"): clearing a stale
  active tenant keeps the row locked (core/auth.py:363), and a link deletes
  sessions before its audit row waits for the firm row. The constants of `company`.
- `Memberships!RolesApart` without its first condition (admin.py:14-15): a firm
  membership and a client row created at the same time do not see each other.
- `QboChain!FreshBackfillHelps` (docs/OPERATIONS.md:1376-1378, status.py:36 "start a
  fresh backfill"): `resume_cursor` prefers the latest successful poll for ever, so
  the fresh backfill that the status page asks for does not bring the polls back.
  `MaxClock = 5`, `MaxRuns = 2`, one entity.
- The first exception alone of `QboChain!FailureKeepsChain` (schedule.py:5-7 and
  docs/OPERATIONS.md:1365, "a failed poll cannot end the chain"): the successor is queued
  inside the poll's first transaction; when every attempt fails before that commits, the
  task ends and no poll is open until the next connect, start-up or backfill. The
  constants of `chain`; the property that is checked names this case as its second one.
- `QboChain!ChainSeeded` (schedule.py): an open "now" poll, which queues no
  successor, keeps `ensure_scheduled` from seeding the chain. `MaxClock = 2`,
  `MaxRuns = 1`, `MaxChanges = 3`.
- `QboCopy!DeletesArrive` with two backfills (docs/OPERATIONS.md:1363-1364): a
  second backfill finished before any poll has succeeded moves the cursor past a
  delete, and a backfill reports no deletes. `lost` counts such a record (`Unasked`)
  beside the stubs an overflowing answer leaves out; the properties speak of the others.
- `QboCopy!BackfillProgresses`, `CanonFollows`, `NothingMissed` with two workers:
  `run.detail` and the latest-version check are read without a lock. OPERATIONS.md
  says "Run one or more; they share the queue safely", BLUEPRINT.md:81 runs one.
  `Recs <- TwoEntities`, `PageSize = 2`; `Recs <- OneRecord`, `PageSize = 2`,
  `MaxClock = 2`.
- `PayApplications!IssuedNeverChanged` (pay_application_service.py:8-9, "never
  changed by any route"): with two people a redraft or a discard decided on the
  draft is written after the issue. The constants of `requests`.
- What an issued application shows as earned before it (`previous_for`) is
  computed from today's rows, so voiding an earlier one changes it; this is the
  code's choice of what to freeze and is not stated as a property.

Met while modelling, and left in words (the property named excepts exactly these
cases, or the statement has no run):

- Jobs: models.py "a pool has none (the service)", but `update_job`
  (domain/jobs/service.py:1010) lets a recurring_service program with an ignored
  estimate become a pool; `ProgramsCountNothing` says no more than that it is ignored.
- Imports: imports.py "the dedupe key stops a second run" holds while the follow-up is
  open; "no batch is left at processing" does not hold when the session of the
  finally block fails or the process dies in the last attempt (`NoneLeftProcessing`
  names these). An older chart superseded by a batch that a dying worker left at
  processing, and that failed or held nothing in the end, is never applied
  (`StandsInTheWay`).
- Charts: a chart uploaded again with the content of an earlier one is that earlier
  batch, so the accounts keep what came in between (config/chart.py:11-14). A
  mapping confirmed while a run of the suggestions is under way is overwritten by it
  (chart.py "never overwrites a confirmed mapping"; `overtaken`).
- Burden rates: two additions at the same time both find no overlap; the row locks do
  not cover the row the other inserts (`doubled`).
- History start: it may be changed while the first backfill runs with the old one, and
  after it has completed by a request that asked before (`early`, `HistoryFixed`).
- Connection: a company that changes under a read or another callback can leave records of
  two companies in one tenant (`crossed`). A token answer that is lost costs a reconnect,
  since the client repeats the grant with the token Intuit has already replaced
  (client.py:102-130); the same follows a restart with other keys (tokens.py:92-103).
- Job links: an untrack beside the link of the same row leaves the linked row untracked
  (`LinkedIsTracked`); an unlink beside the link of a second row clears the customer of a
  job that is linked (`CustomerFollowsLinks`). `raced` excepts exactly the jobs and rows on
  which two requests overlapped.
- Webhooks: one that arrives while a "poll now" is running is deduplicated against it.
- Estimates: two normalizers at once could write a version from older raws; the queue
  runs one.
- Billing lines: a document whose line has an assignment is not rewritten, the foreign
  key refuses it (docs/briefs/F08.4.md, "Discovered"); of two overlapping assignments
  the one whose transaction began later counts.
- Accounts: a login or a verification that overlaps a password change leaves its
  session behind (`late`); overlapping uses of two recovery codes bring a used one
  back, overlapping codes lower the last step, a login that clears a pending secret
  beside its confirmation leaves the account enrolled without a secret, and
  overlapping failures lose a count (`torn`).
- Home: the QuickBooks line is shown done while the first backfill still runs
  (status.py:148-150), and for good when its run is left open, by a disconnect
  (tasks.py:127-128) or a page refused for good: `start_backfill` starts no other
  (schedule.py:181-182), and the policy keys that name items cannot be decided unless
  they came before (`ItemsNeverCome`). A poll's cursor more than 29 days old outlives a
  fresh backfill (schedule.py:119-124), so the page asks for one again and again
  (`NeverCurrent`). A sold job without a link reads "Backlog" before its unapproved change
  orders (briefs F07.4:194, F08.1:411).
- Costs: cost/models.py "confirming a mapping later changes every figure at once with
  no re-sync" does not hold for an account that is expense-side only by its mapping:
  its lines are there only after a full run. A job-cost line whose category is
  inactive or unset is in the tie-out and not in the job's cost by category.

## 7. Not modelled

Reports' layout, exports, PDFs, the front end and the status pages read and lay out.
Workbook readers and field conversions map a format. Row-level security is
Postgres' (every model but `TaskQueue` and `QboConnect` is of one tenant). Audit rows
are appended in the transaction of the change they record. Migrations and scripts are
run by hand.

## 8. Plan

Done, in this order: `QueueOps` and `TaskQueue` (everything else runs on them),
`RunTriggers`, `ReviewExceptions`, `QboChain`, `QboCopy`, `PayApplications`,
`Memberships`; `Jobs`, `EstimateVersions`, `BillingRows`, `BillingLines`,
`CostLedger`, `ImportBatches`, `Config`, `QboConnect`, `Accounts`, `Checklist`; the
refinement of `SingleFlight`; the proofs of section 5.

Next: `RunTriggers` as an implementation of "every committed change is reflected".
