# Verification of extension-jobs

TLA+ models, TLC runs and TLAPS proofs about the parts of extension-jobs that
must not go wrong when things overlap, fail or come late: the durable queue and
the browser workers on it, an application up to the one click that submits it,
campaigns, the catalogue of jobs, approvals and sessions, résumés and their files,
the tabs of the user's Chrome, the assistant's streams and the job search. Source
references are to files under `src/` at the commit these modules were written
from; `PROJECT.json` maps every definition to its lines.

## 1. The system

extension-jobs is a local job-application assistant. An **orchestrator** daemon
(HTTP API for the extension, the dashboard, the CLI and tool hosts) keeps all
state in one SQLite file and a directory of encrypted files, and drives a Chrome
instance over CDP, either itself or through **browser worker** processes that
share the SQLite file. Inside a process the code is single-threaded JavaScript on
`node:sqlite`, whose statements are synchronous: what lies between two `await`s
runs without interruption in its process, while any other process may run between
any two statements.

| component | state | operations | talks to | what is hard |
|---|---|---|---|---|
| `packages/persistence/src/queue.ts` DurableQueue | `queue_jobs`, `queue_results`, `queue_cancellations`, `queue_progress` | enqueue, claim, claimById, heartbeat, complete, completeWithResult, fail, cancel, requestCancellation | every process, by SQL | leases that lapse, late holders, attempt limits, multi-statement operations |
| `apps/playwright-worker` BrowserWorkerRuntime | active jobs, abort controllers, timers | pollOnce, stop, heartbeat timer | queue, handlers | crash, stop, lost lease, errors that must be classified |
| `worker-client.ts`, `queued()`/`waitForWorker()` | the caller's wait | enqueue, poll, time out, emergency stop | queue | timeout racing a late result |
| `wuzzuf-tool-service.ts` WuzzufConnectorService | `applications`, `submission_attempts`, `approval_requests`, `locks`, controllers, pages | prepare, fill, requestSubmissionApproval, decideApproval, submit, cancel | store, adapter, human | overlapping calls with stale copies, lock leases, crash around the click |
| `wuzzuf-adapter.ts` and the other sources | a page per application, the tab kept for a check | startApplication, fillFields, validate, submit, search, readJob | Chrome | pages that are rendered anew, lists that move |
| `chrome-cdp-manager.ts` | browser, context, connection promise | connect, disconnect, openTab, the disconnected event | Chrome | events of an older connection |
| `service.ts` EmergencyStop, runCampaign; `scheduler.ts` | stop flag, `campaigns`, `campaign_runs`, `campaign_daily_usage` | tick, execute, runCampaign | queue, store | claim race, crash during a run, limits |
| `store.ts` jobs, dispositions, manual actions | the `jobs` table and what hangs on it | saveJob, upsertJob, setDisposition, listJobs | all services | duplicates, lists that move while paged |
| `store.ts` idempotency and locks | `operation_idempotency`, `idempotency_records`, `locks` | begin/finish/clear, acquire/release | all services | rows left by a crash |
| `dashboard-api.ts`, `server.ts` | sessions, csrf, request windows, approval tokens in memory | pair, login, decide, submit, notes, chat | services, browsers | answers in flight, expiry, restart |
| résumé import, tailoring, rendering, artifact store | sources, snapshots, `tailored_resumes`, `artifacts`, files | import, approve, tailor, render, remove, delete all data | store, worker, CLI | file and row written apart, repeated keys |
| `provider-sdk`, the chat routes, the dashboard's and the panel's readers | streams | streamChat, chat, streamAssistant | model provider | cut lines, stop, failure in the middle |
| `JobSource`s and MultiJobSource | tabs, results | discover | Chrome, Composio | sources that fail apart |
| destination resolver, site policy, form engine, ATS adapters, scoring, workflow engine | none | pure functions | services | boundaries |
| extension, dashboard, CLI, OpenClaw and Composio plugins | UI state | call the HTTP API | server | two doors to one decision |

What makes each correct:

- **Queue**: a lease has one holder; only the holder's statements count; a
  submission has one attempt; a result agrees with the final status; a finished
  job stays finished; what can be claimed is claimed.
- **Worker and coordinator**: the stored result comes from the latest attempt; no
  row names a worker that does not work on it; callers are told the truth; every
  job settles while a worker is left; a submission's handler starts once at most.
- **Application lifecycle**: one click per application, with a granted approval
  that is used up; what is clicked is what was reviewed; never after a
  successful cancel; never for a dry run; the two tables agree; one open
  application per job. Its **form**: what the record calls filled is what is sent,
  and a form with a sensitive question is never sent by the program.
- **Campaigns**: the daily limit holds, a posting is applied to once, a schedule
  fires once per slot, and the run's record agrees with the queue's row.
- **Catalogue**: one application per posting whichever door it came in by, except in
  three overlaps that are named; a list that is paged through misses nothing that kept
  its place; an answered manual action stays answered.
- **Dashboard and approvals**: a session's window never refuses what the server's
  limiter let through; signing out holds; who approved can submit.
- **Résumés**: a row has its file; an approval is for the document that was
  shown; a key makes one document.
- **Tabs**: a tab has one master; the end of an old connection leaves the current
  one alone. **Search**: found once and in order, no tab left behind.
- **Assistant**: an answer is shown whole and unmixed, and the emergency stop ends it.

## 2. The modules

| module | models | kind |
|---|---|---|
| `DurableQueue` | the queue as an open system: any caller, any statement, any time | component |
| `AtMostOnce` | what the docs promise of a submission: handed in, its one worker's look finds it open before its handler starts, started at most once, settled for good | abstract |
| `BrowserWorker` | worker runtime, coordinator and environment, composed with `DurableQueue` (EXTENDS) | component, composition |
| `Submission` | the applications to one job, their rows, their pages, the human and the site | component |
| `FormFilling` | one application control by control, from prepare to the click | component |
| `Campaigns` | scheduler, routes, runs, locks, limits, the queue's rows of campaign runs | component |
| `Catalogue` | jobs, applications, decisions, manual actions, paged lists | component |
| `Dashboard` | limiter, sessions, tabs, versioned notes | component |
| `Approvals` | the two doors to a submission, composed with `Dashboard` (EXTENDS) | component, composition |
| `Resumes` | résumés, tailored documents, rendering jobs, files, keys | component |
| `BrowserPages` | Chrome connections and tabs under overlapping calls | component |
| `Discovery` | one search over several sources | component |
| `Assistant` | streamed answers, provider to reader | component |
| `BrowserWorkerProofs` | theorems about the queue and the workers | proofs |
| `CampaignProofs` | theorems about the campaigns | proofs |
| `SubmissionProofs`, `SubmissionOutcomeProofs` | theorems about the submission: types and clicks; consent, refusals, tables, review | proofs |
| `ApprovalsProofs` | theorems about `Dashboard` and `Approvals` | proofs |
| `ResumesProofs`, `BrowserPagesProofs` | theorems about résumés, about tabs | proofs |
| `LoopProofs` | theorems about `Discovery`, `Catalogue`, `FormFilling`, `Assistant`, whose steps loop over data | proofs |
| `MC...` | small instances for TLC | model checking |

Definitions commented "Mutant" are plausible bugs; section 3 says what they are for.

### DurableQueue

One variable per column that decides anything (`status`, `lockedBy`, `attempts`,
`maxAttempts`), `due` for `run_after <= now`, `expired` for a `locked_at` older
than the lease, `result` for `queue_results`, `cancellations` for
`queue_cancellations`. Time is only its comparisons: `RunAfterPasses` and
`LeaseExpires`. One action per method. `claim()` is one transaction
(`BEGIN IMMEDIATE`) and one action; `fail()` (UPDATE, then INSERT) and
`requestCancellation()` (SELECT, INSERT, UPDATE) are split at their statements,
and the process may die in between (`failing`, `cancelCalls` hold the halves).
`claim()` takes the oldest eligible row; the model takes any eligible row, which
allows more. `queue_progress` is left out: nothing reads it back into a decision.

### BrowserWorker

`pc[w]` is where `pollOnce()` is. A worker holds one job (the runtime's concurrency is
1). The look for a cancellation (`CheckJob`, `worker-runtime.ts:24`) and the start of
the handler (`StartHandler`, `:27`) are two steps, as the statements of `progress()`
lie between: a cancellation that arrives there ends the row and the handler starts all
the same. `HeartbeatTimer` is the interval of `worker-runtime.ts:22`: it renews the
lease, or aborts the handler when the lease is lost or a cancellation was requested,
and can run only while the handler is awaited. `HandlerEnds` gives every outcome a
handler can have; `Throw` is the classification of errors. `Catch` follows the
runtime's cases in their order: cancelled (which a lost lease and a stop look like
too, as both abort the signal), else failed, which has no effect on a row somebody
else holds. `Stop` is SIGTERM, `Crash` is death at any point. The coordinator's three
statements per poll (result, status, deadline) are `PollResult` and `Abandon`. Ghost
variables: `lease` (the attempt number the worker claimed), `starts`, `author` (the
attempt whose result is stored).

### Submission

A call is one run of a method of WuzzufConnectorService. As in the code it keeps its
own copy of the application (`frame[c].rec`), read at the start, and writes the whole
copy back (`Save`) over whatever is stored. The code between two awaits is one action,
except where another process or a crash sees its halves: the outcome of a submit is
the record (`SubmitConfirmed`, `SubmitUncertain`) and then `submission_attempts`
(`SubmitSettles`), two statements of `store.ts:135`. Answers, résumé and profile facts
are folded into one `values` that a page holds; a `form` stands for the fingerprint.
Whether the site finds the form valid is a nondeterministic choice. `Inline` chooses
between the two deployments:

- inline: the methods run in the orchestrator, as many at once as `Calls`, and see
  its emergency stop; approvals are decided between awaits, atomically;
- worker: they run in one browser worker, one after the other (one call), with the
  worker's own emergency stop that nobody engages; approvals are decided in the
  orchestrator, whose read and write the worker's statements can separate.

Locks have a lease that is never renewed (`LockLapses` at any time) and
`releaseLock()` deletes the row by key and owner, the owner being the process:
`Unlock` deletes a successor's lock as well, as the code does. `Crash` loses
frames, pages and controllers, at any point; `CrashInReserve` dies between the
three writes before the click. `PageChanges` is a user or the site editing the
open page. Ghosts: `clicks`, `clicked`, `edited`, `granted`, `cancelled`,
`preparedDry`.

Abstracted: idempotency wrappers (`Resumes` has them); `requestSubmissionApproval`
is atomic in both deployments; closing the page after SUBMITTED is part of the
second statement; the queue between orchestrator and worker is `BrowserWorker`'s business;
several workers with a page each are left out.

### FormFilling

What `Submission` folds into one value is taken apart here: a form is a sequence
of controls (question, kind, option, value), and `fillFields()` addresses them by
position, one await at a time. `Locates` and `TypesNext` are its loop over the
answers, with what each kind of control accepts; `Validates` and `Reads` are the
page's verdict and `filledValueMismatches()`; `SubmitChecksForm`,
`SubmitChecksValues` and `SubmitClicks` the submit. Between any two steps the site
may show other controls, in another order, or none, and the user may type
(`Rerenders`, `GoesOrComes`, `UserTypes`). One call at a time, by a user who
approves what is ready; overlapping calls are `Submission`'s.

### Campaigns

`tick` is the scheduler's position in its loop over the list it read
(`TickStarts`, `TickPassesBy`, `TickQueues`, the claim by id, `RecordRun`,
`TickEnds`), `runs` the calls of `runCampaign()` with the copy of the campaign
each carries. `Busy` says that a stretch of the daemon between two awaits is under
way: other handlers of the daemon wait for it, but the clock, the worker process and
a crash come anywhere in it, so a stretch that writes several rows is several
actions. A worker takes a row it has no handler for (`WorkerTakesRow`) and cancels it
when a cancellation is recorded (`WorkerCancelsRow`), else fails it
(`WorkerRefusesRow`, `WorkerFailsRow`). `EngageStop` starts the emergency stop's loop
over the unfinished rows: each is read, its cancellation recorded and, if it was
queued when read, the row cancelled (`SweepReads`, `SweepRecords`, `SweepCancels`),
with the worker and a crash in between. A posting is its fingerprint;
`SaveJob` is insert-or-ignore and answers whether it was new. Slots of the cron
expression are a set of minutes; time zones and the parsing are left out. Ghosts:
`made` (applications per day), `peak` (the largest limit a campaign ever had),
`applied`, `starts`.

### Catalogue

`rows` is the jobs table in order of insertion; a posting is a pair of source and
id as the source spells it, `Clean` the spelling `cleanJob` gives. `Search` and
`ImportCurrentPage` go through `upsertJob()`, `CampaignSaveJob` through
`saveJob()` and, a statement later, `CampaignCreatesApplication`, which asks for no
other application. A call of prepare takes the lock of the fingerprint and looks at
the newest application (`PrepareChecks`), awaits the browser, and saves without
another look (`PrepareSaves`); its lock lapses at any time (`LockLapses`), and it may
fail or die. A fill or submit (`WorkBegins`, `WorkSaves`) saves its copy whatever has
become of the application. The ghost `raced` marks the jobs at which two such calls
met. `SyncManualActions` derives the inbox
from the applications' states, `ContinueItem` and `CancelItem` answer an item, and the
cancellation of the application behind it comes in a later step or never. A walk
reads a list page by page with an offset, as `page()` does. What a score is made
of is an input.

### Dashboard and Approvals

A tab has one exchange on its way (`wire`). Its request leaves with the cookie and
CSRF token of that moment (`Sends`) and is handled later: a session request in one
stretch of the daemon's event loop; a mutation is authenticated (`MutationBegins`),
its body is awaited, and then it takes effect (`Mutates`) without another look at the
session, "late" if that was signed out meanwhile. Answers arrive in any order, after
a sign-out as well, and exchanges get lost (`AnswerArrives`, `ExchangeLost`). Two
limiters with windows of their own count requests: the server's by address, the
session's by cookie (`NextBucket`). Tabs share the cookie of their browser. Notes
carry a version. Ghost: `gone`, the sessions whose sign-out was handled.

`Approvals` puts two doors to a submission on top: the dashboard, whose tokens the
daemon keeps in memory (`held`), and the extension's panel, which keeps the token
itself. Requests are rows and outlive the daemon, tokens and sessions do not. Each
door may wait for a submission (`submitting`), both at once and for requests of
their own: it reserves the attempt with its approval (`Reserves`, `Clicks`), fails,
finds another form, or succeeds, also with the earlier result of another request
(`Succeeds`), and a success forgets the token it was asked with. The application's
record is reduced to what decides these (`application`).

### Resumes

Rows and files are separate variables, changed in separate steps. An import puts
its file into the vault, awaits the extraction of the text and then writes its
rows in one transaction; tailoring runs under `idempotent()` (`keys`), enqueues a
rendering and waits for it; the worker renders (`RenderStarts`, `Prints`,
`SavesRows`, `RenderEnds`), is retried and may die between files and rows
(`RenderStops`); a removal reads what to remove and commits later, from the
daemon or the command line, and files go after their rows (`Sweep`), unless the
process dies there. `DeleteData` empties the tables and is refused while a row of
the queue is running. `Crash` is the daemon's. Texts, encryption and formats are
left out.

### BrowserPages

`conns` are the connections ever asked for, `manager` the four fields of
ChromeCdpManager, `pages` the tabs with the connection they belong to and what
they show, `tasks` the adapter's calls at their awaits. A connection ends at any
time and its event comes to a manager that may have another one by then. A page
may turn into a security check; the adapter keeps that tab for the user and
takes it over later (`TakeManual`). `discover()` and `readJob()` offer the tab first
(`OffersTab`) and photograph it after (`Diagnosed`), when another call may have it
already; `startApplication()` photographs it while it is its own (`KeepsTab`).

### Discovery

One search: `sources` in the factory's order, each with its own steps, all of
them awaited (`Promise.allSettled`). Wuzzuf's list grows under the search, pages
are positions in it, pairs of query and location follow one another. Tabs may be
closed under a source.

### Assistant

Both hops, provider to orchestrator and orchestrator to reader, are byte streams
of lines. A line is two symbols, its content and its newline, so that a read can
end inside it; the reader keeps the rest for the next read (`Remainder`). The
dashboard takes one question at a time, the panel any number. The emergency stop
aborts the signal of every stream being given; the orchestrator may die.

## 3. The runs

| run | instance | checks | states |
|---|---|---|---|
| `queue` | 2 jobs (one a submission), 2 workers, limits 1 and 2 | attempts, results, finality, fencing | 64,525 |
| `worker` | a submission or a job with 3 attempts, 2 workers that may crash and stop | result of the latest attempt, holder at work, true answers, `UsesQueue`, `JobsSettle`, `SubmissionsAtMostOnce` | 208,790 |
| `submission_worker` | worker, 2 applications, 2 requests, 1 call | consent, reviewed content, tables, dry run, one open application | 775,270 |
| `submission_inline` | inline, 1 application, 2 calls, 2 forms | one click, no click after cancel, `AttemptsAtMostOnce` | 799,324 |
| `campaigns` | 1 campaign with a limit of 1, 2 postings, 2 runs, 2 days of one minute, 1 crash | limit, one application per posting, once per slot, run and queue agree, no run left over | 4,007,008 |
| `catalogue` | 3 spellings of 2 postings, pages of 1, 3 discoveries, 2 applications of campaigns, 1 decision | paging, one application per posting | 1,596,702 |
| `desk` | 2 spellings of 1 posting, 1 discovery, 2 calls of prepare, 2 applications, 2 decisions | answered items, one application per posting | 1,747,945 |
| `dashboard` | 2 tabs of a browser, 4 tokens, 1 note saved, 1 restart | windows, signing out | 681,179 |
| `approvals` | a tab and the panel, 2 requests, 1 restart | approver can submit | 544,670 |
| `resumes` | 1 content, job and key, 2 imports, documents and attempts, 2 faults, 1 deletion | rows and files, approval as shown, one document per key | 3,825,104 |
| `browser_pages` | 2 calls, 3 connections, 2 tabs, 1 loss | one master per tab, live connection kept | 3,134,253 |
| `form_filling` | 4 forms of 2 controls, 3 questions (1 sensitive), 2 fills, 3 changes | filled is sent, sensitive stays manual | 2,763,071 |
| `assistant` | 2 questions, 1 stop, 1 restart, up to 2 deltas | whole answers, `StopEndsTheAnswer` | 345,840 |
| `discovery` | every set of sources, 3 postings (1 filtered out), pages of 1, 2 pairs, 2 searches | once and in order, tabs closed | 2,515,368 |

Why the bounds are enough for the questions asked.

- **Queue and worker.** Statements touch one row each, so jobs interact only
  through the choice of row: two jobs cover "another row" in `queue`; in `worker`
  one job is present at a time (`MCOneRow`), a submission or one with three
  attempts (a first, a middle, a last one), as two jobs with two workers only add
  the independent product. Two workers cover every hand-over of a lease. What the
  two runs leave to size the theorems of section 5 settle.
- **Submission.** Every property relates one application to its calls; two
  overlapping calls are what one stale copy needs, and the worker has one call at
  a time by its runtime. Two applications are what `OneOpenApplication` needs.
- **Campaigns.** Two runs and two postings with a limit of one: the limit is met
  in the middle of a run, a lock lapses under it, and a day ends in it.
- **Catalogue.** A page of one row makes every change fall between two pages; one
  posting is spelt the clean way, two spellings are of one posting. The calls of
  prepare, which meet each other and a campaign at one job, are in `desk`, where
  nobody walks a list: two calls are what a lapsed lock needs.
- **Dashboard.** The limits keep the proportion of the code's (a session may spend
  twice what the limiter grants a window). Two tabs of one browser sign in, out and
  change something beside each other, with every request and answer late; four
  tokens are two sign-ins, or one and two reloads. In `approvals` one tab and the
  panel submit at once with a request each; an approval lasts two windows and may
  expire at any point.
- **Resumes.** Two documents compete for the row of one résumé, snapshot and job;
  two attempts of each render, two faults fall anywhere.
- **Pages.** Two calls and two tabs are what a clash takes; with three connections
  a late event meets a successor that is up and one that is being made.
- **Forms.** Two controls can be swapped, dropped, doubled or emptied, in each of
  the four kinds of form that fill differently; two fills so that a refill meets
  what the first left; three changes so that one falls into the first fill, one
  into the second and one into the submit.
- **Assistant.** `MCBound`: answers that overlap have one delta each, an answer
  alone two, enough for a read to end between, inside and after lines.
- **Discovery.** Each result page holds one posting and each pair at most two
  pages, so that the list moves over a page's edge; the tabs suffice for two searches.

Constants named `Max...` are bounds of the model, each a guard or the size of a
set; `Limit`, `PageLimit`, `PerPage`, `PageSize` and the limits of `Dashboard` stand for the
code's numbers. Symmetry is used where only safety and steps are checked
(`campaigns`, `desk`, `browser_pages`, the submission runs). `CHECK_DEADLOCK FALSE` is
set where the system comes to rest: all jobs settled and all workers stopped, the
clock, the fills, the questions or the searches used up (`queue`, `worker`,
`campaigns`, `resumes`, `browser_pages`, `form_filling`, `assistant`,
`discovery`).

**Refinement.** `UsesQueue`: every step of workers and coordinator is a step of the
open queue, so that the theorems about `QueueSpec` hold of the composed system too.
`SubmissionsAtMostOnce` and `AttemptsAtMostOnce` map the queue's submission jobs and
the application's attempts to `AtMostOnce`. All three are also proved.

**Fairness.** `BrowserWorker!Fairness`: a running worker continues, its handler ends
(every browser call has a timeout), an idle worker polls (a `setInterval`), time
passes. No fairness is given to crash, stop, submit, cancel or the heartbeat.
`JobsSettle` then says that a job ends unless its last attempt was lost to a crash
or no worker is left. `AssistantFairness`: the reader and the handler of a question
go on when they can, as event loops do; nothing is assumed of the provider, the
user or the stop, so `StopEndsTheAnswer` is about a provider that may be silent for
ever. `Submission!FairSpec` adds a user who keeps following the error messages'
advice; it serves only to see that even then `FormChangeRecovers` fails.

Every property of a run has a mutant: a plausible bug in one mapped definition (an
unchecked owner, a dropped guard, a missing release) under which TLC refutes it in
that same run. The type invariants (`QueueTypeOK`, `TypeOK`, `CampaignTypeOK`,
`CatalogueTypeOK`, `DashboardTypeOK`, `ApprovalsTypeOK`, `ResumesTypeOK`,
`PagesTypeOK`, `FormTypeOK`) and `LeaseConsistent`, `QueuedIsClaimable` are defined
beside them and not listed in the runs; those of the queue, the workers, the
submission, the campaigns, the résumés and the forms are theorems, those of the
tabs and the dashboard, and what it says of `requests` in `Approvals`, are parts of the
invariants that are proved.

## 4. Disagreements between code and documents

None of these has a run of its own. Each line of the table names a property that
states what is expected; putting it in the place of the properties in the run's cfg,
with the change to the instance that the line names, makes TLC show how the code
violates it.

| property, in the cfg of | what happens |
|---|---|
| `CancelledOnRequest`, `worker` | A worker that lost its lease calls `queue.cancel()` (`worker-runtime.ts:33`), which does not ask who holds the job, and cancels it under the worker that took over; a graceful stop cancels the active job instead of finishing or releasing it (`docs/browser-worker.md:3`). |
| `OrphansRecovered`, `worker` | A job whose worker died in its last attempt stays `running`: `claim()` (`queue.ts:20`) skips it and nothing else looks. User data can then never be deleted (`store.ts:97`). |
| `ClickedAsReviewed`, `submission_inline` with two values | A fill beside a submit changes the values after the last check; the click sends what nobody approved. |
| `CancelledStays`, `submission_inline` | A call that read the application before its cancellation writes the old state over CANCELLED. |
| `ClickIsRecorded`, `submission_inline` | Death after the click leaves SUBMITTING and a reserved attempt; no recovery records the unknown outcome. |
| `FormChangeRecovers`, `submission_worker` with two forms and `FairSpec`, without symmetry | FORM_CHANGED has no successor state: the application can be neither filled nor cancelled, and `prepare` refuses the job. The workflow engine's table, which the service does not use, has a way out. |
| `LockStaysWithItsRun`, `campaigns` | A run whose lock lapsed deletes its successor's lock, as both have the same owner, while `docs/troubleshooting.md:12` has the lock stay with the process that owns the run. |
| `EveryApplicationIsInReach`, `desk` | A second application of a job cannot be reached from the dashboard, which shows a job's oldest while `prepare` looks at the newest; `docs/campaigns.md:3` speaks of review items. |
| `StaleDraftsAreRefused`, `dashboard` with a browser for each tab, limits of 7, 14 and 14, 2 notes saved, no clock and no restart | A draft is saved with the version the page loads at the moment of saving (`Jobs.tsx:81`, `:87`), so that a note saved meanwhile is replaced; `docs/dashboard-security.md:33` promises a refusal. |
| `AskingAgainHelps`, `approvals` | An approval asked for again through the tools route is answered with the first, expired request (`docs/extension-installation.md:12`). |
| `EveryAnswerIsSent`, `form_filling` | A fill that finds no form fills nothing, skips nothing and leaves the application ready. |
| `StopEndsThePanelAnswer`, `assistant` | After a failure or a stop the panel's answer never settles: the handler does not end the response (`server.ts:137`). |
| `PanelAnswersStayApart`, `assistant` | A second question in the panel mixes two answers (`sidepanel.ts:10`). |
| `NoTabIsLeft`, `discovery` | A tab that `openTab()` could not load stays open. |
| `WholeListIsRead`, `discovery` | A page whose postings are all filtered out or known ends the pagination. |

Seen while reading and not stated as a property:

- Jobs: finding a job again sets its score to 0; a search stamped late may move a row
  back in the list; the raw and the clean spelling of an id give two rows; search and
  import answer with ids that are not stored; disabled connectors are still searched
  (`assertCapability()` is called by nothing).
- Manual actions: an item says cancelled although `cancelApplication()` fails
  afterwards, or the user had continued it.
- Résumés: repeating an idempotent tailoring answers without the PDF that exists by
  then (`docs/dashboard-user-guide.md:74`); removing a résumé while one of its
  documents is rendered leaves files and rows; deleting the data under a running
  operation lets its key run again; a refused tailored résumé is not recorded
  (`dashboard-api.ts:405`).
- Tabs: overlapping checks overwrite the tab kept for the user; `disconnect()` during
  an attempt to connect is undone by that attempt; `authenticationStatus()` and
  prepare's catch (`wuzzuf-tool-service.ts:61`) close a tab that shows a check.
- Forms: a radio group of two options can never be submitted; `submissionAllowed` is
  computed and not enforced.
- Approvals: `Approvals.tsx:23` says that only the dashboard decides, the extension
  does too (`server.ts:72`); the emergency stop invalidates no approval although
  `docs/approval-flow.md:3` lists it; the worker's own stop is never engaged.
- Chat and search: the provider's timeout never applies, because a signal is always
  passed (`provider-sdk/src/index.ts:30`); a cancelled worker search goes on until
  all its sources are done.

## 5. What is proved

TLAPS checks these for every value of the constants that satisfies the assumptions
named in the component modules. Most say that bounds are naturals, limits and page
sizes are positive, and null values are none of the others. Those that say more:

- `DashboardAssumption`: `2 * RequestLimit <= MutationLimit <= ReadLimit`, the
  proportion of the code's numbers (the limiter grants 120 requests a minute, a
  session may spend 240 mutations and 900 reads).
- `CatalogueAssumption`: cleaning a posting's spelling twice is cleaning it once.
- `FormAssumption`, `DiscoveryAssumption`: forms are not empty; there are finitely
  many vacancies.

Every invariant and action property of the runs is stated by a theorem. One
hypothesis is stated in a theorem: `OneCall`, in the two about a worker's single call.

**BrowserWorkerProofs: the queue.** `QueueInvariant` is the inductive one. The
properties are not inductive by themselves: that a submission has at most one attempt
needs that its limit is 1 and that a queued row is below its limit; that results agree
needs that a row in `failing` is failed and has no result yet, since the INSERT of
`fail()` comes in a later step. From it follow `QueueTypeCorrect`, `LeasesConsistent`,
`SubmissionLeasedOnce`, `ResultsAgree`; the action properties `EndedJobsStay` and
`AttemptNumbersFence` are shown step by step from the same invariant.

**BrowserWorkerProofs: the workers.** `WorkKinds` sorts what one worker does by its
effect on the queue: it takes a job, starts the handler, stores a result, ends the job
otherwise, or tells the queue something that touches no status. `NextIsQueueStep`
turns each kind, and the coordinator's, into a step of the queue:
`WorkersUseTheQueue`, with which everything proved of the queue may be used here.
`Working` says that a busy worker has a job and a lease number that was counted.
`HoldersWork` then needs for each kind that only a claim gives a row a new owner, to a
worker that nobody else's row names, and that who forgets a job is no longer named by
it. `LatestResult`: to store, a worker must be named by the row, so by
`HolderIsWorking` its lease is the current attempt. `CallersToldTheTruth`: what is
answered was read of a row that had ended, and such rows stay.
`SubmissionsKeepPromise` is the refinement to `AtMostOnce`: the one attempt of a
submission gives it one worker for good (`SubmissionInv`), and between that worker's
claim and its look for a cancellation only a recorded cancellation can end the row
(`CallsRecorded`), so that the look finds the job open or is the end of it. What
arrives after the look the promise does not cover, and neither does the code.

**CampaignProofs.** `OneRunAtATime`: at most one run is in the middle of a stretch, and
none while the emergency stop goes through the queue,
which is the atomicity the rest uses. `DailyLimitHolds`: reservations are bounded by
the limit of the copy that makes them (`LimitInv`), and every application spends a
reservation of its day (`MadeInv`). `NoPostingTwice` (`AppliedInv`): a posting is
applied to in the stretch in which its row was new; neither lock nor lease is used,
which is why lapsed locks do no harm. `OneRunPerSlot` (`SlotInv`): the latest run of a
campaign is never later than the time of the tick at work, so a slot that was used is
never due again, over late ticks and restarts. `RunRowsAgree` and `NoRunLeftOver`
(`RowInv`): the scheduler's position in `execute()` determines both rows until a
worker, the emergency stop or a crash takes part, and then what is left of the choice
is named. That the stop's loop is a stretch of the daemon like the others
(`SweepAlone`) is why a row it read as queued is never the scheduler's when it is
cancelled.

**SubmissionProofs: types.** `SubmissionTypeCorrect`, with the invariant `Base` that adds
to the types what calls' frames refer to. One lemma per group of actions.

**SubmissionProofs: the click.** `OneClick`: clicks <= 1 whatever overlaps. The proof
first classifies steps (`StepKinds`): each step of `Next` either leaves attempts,
clicks and the calls near the click alone, or reserves, or clicks, or settles. Then
`ClickInv` is shown inductive: only one call can be between reservation and click
for an application, it got there when the attempt was "none", the attempt is
never "none" again, and a click takes that call past the point. Locks play no part
in it, which is why lapsing locks do no harm here. `AttemptsKeepPromise` is the
refinement to `AtMostOnce` from the same invariant.

**SubmissionOutcomeProofs: consent.** `ConsentedClicks`. `ConsentStep` says what any
step may do to a request, to the request a submitting call carries, and to the pending
decision. `GrantInv`: an approved request was granted, so what a submitting call
presented was; and the request of a decision that is read but not yet written
(`deciding`) is not a granted one. The second part is what keeps "used" final: a
decision written late can only hit a request that was pending when it was read.
`ConsentInv` adds that whoever is past the reservation has its request used and
recorded as `reservedBy`; with the step kinds of SubmissionProofs the click follows.

**SubmissionOutcomeProofs: refusals.** `DryRunsNeverClicked` and `CancelledNeverClicked`.
`RefusalStep` follows the copies: a call's copy is at least as dry as before or
fresh from the row, a row is overwritten only by a copy of the same application,
and a closed page of an application is never opened again. `DryInv`: every copy
of a dry run says so and none is being submitted. `ClosedInv`: `cancel()` closes
the page before it reads the application, so the pages of cancelled applications
are closed, and a click needs the page. Locks play no part here either.

**SubmissionOutcomeProofs: tables.** `TablesAgree`. `Outcomes`: a row starts to say
SUBMITTED or FAILED_PERMANENT only by the call that is past the reservation, because
no other copy that is written says so (`CopiesOpen` in `Base`). With `ClickInv` such a
call holds the attempt "reserved". The record is saved first and `SubmitSettles`
writes the attempt: between the two only that call, or a crash that fell there
(`torn`), explains a row beside an attempt still reserved (`Unsettled`), and a settled
attempt no kind of step touches (`AgreeInv`).

**SubmissionOutcomeProofs: one call.** `OneApplicationPerJob` and `ReviewedClicks`
assume `OneCall`: no two calls overlap. That is the worker deployment, where the
runtime of the one browser worker handles one job at a time; with two calls the
first is false, as a lock that lapsed lets two calls prepare, or a stale copy is
written back over a cancellation (TLC shows the former when the inline instance gets
the property and two applications). `OpenInv`: the call at work
works on the latest application, and a call that prepares another one found that one
cancelled. `ReviewInv` follows a call that submits: its approval is for what its copy
says (`BindingHash`), a request keeps what it was bound to (`Bound`), and from each
comparison on an unedited page shows what the copy says, up to the click. Approvals
that are decided, expire or are revoked in the middle, pages that are lost and crashes
between the writes all stay in `Next`.

**ApprovalsProofs.** `DoorStep` says what a step of `Approvals` is for the dashboard:
a step of its own, a mutation served that changes nothing of it, or nothing; with it
the first two are shown on the dashboard's variables alone. `LimiterSparesSessions`
(`LimitInv`): a session's window is as long as the limiter's but begins when it likes,
so it overlaps at most two of the limiter's, the one it began in (`SameWindow`) and
the next (`NextOne`), and counts no more than those granted. `SignOutHolds`
(`GoneInv`): a session whose sign-out was handled is gone for good, as tokens are
drawn once, so that no request that carries its cookie is let in, whenever it arrives;
a mutation let in before and awaiting its body is marked late by the sign-out. A
session of a later sign-in is another one, and a login answered after the sign-out
brings the cookie of its own session. `ApproversKeepTokens` (`ApproverInv`): a request
approved here was decided and is not decided again, and its token goes only with a
restart, its expiry, or a success, and a success means that the application is
submitted, by whichever request.

**ResumesProofs.** One invariant, `IInv`, of all actors that touch a file or row:
imports own their file until their rows are written (`ImportInv`), how far each
attempt to render is says what it has stored (`RunInv`), what is attached was stored
by an attempt that ended (`AttachInv`), nobody attaches to what a removal is about to
delete (`RemovalInv`), and the document of a key has its record unless it failed or
data was deleted (`KeyInv`). None of the properties is inductive without the others:
`NoRowWithoutFile` needs that a late attempt has no row left to write,
`ApprovalsAreForOneDocument` that a taken-over row is unapproved before the next
document shows in it, `KeysMakeOneDocument` that a crash leaves either record or no
document. `ResumesTypesCorrect` is their type invariant.

**BrowserPagesProofs.** `NoTabIsShared`: a tab goes from one holder to the next in a
step, never to two (`HolderInv`), because a call that has a tab is at work on it or
photographs the one it left (`StageInv`), and a new tab has no holder (`HeldInv`).
`LiveConnectionsAreKept` is an action property: a `disconnected` of an older
connection leaves the current one.

**LoopProofs: loops.** The steps of these four components run through a list: postings
of a batch, pages of a walk, controls of a form, lines of a read. The models write
such loops as recursive functions. Their induction is on sets: `SetInduction`, from
the well-foundedness of `<` on the naturals, needs no operator as parameter;
`LoopIsDefined` gives the function that a loop defines and `LoopInvariant` what each
round keeps. Each loop then has one lemma that says what it leaves.

**LoopProofs: catalogue and form.** `OneApplicationOfAPosting` (`CatalogueInv`,
`PrepareInv`): no two rows have one fingerprint, a clean spelling is its own
fingerprint (`CleanPrint`), and writes leave rows in their places. Of a job that no
overlap has touched only the newest application can be open (`NewestOpen`); a call
that has checked it holds its lock and found none open (`LockHeld`), is the only one
(`OneCall`), and what a campaign has saved and may yet apply to has neither call nor
application (`Unapplied`). A lapsed lock, a check between the campaign's two
statements, and a copy saved over a cancellation are the steps that mark a job as
`raced`; the theorem says that there are no others. `WalksMissNothing` (`WalkInv`): a
job's place in the list only grows unless the job itself is moved, so that what a walk
has not seen is still ahead of its offset. `AnswersOfTheInboxStay` is an action
property. `SensitiveStaysManual` (`SensitiveInv`): a record that can be submitted
skips nothing, and the sensitive fields would be among the skipped. `FilledIsSent`
(`FilledInv`): the value hash is read after the typing and matches the answers called
filled, and the click sends what compared equal to it, unless the page is edited after
the last comparison (that window is in `hazards`).

**LoopProofs: search and assistant.** `EverySearchClosesItsTabs` (`TabInv`): each open
tab is the kept one, one that could not be loaded, or that of a source at work, and
no source is at work when a search is over. `SearchesAnswerAllOnce` (`FoundInv`): the
`seen` set keeps Wuzzuf's postings apart however its list moves; the answer is the
join of what the sources found, in their order. `AnswersAreWhole` (`ChatInv`): of every
question under way, buffer and unread bytes together carry exactly the lines after
those already used (`Stream`), on both hops, wherever reads end; the relay's buffer
carries a beginning of what the provider said, the bubble shows a beginning of that
(`Answering`), and the one unsettled question of the dashboard owns the last bubble,
so that its lines are never shown in another's.

**Model-checked only**: the liveness properties `JobsSettle` and `StopEndsTheAnswer`
(liveness under fairness and ENABLED are out of the prover's reach).

## 6. Not modelled

`PROJECT.json` lists every component and what of it is left out.

- Form engine, ATS adapters and connector SDK: pure classification, and adapters that
  only their tests construct; no program calls them.
- Workflow engine: its transition table is not consulted by the application lifecycle.
- Composio host and tools, OpenClaw plugins, CLI and scripts: they forward to the HTTP
  API and keep no state that decides anything; the CLI's résumé commands are steps of
  `Resumes`.
- Of the components modelled in part: what a page says and how selectors read it, the
  texts a tailoring computes and their rendering, the score, URL and scope checks,
  settings and read-only views, clients and the audit log, sealing and redaction.
- Providers whose last line has no newline; a `page.close()` that fails, which the
  sources swallow, so that the tab stays; photographs of a tab that changed hands.
- The SQLite engine, the file system and Chrome are trusted to do what the code asks; a
  transaction is atomic, a statement is atomic, a file is written whole or not.

## 7. Plan

Done: all modules of section 2, and a theorem for every invariant and action property
of the runs. What would add most next:

1. An abstract specification of `idempotent()` (runs once per key until it fails) and
   `Resumes` shown to implement it.
2. A refinement for the two limiters and sessions: a browser is signed in or out, and
   `Dashboard` shown to implement that.
3. `Approvals` composed with `Submission`, so that the tokens in memory meet the
   overlapping calls.
4. Pure functions against a reference definition: destination resolution, field
   classification, schedules with their time zone.
