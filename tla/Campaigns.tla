------------------------------ MODULE Campaigns ------------------------------
(***************************************************************************)
(* Campaigns: the scheduler (scheduler.ts), runCampaign() and the emergency *)
(* stop (service.ts), the routes that create, edit, pause and run a         *)
(* campaign (dashboard-api.ts, server.ts) and the rows they share           *)
(* (store.ts: campaigns, campaign_runs, locks, campaign_daily_usage, jobs). *)
(*                                                                         *)
(* The daemon is one event loop: what runs between two awaits is atomic for *)
(* its own handlers, and Busy says that such a stretch is under way.  The   *)
(* clock, the worker process and a crash interleave anywhere, so a stretch  *)
(* that writes several rows is several actions.                             *)
(***************************************************************************)
EXTENDS Naturals, FiniteSets

CONSTANTS
  Ids,         \* campaign ids
  Settings,    \* the settings a client may send, see CampaignData
  Postings,    \* job postings, told apart by their fingerprint
  Runs,        \* identities of overlapping runCampaign() calls
  Slots,       \* the minutes the cron expression names
  MaxMinute,   \* bound on the clock, in minutes
  MinutesPerDay,
  MaxCrashes,  \* bound on crashes of the daemon
  NoRun, Gone, \* no lock row; a lock row of a process that died
  None         \* an absent row or value

CampaignState == {"enabled", "paused"}
ExecutionMode == {"research_only", "prepare_and_review", "auto_submit"}

\* JobCampaign as far as a run depends on it; wording and search data are left out.
CampaignData == [state : CampaignState, scheduled : BOOLEAN, mode : ExecutionMode,
                 perRun : Nat \ {0}, perDay : Nat \ {0}]

ASSUME CampaignAssumption ==
  /\ Settings \subseteq CampaignData
  /\ MaxMinute \in Nat /\ MinutesPerDay \in Nat \ {0} /\ MaxCrashes \in Nat
  /\ Slots \subseteq Nat
  /\ NoRun \notin Runs /\ Gone \notin Runs /\ NoRun # Gone
  /\ None \notin CampaignData \cup Nat \cup Postings \cup Ids
  /\ IsFiniteSet(Postings)

Minutes == 0..MaxMinute
DayOf(m) == m \div MinutesPerDay
Days == {DayOf(m) : m \in Minutes}
Rows == Ids \X Minutes

VARIABLES
  campaigns,  \* the table: a campaign's data, or None before it is created
  runRow,     \* campaign_runs: status of the run started for a campaign's slot
  queueRow,   \* queue_jobs: status of its campaign.execute row
  lastRun,    \* created_at of a campaign's latest run row, or None
  lock,       \* locks: the run that inserted the campaign's row, NoRun or Gone
  lapsed,     \* campaigns whose lock row is past expires_at
  stored,     \* fingerprints in jobs
  usage,      \* campaign_daily_usage.count
  requested,  \* queue_cancellations: the rows whose cancellation is recorded
  minute,     \* the wall clock
  stopped,    \* EmergencyStop.stopped, in the daemon's memory
  runs,       \* the runCampaign() calls in progress
  tick,       \* the scheduler's tick() call
  edits,      \* PATCH handlers between reading the campaign and its body
  sweep,      \* the emergency stop's requestCancellationAll()
  crashes,
  starts,     \* history: scheduler runs started for a campaign's slot
  orphans,    \* history: run rows whose process died
  made,       \* history: applications created, per campaign and day
  applied,    \* history: applications created, per posting
  peak        \* history: the largest perDay ever saved for a campaign

tables == <<campaigns, runRow, queueRow, lastRun, lock, lapsed, stored, usage, requested>>
memory == <<stopped, runs, tick, edits, sweep>>
history == <<starts, orphans, made, applied, peak>>
campaignVars == <<tables, memory, history, minute, crashes>>

Existing == {c \in Ids : campaigns[c] # None}
Later(a, b) == IF a >= b THEN a ELSE b

IdleRun == [pc |-> "idle"]
RunState ==
  [pc : {"discovering", "loop", "reserve", "create"}, of : Ids, data : CampaignData,
   slot : Minutes \cup {None}, todo : SUBSET Postings, job : Postings \cup {None},
   day : Days, made : Nat]
TickState ==
  [pc : {"scanning", "claiming", "awaiting", "recording"}, now : Minutes, left : SUBSET Ids,
   seen : [Ids -> CampaignData \cup {None}], of : Ids \cup {None},
   outcome : {"none", "completed", "failed"}]
SweepState ==
  [pc : {"reading"}, left : SUBSET Rows, row : {None}, queued : {FALSE}] \cup
  [pc : {"recording", "cancelling"}, left : SUBSET Rows, row : Rows, queued : BOOLEAN]

\* Of the queue's statuses, running is told apart by who holds the row: the
\* scheduler, or a worker before and after it found no cancellation.
WithWorker == {"taken", "refused"}
Unfinished == {"queued", "running"} \cup WithWorker
QueueStatus == {"none", "completed", "failed", "cancelled"} \cup Unfinished

\* Some synchronous stretch of the daemon's event loop has not ended yet.
Busy ==
  \/ \E r \in Runs : runs[r].pc \in {"loop", "reserve", "create"}
  \/ tick.pc \in {"scanning", "claiming", "recording"}
  \/ sweep # IdleRun

CampaignTypeOK ==
  /\ campaigns \in [Ids -> CampaignData \cup {None}]
  /\ runRow \in [Ids -> [Minutes -> {"none", "running", "completed", "failed"}]]
  /\ queueRow \in [Ids -> [Minutes -> QueueStatus]]
  /\ lastRun \in [Ids -> Minutes \cup {None}]
  /\ lock \in [Ids -> Runs \cup {NoRun, Gone}]
  /\ lapsed \subseteq Ids
  /\ stored \subseteq Postings
  /\ usage \in [Ids -> [Days -> Nat]]
  /\ requested \subseteq Rows
  /\ minute \in Minutes
  /\ stopped \in BOOLEAN
  /\ runs \in [Runs -> RunState \cup {IdleRun}]
  /\ tick \in TickState \cup {IdleRun}
  /\ edits \in [Ids -> CampaignData \cup {None}]
  /\ sweep \in SweepState \cup {IdleRun}
  /\ crashes \in 0..MaxCrashes
  /\ starts \in [Ids -> [Minutes -> Nat]]
  /\ orphans \subseteq Rows
  /\ made \in [Ids -> [Days -> Nat]]
  /\ applied \in [Postings -> Nat]
  /\ peak \in [Ids -> Nat]

CampaignInit ==
  /\ campaigns = [c \in Ids |-> None]
  /\ runRow = [c \in Ids |-> [m \in Minutes |-> "none"]]
  /\ queueRow = [c \in Ids |-> [m \in Minutes |-> "none"]]
  /\ lastRun = [c \in Ids |-> None]
  /\ lock = [c \in Ids |-> NoRun]
  /\ lapsed = {}
  /\ stored = {}
  /\ usage = [c \in Ids |-> [d \in Days |-> 0]]
  /\ requested = {}
  /\ minute = 0
  /\ stopped = FALSE
  /\ runs = [r \in Runs |-> IdleRun]
  /\ tick = IdleRun
  /\ edits = [c \in Ids |-> None]
  /\ sweep = IdleRun
  /\ crashes = 0
  /\ starts = [c \in Ids |-> [m \in Minutes |-> 0]]
  /\ orphans = {}
  /\ made = [c \in Ids |-> [d \in Days |-> 0]]
  /\ applied = [p \in Postings |-> 0]
  /\ peak = [c \in Ids |-> 0]

-----------------------------------------------------------------------------
(* The campaigns table and the routes that write it. *)

\* saveCampaign(): INSERT .. ON CONFLICT(id) DO UPDATE, nothing compared.
SaveCampaign(c, data) ==
  /\ campaigns' = [campaigns EXCEPT ![c] = data]
  /\ peak' = [peak EXCEPT ![c] = Later(@, data.perDay)]

\* campaignFrom(body, true) of the dashboard: auto_submit becomes
\* prepare_and_review, and no schedule is ever copied from the body.
CampaignFrom(body) ==
  [body EXCEPT !.scheduled = FALSE,
               !.mode = IF @ = "auto_submit" THEN "prepare_and_review" ELSE @]

\* POST /v1/dashboard/campaigns: the body may name an id that exists already.
CreateFromDashboard(c, body) ==
  /\ ~Busy /\ ~stopped
  /\ SaveCampaign(c, CampaignFrom(body))
  /\ UNCHANGED <<runRow, queueRow, lastRun, lock, lapsed, stored, usage, requested, memory,
                 minute, crashes, starts, orphans, made, applied>>

\* POST /v1/campaigns: a fresh id, enabled, with the schedule parsed from the body.
CreateFromTool(c, body) ==
  /\ ~Busy /\ ~stopped
  /\ campaigns[c] = None
  /\ SaveCampaign(c, [body EXCEPT !.state = "enabled"])
  /\ UNCHANGED <<runRow, queueRow, lastRun, lock, lapsed, stored, usage, requested, memory,
                 minute, crashes, starts, orphans, made, applied>>

\* PATCH /v1/dashboard/campaigns/:id reads the campaign, then awaits the body ...
EditRead(c) ==
  /\ ~Busy /\ c \in Existing /\ edits[c] = None
  /\ edits' = [edits EXCEPT ![c] = campaigns[c]]
  /\ UNCHANGED <<tables, stopped, runs, tick, sweep, history, minute, crashes>>

\* ... and saves that copy with the fields of the body laid over it.  A body
\* that names no state keeps the one of the copy.
EditSave(c, body) ==
  /\ ~Busy /\ edits[c] # None
  /\ \E state \in {edits[c].state, body.state} :
       SaveCampaign(c, CampaignFrom([body EXCEPT !.state = state]))
  /\ edits' = [edits EXCEPT ![c] = None]
  /\ UNCHANGED <<runRow, queueRow, lastRun, lock, lapsed, stored, usage, requested, stopped,
                 runs, tick, sweep, minute, crashes, starts, orphans, made, applied>>

\* The pause and resume routes of both APIs: read and write in one stretch.
SetState(c, state) ==
  /\ ~Busy /\ c \in Existing
  /\ SaveCampaign(c, [campaigns[c] EXCEPT !.state = state])
  /\ UNCHANGED <<runRow, queueRow, lastRun, lock, lapsed, stored, usage, requested, memory,
                 minute, crashes, starts, orphans, made, applied>>

-----------------------------------------------------------------------------
(* runCampaign(), whose only await is source.discover(). *)

\* acquireLock(): lapsed rows are deleted, then INSERT OR IGNORE.
LockFree(c) == lock[c] = NoRun \/ c \in lapsed

\* releaseLock() deletes the row of this key whatever run of the process
\* inserted it: the owner is the Store's, not the run's.
ReleaseLock(c) ==
  IF lock[c] = Gone THEN UNCHANGED <<lock, lapsed>>
  ELSE /\ lock' = [lock EXCEPT ![c] = NoRun]
       /\ lapsed' = lapsed \ {c}

\* Up to the await: not stopped, the lock acquired, the profile found.
BeginRun(r, c, data, slot) ==
  /\ runs[r] = IdleRun
  /\ ~stopped /\ LockFree(c)
  /\ runs' = [runs EXCEPT ![r] =
       [pc |-> "discovering", of |-> c, data |-> data, slot |-> slot,
        todo |-> {}, job |-> None, day |-> 0, made |-> 0]]
  /\ lock' = [lock EXCEPT ![c] = r]
  /\ lapsed' = lapsed \ {c}

\* Without a profile the lock is acquired, over a lapsed row too, and released.
ProfileMissing(c) ==
  /\ ~stopped /\ LockFree(c)
  /\ lock' = [lock EXCEPT ![c] = NoRun]
  /\ lapsed' = lapsed \ {c}

RefuseFromApi(c) ==
  /\ ~Busy /\ c \in Existing
  /\ campaigns[c].state # "paused"
  /\ ProfileMissing(c)
  /\ UNCHANGED <<campaigns, runRow, queueRow, lastRun, stored, usage, requested, memory, minute,
                 crashes, history>>

\* POST .../campaigns/:id/run of either API.  A refusal changes nothing.
RunFromApi(r, c) ==
  /\ ~Busy /\ c \in Existing
  /\ campaigns[c].state # "paused"
  /\ BeginRun(r, c, campaigns[c], None)
  /\ UNCHANGED <<campaigns, runRow, queueRow, lastRun, stored, usage, requested, stopped, tick,
                 edits, sweep, minute, crashes, history>>

\* Mutant: the queue's row is not completed.
RunEndedUncompleted(r, outcome) ==
  IF runs[r].slot = None THEN UNCHANGED <<queueRow, tick>>
  ELSE /\ UNCHANGED queueRow
       /\ tick' = [tick EXCEPT !.pc = "recording", !.outcome = outcome]

\* What the scheduler goes on with when a run it started has ended:
\* queue.complete() or queue.fail(), which change only a row that this
\* scheduler holds, then finishCampaignRun().
RunEnded(r, outcome) ==
  IF runs[r].slot = None THEN UNCHANGED <<queueRow, tick>>
  ELSE /\ queueRow' = [queueRow EXCEPT ![runs[r].of][runs[r].slot] =
                         IF @ = "running" THEN outcome ELSE @]
       /\ tick' = [tick EXCEPT !.pc = "recording", !.outcome = outcome]

\* discover() rejects: the worker failed, timed out, or was cancelled.
DiscoverFails(r) ==
  /\ ~Busy /\ runs[r].pc = "discovering"
  /\ ReleaseLock(runs[r].of)
  /\ RunEnded(r, "failed")
  /\ runs' = [runs EXCEPT ![r] = IdleRun]
  /\ UNCHANGED <<campaigns, runRow, lastRun, stored, usage, requested, stopped, edits, sweep,
                 minute, crashes, history>>

\* discover() answers; normalised and deduplicated it is a set of postings.
Discovered(r, found) ==
  /\ ~Busy /\ runs[r].pc = "discovering"
  /\ runs' = [runs EXCEPT ![r].pc = "loop", ![r].todo = found]
  /\ UNCHANGED <<tables, stopped, tick, edits, sweep, minute, crashes, history>>

\* Mutant: a posting already stored counts as new.
SaveJobAnyway(p) == TRUE

\* saveJob(): the fingerprint is UNIQUE.
SaveJob(p) == p \notin stored

\* saveJob(), then the checks up to the per-run limit.  Whether the score
\* reaches the threshold is left open.
ConsiderJob(r, p) ==
  /\ runs[r].pc = "loop" /\ p \in runs[r].todo
  /\ stored' = stored \cup {p}
  /\ \E enough \in BOOLEAN :
       LET selected == /\ SaveJob(p)
                       /\ enough
                       /\ runs[r].data.mode # "research_only"
                       /\ runs[r].made < runs[r].data.perRun
       IN runs' = [runs EXCEPT ![r].todo = @ \ {p},
                               ![r].pc = IF selected THEN "reserve" ELSE "loop",
                               ![r].job = IF selected THEN p ELSE None]
  /\ UNCHANGED <<campaigns, runRow, queueRow, lastRun, lock, lapsed, usage, requested, stopped,
                 tick, edits, sweep, minute, crashes, history>>

\* Mutant: off by one.
BelowOrAt(count, maximum) == count <= maximum

\* UPDATE .. WHERE count<maximum
Below(count, maximum) == count < maximum

\* reserveCampaignApplication(): one transaction.
Reserve(r) ==
  LET c == runs[r].of  d == DayOf(minute)
      granted == Below(usage[c][d], runs[r].data.perDay)
  IN /\ runs[r].pc = "reserve"
     /\ usage' = [usage EXCEPT ![c][d] = IF granted THEN @ + 1 ELSE @]
     /\ runs' = [runs EXCEPT ![r].pc = IF granted THEN "create" ELSE "loop",
                             ![r].job = IF granted THEN @ ELSE None,
                             ![r].day = IF granted THEN d ELSE @]
     /\ UNCHANGED <<campaigns, runRow, queueRow, lastRun, lock, lapsed, stored, requested,
                    stopped, tick, edits, sweep, minute, crashes, history>>

\* createApplication() and the transitions up to WAITING_FOR_APPROVAL.
CreateApplication(r) ==
  /\ runs[r].pc = "create"
  /\ made' = [made EXCEPT ![runs[r].of][runs[r].day] = @ + 1]
  /\ applied' = [applied EXCEPT ![runs[r].job] = @ + 1]
  /\ runs' = [runs EXCEPT ![r].pc = "loop", ![r].job = None, ![r].day = 0,
                          ![r].made = @ + 1]
  /\ UNCHANGED <<tables, stopped, tick, edits, sweep, minute, crashes, starts, orphans, peak>>

\* The loop is over: releaseLock(), and the scheduler completes its rows.
FinishRun(r) ==
  /\ runs[r].pc = "loop" /\ runs[r].todo = {}
  /\ ReleaseLock(runs[r].of)
  /\ RunEnded(r, "completed")
  /\ runs' = [runs EXCEPT ![r] = IdleRun]
  /\ UNCHANGED <<campaigns, runRow, lastRun, stored, usage, requested, stopped, edits, sweep,
                 minute, crashes, history>>

-----------------------------------------------------------------------------
(* The scheduler. *)

\* Mutant: the last run is not looked at.
IsSlot(c, now) == now \in Slots

\* isScheduleDue(): the cron minute has come, and the latest run row was not
\* created in that same minute.
IsScheduleDue(c, now) == now \in Slots /\ lastRun[c] # now

\* tick() reads the clock and the whole campaign list once.
TickStarts ==
  /\ ~Busy /\ tick = IdleRun /\ ~stopped /\ Existing # {}
  /\ tick' = [pc |-> "scanning", now |-> minute, left |-> Existing, seen |-> campaigns,
              of |-> None, outcome |-> "none"]
  /\ UNCHANGED <<tables, stopped, runs, edits, sweep, minute, crashes, history>>

Wanted(c) ==
  /\ tick.seen[c].state = "enabled"
  /\ tick.seen[c].scheduled
  /\ IsScheduleDue(c, tick.now)

TickPassesBy(c) ==
  /\ tick.pc = "scanning" /\ c \in tick.left
  /\ ~Wanted(c)
  /\ tick' = [tick EXCEPT !.left = @ \ {c}]
  /\ UNCHANGED <<tables, stopped, runs, edits, sweep, minute, crashes, history>>

\* execute(): startCampaignRun() and queue.enqueue() ...
TickQueues(c) ==
  /\ tick.pc = "scanning" /\ c \in tick.left
  /\ Wanted(c)
  /\ runRow' = [runRow EXCEPT ![c][tick.now] = "running"]
  /\ lastRun' = [lastRun EXCEPT ![c] = minute]
  /\ queueRow' = [queueRow EXCEPT ![c][tick.now] = "queued"]
  /\ starts' = [starts EXCEPT ![c][tick.now] = @ + 1]
  /\ tick' = [tick EXCEPT !.pc = "claiming", !.left = @ \ {c}, !.of = c]
  /\ UNCHANGED <<campaigns, lock, lapsed, stored, usage, requested, stopped, runs, edits,
                 sweep, minute, crashes, orphans, made, applied, peak>>

\* ... which a worker's claim() may take first ...
WorkerTakesRow(c, m) ==
  /\ queueRow[c][m] = "queued"
  /\ queueRow' = [queueRow EXCEPT ![c][m] = "taken"]
  /\ UNCHANGED <<campaigns, runRow, lastRun, lock, lapsed, stored, usage, requested, memory,
                 minute, crashes, history>>

\* ... and has no handler for.  With a cancellation recorded it cancels the row ...
WorkerCancelsRow(c, m) ==
  /\ queueRow[c][m] = "taken" /\ <<c, m>> \in requested
  /\ queueRow' = [queueRow EXCEPT ![c][m] = "cancelled"]
  /\ UNCHANGED <<campaigns, runRow, lastRun, lock, lapsed, stored, usage, requested, memory,
                 minute, crashes, history>>

\* ... and without one at its last look (worker-runtime.ts:32) ...
WorkerRefusesRow(c, m) ==
  /\ queueRow[c][m] = "taken" /\ <<c, m>> \notin requested
  /\ queueRow' = [queueRow EXCEPT ![c][m] = "refused"]
  /\ UNCHANGED <<campaigns, runRow, lastRun, lock, lapsed, stored, usage, requested, memory,
                 minute, crashes, history>>

\* ... it fails the row, while that is still its own.
WorkerFailsRow(c, m) ==
  /\ queueRow[c][m] = "refused"
  /\ queueRow' = [queueRow EXCEPT ![c][m] = "failed"]
  /\ UNCHANGED <<campaigns, runRow, lastRun, lock, lapsed, stored, usage, requested, memory,
                 minute, crashes, history>>

\* Mutant: a missed claim leaves the run row as it is.
ClaimMissedUnrecorded ==
  /\ tick.pc = "claiming" /\ queueRow[tick.of][tick.now] # "queued"
  /\ tick' = [tick EXCEPT !.pc = "scanning", !.of = None]
  /\ UNCHANGED <<tables, stopped, runs, edits, sweep, minute, crashes, history>>

\* ... claimById() misses the row: finishCampaignRun(failed).
ClaimMissed ==
  /\ tick.pc = "claiming" /\ queueRow[tick.of][tick.now] # "queued"
  /\ tick' = [tick EXCEPT !.pc = "recording", !.outcome = "failed"]
  /\ UNCHANGED <<tables, stopped, runs, edits, sweep, minute, crashes, history>>

\* claimById() gets the row and runCampaign() is called with the tick's copy.
ClaimAndRun(r) ==
  /\ tick.pc = "claiming" /\ queueRow[tick.of][tick.now] = "queued"
  /\ queueRow' = [queueRow EXCEPT ![tick.of][tick.now] = "running"]
  /\ BeginRun(r, tick.of, tick.seen[tick.of], tick.now)
  /\ tick' = [tick EXCEPT !.pc = "awaiting"]
  /\ UNCHANGED <<campaigns, runRow, lastRun, stored, usage, requested, stopped, edits, sweep,
                 minute, crashes, history>>

\* The same, but runCampaign() throws before its await: the stop is engaged,
\* the lock is held, or the profile is missing.
ClaimAndFail ==
  /\ tick.pc = "claiming" /\ queueRow[tick.of][tick.now] = "queued"
  /\ queueRow' = [queueRow EXCEPT ![tick.of][tick.now] = "failed"]
  /\ tick' = [tick EXCEPT !.pc = "recording", !.outcome = "failed"]
  /\ \/ (stopped \/ ~LockFree(tick.of)) /\ UNCHANGED <<lock, lapsed>>
     \/ ProfileMissing(tick.of)
  /\ UNCHANGED <<campaigns, runRow, lastRun, stored, usage, requested, stopped, runs, edits,
                 sweep, minute, crashes, history>>

RecordRun ==
  /\ tick.pc = "recording"
  /\ runRow' = [runRow EXCEPT ![tick.of][tick.now] = tick.outcome]
  /\ tick' = [tick EXCEPT !.pc = "scanning", !.of = None, !.outcome = "none"]
  /\ UNCHANGED <<campaigns, queueRow, lastRun, lock, lapsed, stored, usage, requested,
                 stopped, runs, edits, sweep, minute, crashes, history>>

TickEnds ==
  /\ tick.pc = "scanning" /\ tick.left = {}
  /\ tick' = IdleRun
  /\ UNCHANGED <<tables, stopped, runs, edits, sweep, minute, crashes, history>>

-----------------------------------------------------------------------------
(* The emergency stop, the clock and the process. *)

\* requestCancellationAll() reads the ids of the unfinished rows ...
EngageStop ==
  /\ ~Busy
  /\ stopped' = TRUE
  /\ sweep' = [pc |-> "reading", row |-> None, queued |-> FALSE,
               left |-> {row \in Rows : queueRow[row[1]][row[2]] \in Unfinished}]
  /\ UNCHANGED <<tables, runs, tick, edits, minute, crashes, history>>

\* ... and requestCancellation() reads the status of each, passing over a row
\* that is finished by now ...
SweepReads(row) ==
  LET status == queueRow[row[1]][row[2]]
  IN /\ sweep.pc = "reading" /\ row \in sweep.left
     /\ sweep' = IF status \in Unfinished
                 THEN [pc |-> "recording", row |-> row, queued |-> status = "queued",
                       left |-> sweep.left \ {row}]
                 ELSE [sweep EXCEPT !.left = @ \ {row}]
     /\ UNCHANGED <<tables, stopped, runs, tick, edits, minute, crashes, history>>

\* ... records the cancellation ...
SweepRecords ==
  /\ sweep.pc = "recording"
  /\ requested' = requested \cup {sweep.row}
  /\ sweep' = IF sweep.queued THEN [sweep EXCEPT !.pc = "cancelling"]
              ELSE [sweep EXCEPT !.pc = "reading", !.row = None]
  /\ UNCHANGED <<campaigns, runRow, queueRow, lastRun, lock, lapsed, stored, usage, stopped,
                 runs, tick, edits, minute, crashes, history>>

\* ... and cancels a row that was queued when it was read, whoever holds it now.
SweepCancels ==
  /\ sweep.pc = "cancelling"
  /\ queueRow' = [queueRow EXCEPT ![sweep.row[1]][sweep.row[2]] =
                    IF @ \in Unfinished THEN "cancelled" ELSE @]
  /\ sweep' = [sweep EXCEPT !.pc = "reading", !.row = None, !.queued = FALSE]
  /\ UNCHANGED <<campaigns, runRow, lastRun, lock, lapsed, stored, usage, requested, stopped,
                 runs, tick, edits, minute, crashes, history>>

SweepEnds ==
  /\ sweep.pc = "reading" /\ sweep.left = {}
  /\ sweep' = IdleRun
  /\ UNCHANGED <<tables, stopped, runs, tick, edits, minute, crashes, history>>

ResetStop ==
  /\ ~Busy /\ stopped
  /\ stopped' = FALSE
  /\ UNCHANGED <<tables, runs, tick, edits, sweep, minute, crashes, history>>

MinutePasses ==
  /\ minute < MaxMinute
  /\ minute' = minute + 1
  /\ UNCHANGED <<tables, memory, crashes, history>>

LeaseLapses(c) ==
  /\ lock[c] # NoRun /\ c \notin lapsed
  /\ lapsed' = lapsed \cup {c}
  /\ UNCHANGED <<campaigns, runRow, queueRow, lastRun, lock, stored, usage, requested,
                 memory, minute, crashes, history>>

\* The daemon dies anywhere and is started again; the Store's constructor
\* deletes the lapsed locks.  The stop was in memory only.
Crash ==
  /\ crashes < MaxCrashes
  /\ crashes' = crashes + 1
  /\ lock' = [c \in Ids |-> IF LockFree(c) THEN NoRun ELSE Gone]
  /\ lapsed' = {}
  /\ stopped' = FALSE
  /\ runs' = [r \in Runs |-> IdleRun]
  /\ tick' = IdleRun
  /\ edits' = [c \in Ids |-> None]
  /\ sweep' = IdleRun
  /\ orphans' = orphans \cup {row \in Rows : runRow[row[1]][row[2]] = "running"}
  /\ UNCHANGED <<campaigns, runRow, queueRow, lastRun, stored, usage, requested, minute, starts,
                 made, applied, peak>>

RunNext(r) ==
  \/ \E c \in Ids : RunFromApi(r, c)
  \/ DiscoverFails(r)
  \/ \E found \in SUBSET Postings : Discovered(r, found)
  \/ \E p \in Postings : ConsiderJob(r, p)
  \/ Reserve(r)
  \/ CreateApplication(r)
  \/ FinishRun(r)
  \/ ClaimAndRun(r)

RouteNext(c) ==
  \/ \E body \in Settings : \/ CreateFromDashboard(c, body)
                            \/ CreateFromTool(c, body)
                            \/ EditSave(c, body)
  \/ EditRead(c) \/ RefuseFromApi(c)
  \/ \E state \in CampaignState : SetState(c, state)

SchedulerNext ==
  \/ TickStarts \/ ClaimMissed \/ ClaimAndFail \/ RecordRun \/ TickEnds
  \/ \E c \in Ids : TickPassesBy(c) \/ TickQueues(c)

WorkerNext(c, m) ==
  WorkerTakesRow(c, m) \/ WorkerCancelsRow(c, m) \/ WorkerRefusesRow(c, m) \/ WorkerFailsRow(c, m)

StopNext ==
  \/ EngageStop \/ SweepRecords \/ SweepCancels \/ SweepEnds \/ ResetStop
  \/ \E row \in Rows : SweepReads(row)

CampaignNext ==
  \/ \E r \in Runs : RunNext(r)
  \/ \E c \in Ids : RouteNext(c) \/ LeaseLapses(c)
  \/ SchedulerNext
  \/ \E c \in Ids, m \in Minutes : WorkerNext(c, m)
  \/ StopNext \/ MinutePasses \/ Crash

CampaignSpec == CampaignInit /\ [][CampaignNext]_campaignVars
-----------------------------------------------------------------------------
(* Properties. *)

\* The daily limit (tests/orchestrator.test.ts:10) holds over overlapping runs
\* that carry different copies of the campaign, edits and crashes: no more
\* applications are created for a day than reservations were granted, and no
\* more reservations than the largest limit the campaign ever had.
DailyLimit ==
  \A c \in Ids, d \in Days : made[c][d] <= usage[c][d] /\ usage[c][d] <= peak[c]

\* However often campaigns meet a posting, side by side, after a crash or a
\* lapsed lock, it is applied to at most once.
OneApplicationPerPosting == \A p \in Postings : applied[p] <= 1

\* tests/scheduler.test.ts:7: at most one run per local minute, although tick()
\* works from the time and the list it read at its start, and over restarts.
OncePerSlot == \A c \in Ids, m \in Minutes : starts[c][m] <= 1

\* What the run row says is what became of the queue's row, whichever of the
\* scheduler, a worker without a handler and the emergency stop decided that:
\* completed only when that was completed, failed only when it failed, went to a
\* worker or was cancelled, and cancelled only on a recorded cancellation.
RunAgreesWithQueue ==
  \A c \in Ids, m \in Minutes :
    /\ runRow[c][m] = "completed" => queueRow[c][m] = "completed"
    /\ runRow[c][m] = "failed" => queueRow[c][m] \in {"failed", "cancelled"} \cup WithWorker
    /\ queueRow[c][m] = "cancelled" => <<c, m>> \in requested
    /\ queueRow[c][m] = "completed" => runRow[c][m] \in {"running", "completed"}

\* A run row left at running is one that the scheduler is still working on or
\* that a dead process started: every way out of execute() records the run.
RunningRowsAreOwned ==
  \A c \in Ids, m \in Minutes :
    runRow[c][m] = "running" =>
      \/ <<c, m>> \in orphans
      \/ tick # IdleRun /\ tick.of = c /\ tick.now = m

\* docs/troubleshooting.md:12: "a lock remains while the process owns the run".
\* The row of a run in progress goes away only when its lease lapsed, the run
\* ended or the process died.
LockStaysWithItsRun ==
  [][\A c \in Ids, r \in Runs :
       (lock[c] = r /\ lock'[c] # r) =>
         (c \in lapsed \/ runs'[r] = IdleRun \/ crashes' # crashes)]_campaignVars
=============================================================================
