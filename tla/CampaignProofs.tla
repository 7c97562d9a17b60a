--------------------------- MODULE CampaignProofs ---------------------------
(* Type correctness of Campaigns and its safety invariants, for any number  *)
(* of campaigns, postings, overlapping runs and minutes, and any settings.  *)
EXTENDS Campaigns, TLAPS

-----------------------------------------------------------------------------
(* Types. *)

LEMMA Statuses ==
  {"none", "queued", "taken", "refused", "running", "completed", "failed", "cancelled"} = QueueStatus
  BY DEF QueueStatus, Unfinished, WithWorker

LEMMA InitTypes == CampaignInit => CampaignTypeOK
<1> SUFFICES ASSUME CampaignInit PROVE CampaignTypeOK
  OBVIOUS
<1>1. 0 \in Minutes /\ 0 \in 0..MaxCrashes
  BY CampaignAssumption DEF Minutes
<1>2. /\ campaigns \in [Ids -> CampaignData \cup {None}] /\ edits \in [Ids -> CampaignData \cup {None}]
      /\ lastRun \in [Ids -> Minutes \cup {None}]
      /\ usage \in [Ids -> [Days -> Nat]] /\ made \in [Ids -> [Days -> Nat]]
      /\ runs \in [Runs -> RunState \cup {IdleRun}]
  BY DEF CampaignInit
<1>3. queueRow \in [Ids -> [Minutes -> QueueStatus]]
  BY Statuses DEF CampaignInit
<1> QED BY <1>1, <1>2, <1>3 DEF CampaignInit, CampaignTypeOK

\* A run or a tick that is at work has the fields of one.
LEMMA AtWork ==
  ASSUME CampaignTypeOK
  PROVE  /\ \A r \in Runs : runs[r] = IdleRun \/ runs[r] \in RunState
         /\ \A r \in Runs : runs[r].pc # "idle" => runs[r] \in RunState
         /\ tick.pc # "idle" => tick \in TickState
         /\ \A r \in Runs : runs[r] \in RunState => runs[r].pc # "idle"
         /\ tick \in TickState => tick.pc # "idle" /\ tick # IdleRun
         /\ \A c \in Ids : c \in Existing => campaigns[c] \in CampaignData
  BY DEF CampaignTypeOK, IdleRun, RunState, TickState, Existing

LEMMA DayType == CampaignTypeOK => DayOf(minute) \in Days
  BY DEF CampaignTypeOK, Days

LEMMA SaveType ==
  ASSUME CampaignTypeOK, NEW c \in Ids, NEW data \in CampaignData, SaveCampaign(c, data)
  PROVE  campaigns' \in [Ids -> CampaignData \cup {None}] /\ peak' \in [Ids -> Nat]
  BY DEF CampaignTypeOK, SaveCampaign, CampaignData, Later

LEMMA FromType ==
  ASSUME NEW body \in CampaignData
  PROVE  /\ CampaignFrom(body) \in CampaignData
         /\ \A s \in CampaignState : [body EXCEPT !.state = s] \in CampaignData
  BY DEF CampaignFrom, CampaignData, ExecutionMode

LEMMA ReleaseType ==
  ASSUME CampaignTypeOK, NEW c \in Ids, ReleaseLock(c)
  PROVE  lock' \in [Ids -> Runs \cup {NoRun, Gone}] /\ lapsed' \subseteq Ids
  BY DEF CampaignTypeOK, ReleaseLock

\* What becomes of one run.
LEMMA RunType ==
  ASSUME CampaignTypeOK, NEW r \in Runs, NEW run \in RunState \cup {IdleRun},
         runs' = [runs EXCEPT ![r] = run]
  PROVE  runs' \in [Runs -> RunState \cup {IdleRun}]
  BY DEF CampaignTypeOK

LEMMA EndedType ==
  ASSUME CampaignTypeOK, NEW r \in Runs, runs[r] \in RunState,
         NEW outcome \in {"completed", "failed"},
         runs[r].slot # None => tick \in TickState, RunEnded(r, outcome)
  PROVE  /\ queueRow' \in [Ids -> [Minutes -> QueueStatus]]
         /\ tick' \in TickState \cup {IdleRun}
<1>1. CASE runs[r].slot = None
  BY <1>1 DEF RunEnded, CampaignTypeOK
<1>2. CASE runs[r].slot # None
  <2>1. runs[r].of \in Ids /\ runs[r].slot \in Minutes
    BY <1>2 DEF RunState
  <2>2. tick' \in TickState
    BY <1>2 DEF RunEnded, TickState
  <2>3. PICK status \in QueueStatus :
          queueRow' = [queueRow EXCEPT ![runs[r].of][runs[r].slot] = status]
    <3>1. queueRow[runs[r].of][runs[r].slot] \in QueueStatus /\ outcome \in QueueStatus
      BY <2>1, Statuses DEF CampaignTypeOK
    <3> QED BY <1>2, <3>1 DEF RunEnded
  <2> QED BY <2>1, <2>2, <2>3 DEF CampaignTypeOK
<1> QED BY <1>1, <1>2

LEMMA ZeroDay == 0 \in Days
<1>1. 0 \in Minutes /\ DayOf(0) = 0
  BY CampaignAssumption DEF Minutes, DayOf
<1> QED BY <1>1 DEF Days

LEMMA BeginType ==
  ASSUME CampaignTypeOK, NEW r \in Runs, NEW c \in Ids, NEW data \in CampaignData,
         NEW slot \in Minutes \cup {None}, BeginRun(r, c, data, slot)
  PROVE  /\ runs' \in [Runs -> RunState \cup {IdleRun}]
         /\ lock' \in [Ids -> Runs \cup {NoRun, Gone}] /\ lapsed' \subseteq Ids
<1>2. [pc |-> "discovering", of |-> c, data |-> data, slot |-> slot,
       todo |-> {}, job |-> None, day |-> 0, made |-> 0] \in RunState
  BY ZeroDay DEF RunState
<1> QED BY <1>2 DEF BeginRun, CampaignTypeOK

-----------------------------------------------------------------------------
(* What each step does to a run and to the tick that waits for it. *)

\* A run of the scheduler is the one its tick waits for.
Scheduled(r) == runs[r].pc # "idle" /\ runs[r].slot # None
Awaited ==
  /\ \A r \in Runs : Scheduled(r) =>
       tick.pc = "awaiting" /\ tick.of = runs[r].of /\ tick.now = runs[r].slot
  /\ \A r, s \in Runs : Scheduled(r) /\ Scheduled(s) => r = s

\* What the fields of a tick hold between its steps.
TickSound ==
  tick.pc # "idle" =>
    /\ \A c \in tick.left : tick.seen[c] # None
    /\ tick.pc = "scanning" => tick.of = None
    /\ tick.pc # "scanning" => tick.of \in Ids /\ tick.seen[tick.of] # None
    /\ tick.pc = "recording" => tick.outcome # "none"

Base == CampaignTypeOK /\ Awaited /\ TickSound

\* A run goes on to its next step: what it was started with stays.
GoesOn(r) ==
  /\ runs[r] \in RunState /\ runs'[r] \in RunState
  /\ runs'[r].of = runs[r].of /\ runs'[r].data = runs[r].data /\ runs'[r].slot = runs[r].slot
  /\ runs' \in [Runs -> RunState \cup {IdleRun}]
  /\ \A s \in Runs \ {r} : runs'[s] = runs[s]
  /\ tick' = tick

LEMMA DiscoveredGoesOn ==
  ASSUME CampaignTypeOK, NEW r \in Runs, NEW found \in SUBSET Postings, Discovered(r, found)
  PROVE  GoesOn(r) /\ runs'[r].pc = "loop"
<1>1. runs[r] \in RunState
  BY AtWork DEF Discovered
<1>2. [runs[r] EXCEPT !.pc = "loop", !.todo = found] \in RunState
  BY <1>1 DEF RunState
<1>3. runs' = [runs EXCEPT ![r] = [runs[r] EXCEPT !.pc = "loop", !.todo = found]]
  BY DEF Discovered, CampaignTypeOK
<1> QED BY <1>1, <1>2, <1>3, RunType DEF GoesOn, Discovered, CampaignTypeOK, RunState

LEMMA ConsiderGoesOn ==
  ASSUME CampaignTypeOK, NEW r \in Runs, NEW p \in Postings, ConsiderJob(r, p)
  PROVE  /\ GoesOn(r)
         /\ \/ runs'[r].pc = "loop"
            \/ runs'[r].pc = "reserve" /\ runs'[r].job = p /\ p \notin stored
<1>1. runs[r] \in RunState
  BY AtWork DEF ConsiderJob
<1>2. PICK selected \in BOOLEAN :
        /\ runs' = [runs EXCEPT ![r].todo = @ \ {p},
                               ![r].pc = IF selected THEN "reserve" ELSE "loop",
                               ![r].job = IF selected THEN p ELSE None]
        /\ selected => p \notin stored
  BY DEF ConsiderJob, SaveJob
<1> DEFINE run == [runs[r] EXCEPT !.todo = @ \ {p},
                                  !.pc = IF selected THEN "reserve" ELSE "loop",
                                  !.job = IF selected THEN p ELSE None]
<1>3. run \in RunState
  BY <1>1 DEF RunState
<1>4. /\ run.of = runs[r].of /\ run.data = runs[r].data /\ run.slot = runs[r].slot
      /\ run.pc = IF selected THEN "reserve" ELSE "loop"
      /\ run.job = IF selected THEN p ELSE None
  BY <1>1 DEF RunState
<1>5. runs' = [runs EXCEPT ![r] = run]
  BY <1>2 DEF CampaignTypeOK
<1> HIDE DEF run
<1>6. runs'[r] = run /\ \A s \in Runs \ {r} : runs'[s] = runs[s]
  BY <1>5 DEF CampaignTypeOK
<1>7. runs' \in [Runs -> RunState \cup {IdleRun}]
  BY <1>3, <1>5, RunType
<1>8. tick' = tick
  BY DEF ConsiderJob
<1> QED BY <1>1, <1>2, <1>3, <1>4, <1>6, <1>7, <1>8 DEF GoesOn

LEMMA ReserveGoesOn ==
  ASSUME CampaignTypeOK, NEW r \in Runs, Reserve(r)
  PROVE  /\ GoesOn(r)
         /\ runs[r].of \in Ids /\ DayOf(minute) \in Days
         /\ usage' \in [Ids -> [Days -> Nat]]
         /\ \/ runs'[r].pc = "loop" /\ usage' = usage
            \/ /\ runs'[r].pc = "create" /\ runs'[r].job = runs[r].job
               /\ runs'[r].day = DayOf(minute)
               /\ usage[runs[r].of][DayOf(minute)] < runs[r].data.perDay
               /\ usage' = [usage EXCEPT ![runs[r].of][DayOf(minute)] = @ + 1]
<1> DEFINE d == DayOf(minute)
           granted == usage[runs[r].of][d] < runs[r].data.perDay
           run == [runs[r] EXCEPT !.pc = IF granted THEN "create" ELSE "loop",
                                  !.job = IF granted THEN @ ELSE None,
                                  !.day = IF granted THEN d ELSE @]
<1>1. runs[r] \in RunState /\ d \in Days
  BY AtWork, DayType DEF Reserve
<1>2. runs' = [runs EXCEPT ![r] = run]
  BY DEF Reserve, Below, CampaignTypeOK
<1>3. usage' = [usage EXCEPT ![runs[r].of][d] = IF granted THEN @ + 1 ELSE @]
  BY DEF Reserve, Below
<1> HIDE DEF d
<1>4. run \in RunState
  BY <1>1 DEF RunState
<1>5. /\ run.of = runs[r].of /\ run.data = runs[r].data /\ run.slot = runs[r].slot
      /\ run.pc = IF granted THEN "create" ELSE "loop"
      /\ granted => run.job = runs[r].job /\ run.day = d
  BY <1>1 DEF RunState
<1>6. runs[r].of \in Ids
  BY <1>1 DEF RunState
<1>7. usage' \in [Ids -> [Days -> Nat]] /\ (~granted => usage' = usage)
  <2> HIDE DEF granted
  <2>1. usage \in [Ids -> [Days -> Nat]] /\ usage[runs[r].of][d] \in Nat
    BY <1>1, <1>6 DEF CampaignTypeOK
  <2>2. CASE granted
    BY <1>1, <1>3, <1>6, <2>1, <2>2
  <2>3. CASE ~granted
    BY <1>1, <1>3, <1>6, <2>1, <2>3
  <2> QED BY <2>2, <2>3
<1>8. GoesOn(r) /\ runs'[r] = run
  <2> HIDE DEF run, granted
  <2>1. runs'[r] = run /\ \A s \in Runs \ {r} : runs'[s] = runs[s]
    BY <1>2 DEF CampaignTypeOK
  <2>2. runs' \in [Runs -> RunState \cup {IdleRun}] /\ tick' = tick
    BY <1>2, <1>4, RunType DEF Reserve
  <2> QED BY <1>1, <1>4, <1>5, <2>1, <2>2 DEF GoesOn
<1> QED BY <1>1, <1>3, <1>5, <1>6, <1>7, <1>8 DEF d

LEMMA CreateGoesOn ==
  ASSUME CampaignTypeOK, NEW r \in Runs, CreateApplication(r)
  PROVE  GoesOn(r) /\ runs'[r].pc = "loop"
<1> DEFINE run == [runs[r] EXCEPT !.pc = "loop", !.job = None, !.day = 0, !.made = @ + 1]
<1>1. runs[r] \in RunState
  BY AtWork DEF CreateApplication
<1>2. runs' = [runs EXCEPT ![r] = run]
  BY DEF CreateApplication, CampaignTypeOK
<1>3. run \in RunState
  <2>1. runs[r].made + 1 \in Nat
    BY <1>1 DEF RunState
  <2> QED BY <1>1, <2>1, ZeroDay DEF RunState
<1>4. run.of = runs[r].of /\ run.data = runs[r].data /\ run.slot = runs[r].slot /\ run.pc = "loop"
  BY <1>1 DEF RunState
<1> HIDE DEF run
<1> QED BY <1>1, <1>2, <1>3, <1>4, RunType DEF GoesOn, CreateApplication, CampaignTypeOK

-----------------------------------------------------------------------------
(* Base is an invariant. *)

\* A step that schedules nothing and leaves the tick where it waits.
LEMMA AwaitedKept ==
  ASSUME Awaited, tick'.pc = tick.pc, tick.pc = "awaiting" => tick' = tick,
         \A r \in Runs : Scheduled(r)' =>
           Scheduled(r) /\ runs'[r].of = runs[r].of /\ runs'[r].slot = runs[r].slot
  PROVE  Awaited'
  BY DEF Awaited

\* While the tick is not waiting nothing is scheduled.
LEMMA NothingScheduled ==
  ASSUME Awaited, tick.pc # "awaiting", runs' = runs
  PROVE  Awaited'
  BY DEF Awaited, Scheduled

LEMMA GoesOnAwaited ==
  ASSUME Base, NEW r \in Runs, GoesOn(r)
  PROVE  Awaited' /\ TickSound'
<1>1. \A s \in Runs : Scheduled(s)' =>
        Scheduled(s) /\ runs'[s].of = runs[s].of /\ runs'[s].slot = runs[s].slot
  <2> SUFFICES ASSUME NEW s \in Runs, Scheduled(s)'
               PROVE  Scheduled(s) /\ runs'[s].of = runs[s].of /\ runs'[s].slot = runs[s].slot
    OBVIOUS
  <2>1. CASE s = r
    BY <2>1, AtWork DEF Base, GoesOn, Scheduled
  <2>2. CASE s # r
    BY <2>2 DEF GoesOn, Scheduled
  <2> QED BY <2>1, <2>2
<1> QED BY <1>1, AwaitedKept DEF Base, GoesOn, TickSound

LEMMA EndedBase ==
  ASSUME Base, NEW r \in Runs, runs[r] \in RunState,
         NEW outcome \in {"completed", "failed"}, RunEnded(r, outcome),
         runs' = [runs EXCEPT ![r] = IdleRun]
  PROVE  /\ Awaited' /\ TickSound'
         /\ runs' \in [Runs -> RunState \cup {IdleRun}]
         /\ queueRow' \in [Ids -> [Minutes -> QueueStatus]]
         /\ tick' \in TickState \cup {IdleRun}
<1>1. runs[r].slot # None => tick.pc = "awaiting"
  BY AtWork DEF Base, Awaited, Scheduled
<1>2. runs[r].slot # None => tick \in TickState
  BY <1>1, AtWork DEF Base
<1>3. \A s \in Runs : Scheduled(s)' => s # r /\ Scheduled(s) /\ runs'[s] = runs[s]
  BY DEF Base, CampaignTypeOK, Scheduled, IdleRun
<1>4. Awaited'
  <2>1. CASE runs[r].slot = None
    BY <1>3, <2>1, AwaitedKept DEF Base, RunEnded
  <2>2. CASE runs[r].slot # None
    <3>1. Scheduled(r)
      BY <2>2, AtWork DEF Scheduled, Base
    <3>2. \A s \in Runs : ~Scheduled(s)'
      BY <1>3, <3>1 DEF Base, Awaited
    <3> QED BY <3>2 DEF Awaited
  <2> QED BY <2>1, <2>2
<1>5. TickSound'
  <2>1. CASE runs[r].slot = None
    BY <2>1 DEF Base, RunEnded, TickSound
  <2>2. CASE runs[r].slot # None
    <3>1. tick' = [tick EXCEPT !.pc = "recording", !.outcome = outcome]
      BY <2>2 DEF RunEnded
    <3> QED BY <1>1, <1>2, <2>2, <3>1 DEF Base, TickSound, TickState
  <2> QED BY <2>1, <2>2
<1> QED BY <1>2, <1>4, <1>5, RunType, EndedType DEF Base

LEMMA RunFromApiBase ==
  ASSUME Base, NEW r \in Runs, NEW c \in Ids, RunFromApi(r, c)
  PROVE  Base'
<1>1. campaigns[c] \in CampaignData
  BY AtWork DEF Base, RunFromApi
<1>2. CampaignTypeOK'
  <2>1. /\ runs' \in [Runs -> RunState \cup {IdleRun}]
        /\ lock' \in [Ids -> Runs \cup {NoRun, Gone}] /\ lapsed' \subseteq Ids
    BY <1>1, BeginType DEF Base, RunFromApi
  <2> QED BY <2>1 DEF Base, CampaignTypeOK, RunFromApi, history
<1>3. Awaited'
  BY AwaitedKept DEF Base, RunFromApi, BeginRun, CampaignTypeOK, Scheduled
<1> QED BY <1>2, <1>3 DEF Base, RunFromApi, TickSound

LEMMA ClaimAndRunBase ==
  ASSUME Base, NEW r \in Runs, ClaimAndRun(r)
  PROVE  Base'
<1>1. /\ tick \in TickState /\ tick.pc = "claiming" /\ tick.of \in Ids
      /\ tick.now \in Minutes /\ tick.seen[tick.of] \in CampaignData
  BY AtWork DEF Base, ClaimAndRun, TickSound, TickState
<1>2. tick' = [tick EXCEPT !.pc = "awaiting"] /\ tick' \in TickState
  BY <1>1 DEF ClaimAndRun, TickState
<1>3. tick'.pc = "awaiting" /\ tick'.of = tick.of /\ tick'.now = tick.now /\ tick'.seen = tick.seen
      /\ tick'.left = tick.left
  BY <1>1, <1>2 DEF TickState
<1>4. BeginRun(r, tick.of, tick.seen[tick.of], tick.now)
  BY DEF ClaimAndRun
<1>5. CampaignTypeOK'
  <2>1. queueRow' \in [Ids -> [Minutes -> QueueStatus]]
    BY <1>1, Statuses DEF Base, CampaignTypeOK, ClaimAndRun
  <2>2. /\ runs' \in [Runs -> RunState \cup {IdleRun}]
        /\ lock' \in [Ids -> Runs \cup {NoRun, Gone}] /\ lapsed' \subseteq Ids
    BY <1>1, <1>4, BeginType DEF Base
  <2> QED BY <1>2, <2>1, <2>2 DEF Base, CampaignTypeOK, ClaimAndRun, history
<1>6. \A s \in Runs : ~Scheduled(s)
  BY <1>1 DEF Base, Awaited
<1>7. runs'[r].of = tick.of /\ runs'[r].slot = tick.now /\ \A s \in Runs \ {r} : runs'[s] = runs[s]
  BY <1>4 DEF BeginRun, Base, CampaignTypeOK
<1>8. Awaited'
  BY <1>3, <1>6, <1>7 DEF Awaited, Scheduled
<1>9. TickSound'
  BY <1>1, <1>3, CampaignAssumption DEF Base, TickSound
<1> QED BY <1>5, <1>8, <1>9 DEF Base

LEMMA RunBase ==
  ASSUME Base, NEW r \in Runs, RunNext(r)
  PROVE  Base'
<1>1. ASSUME NEW c \in Ids, RunFromApi(r, c) PROVE Base'
  BY <1>1, RunFromApiBase
<1>2. CASE DiscoverFails(r)
  <2>1. runs[r] \in RunState /\ runs[r].of \in Ids
    BY <1>2, AtWork DEF DiscoverFails, Base, RunState
  <2>2. CampaignTypeOK'
    <3>1. lock' \in [Ids -> Runs \cup {NoRun, Gone}] /\ lapsed' \subseteq Ids
      BY <1>2, <2>1, ReleaseType DEF DiscoverFails, Base
    <3>2. /\ runs' \in [Runs -> RunState \cup {IdleRun}] /\ tick' \in TickState \cup {IdleRun}
          /\ queueRow' \in [Ids -> [Minutes -> QueueStatus]]
      BY <1>2, <2>1, EndedBase DEF DiscoverFails
    <3> QED BY <1>2, <3>1, <3>2 DEF DiscoverFails, Base, CampaignTypeOK, history
  <2> QED BY <1>2, <2>1, <2>2, EndedBase DEF DiscoverFails, Base
<1>3. ASSUME NEW found \in SUBSET Postings, Discovered(r, found) PROVE Base'
  <2>1. GoesOn(r)
    BY <1>3, DiscoveredGoesOn DEF Base
  <2>2. CampaignTypeOK'
    BY <1>3, <2>1 DEF GoesOn, Discovered, Base, CampaignTypeOK, tables, history
  <2> QED BY <2>1, <2>2, GoesOnAwaited DEF Base
<1>4. ASSUME NEW p \in Postings, ConsiderJob(r, p) PROVE Base'
  <2>1. GoesOn(r)
    BY <1>4, ConsiderGoesOn DEF Base
  <2>2. CampaignTypeOK'
    BY <1>4, <2>1 DEF GoesOn, ConsiderJob, Base, CampaignTypeOK, history
  <2> QED BY <2>1, <2>2, GoesOnAwaited DEF Base
<1>5. CASE Reserve(r)
  <2>1. GoesOn(r) /\ usage' \in [Ids -> [Days -> Nat]]
    BY <1>5, ReserveGoesOn DEF Base
  <2>2. CampaignTypeOK'
    BY <1>5, <2>1 DEF GoesOn, Reserve, Base, CampaignTypeOK, history
  <2> QED BY <2>1, <2>2, GoesOnAwaited DEF Base
<1>6. CASE CreateApplication(r)
  <2>1. GoesOn(r) /\ runs[r].of \in Ids /\ runs[r].day \in Days
    BY <1>6, CreateGoesOn DEF Base, GoesOn, RunState
  <2>2. made' \in [Ids -> [Days -> Nat]] /\ applied' \in [Postings -> Nat]
    <3>1. made \in [Ids -> [Days -> Nat]] /\ applied \in [Postings -> Nat]
      BY DEF Base, CampaignTypeOK
    <3>2. made[runs[r].of][runs[r].day] + 1 \in Nat
      BY <2>1, <3>1
    <3>3. made' = [made EXCEPT ![runs[r].of][runs[r].day] = @ + 1]
      BY <1>6 DEF CreateApplication
    <3>4. made' \in [Ids -> [Days -> Nat]]
      BY <2>1, <3>1, <3>2, <3>3
    <3>5. applied' = [applied EXCEPT ![runs[r].job] = @ + 1]
      BY <1>6 DEF CreateApplication
    <3>6. applied' = [p \in Postings |-> IF p = runs[r].job THEN applied[p] + 1 ELSE applied[p]]
      BY <3>1, <3>5
    <3>7. applied' \in [Postings -> Nat]
      BY <3>1, <3>6
    <3> QED BY <3>4, <3>7
  <2>3. CampaignTypeOK'
    BY <1>6, <2>1, <2>2 DEF GoesOn, CreateApplication, Base, CampaignTypeOK, tables
  <2> QED BY <2>1, <2>3, GoesOnAwaited DEF Base
<1>7. CASE FinishRun(r)
  <2>1. runs[r] \in RunState /\ runs[r].of \in Ids
    BY <1>7, AtWork DEF FinishRun, Base, RunState
  <2>2. CampaignTypeOK'
    <3>1. lock' \in [Ids -> Runs \cup {NoRun, Gone}] /\ lapsed' \subseteq Ids
      BY <1>7, <2>1, ReleaseType DEF FinishRun, Base
    <3>2. /\ runs' \in [Runs -> RunState \cup {IdleRun}] /\ tick' \in TickState \cup {IdleRun}
          /\ queueRow' \in [Ids -> [Minutes -> QueueStatus]]
      BY <1>7, <2>1, EndedBase DEF FinishRun
    <3> QED BY <1>7, <3>1, <3>2 DEF FinishRun, Base, CampaignTypeOK, history
  <2> QED BY <1>7, <2>1, <2>2, EndedBase DEF FinishRun, Base
<1>8. CASE ClaimAndRun(r)
  BY <1>8, ClaimAndRunBase
<1> QED BY <1>1, <1>2, <1>3, <1>4, <1>5, <1>6, <1>7, <1>8 DEF RunNext


\* A step of a route: the daemon's runs and tick are not touched.
LEMMA RouteBase ==
  ASSUME Base, NEW c \in Ids, RouteNext(c)
  PROVE  Base' /\ runs' = runs /\ tick' = tick
<1>1. ASSUME NEW data \in CampaignData, SaveCampaign(c, data),
             edits' \in [Ids -> CampaignData \cup {None}],
             UNCHANGED <<runRow, queueRow, lastRun, lock, lapsed, stored, usage, requested,
                         stopped, runs, tick, sweep, minute, crashes, starts, orphans, made, applied>>
      PROVE  CampaignTypeOK'
  <2>1. campaigns' \in [Ids -> CampaignData \cup {None}] /\ peak' \in [Ids -> Nat]
    BY <1>1, SaveType DEF Base
  <2> QED BY <1>1, <2>1 DEF Base, CampaignTypeOK
<1>2. edits \in [Ids -> CampaignData \cup {None}]
  BY DEF Base, CampaignTypeOK
<1>3. ASSUME NEW body \in Settings,
             \/ CreateFromDashboard(c, body) \/ CreateFromTool(c, body) \/ EditSave(c, body)
      PROVE  CampaignTypeOK' /\ runs' = runs /\ tick' = tick
  <2>1. body \in CampaignData
    BY CampaignAssumption
  <2>2. CASE CreateFromDashboard(c, body)
    BY <1>1, <1>2, <2>1, <2>2, FromType DEF CreateFromDashboard, memory
  <2>3. CASE CreateFromTool(c, body)
    <3>1. [body EXCEPT !.state = "enabled"] \in CampaignData
      BY <2>1, FromType DEF CampaignState
    <3> QED BY <1>1, <1>2, <2>3, <3>1 DEF CreateFromTool, memory
  <2>4. CASE EditSave(c, body)
    <3>1. edits[c] \in CampaignData
      BY <1>2, <2>4 DEF EditSave
    <3>2. PICK state \in {edits[c].state, body.state} :
            SaveCampaign(c, CampaignFrom([body EXCEPT !.state = state]))
      BY <2>4 DEF EditSave
    <3>3. state \in CampaignState
      BY <2>1, <3>1 DEF CampaignData
    <3>4. CampaignFrom([body EXCEPT !.state = state]) \in CampaignData
      BY <2>1, <3>3, FromType
    <3>5. edits' \in [Ids -> CampaignData \cup {None}]
      BY <1>2, <2>4 DEF EditSave
    <3> QED BY <1>1, <2>4, <3>2, <3>4, <3>5 DEF EditSave
  <2> QED BY <1>3, <2>2, <2>3, <2>4
<1>4. ASSUME EditRead(c) \/ RefuseFromApi(c) PROVE CampaignTypeOK' /\ runs' = runs /\ tick' = tick
  <2>1. CASE EditRead(c)
    BY <2>1 DEF EditRead, Base, CampaignTypeOK, tables, history
  <2>2. CASE RefuseFromApi(c)
    BY <2>2 DEF RefuseFromApi, ProfileMissing, Base, CampaignTypeOK, memory, history
  <2> QED BY <1>4, <2>1, <2>2
<1>5. ASSUME NEW state \in CampaignState, SetState(c, state)
      PROVE  CampaignTypeOK' /\ runs' = runs /\ tick' = tick
  <2>1. campaigns[c] \in CampaignData
    BY <1>5, AtWork DEF SetState, Base
  <2>2. [campaigns[c] EXCEPT !.state = state] \in CampaignData
    BY <2>1 DEF CampaignData
  <2> QED BY <1>1, <1>2, <1>5, <2>2 DEF SetState, memory
<1>6. CampaignTypeOK' /\ runs' = runs /\ tick' = tick
  BY <1>3, <1>4, <1>5 DEF RouteNext
<1>7. Awaited' /\ TickSound'
  BY <1>6 DEF Base, Awaited, TickSound, Scheduled
<1> QED BY <1>6, <1>7 DEF Base

\* A step of the scheduler's own: no run is scheduled meanwhile.
LEMMA SchedulerBase ==
  ASSUME Base, SchedulerNext
  PROVE  Base' /\ runs' = runs
<1>1. tick.pc # "awaiting" /\ runs' = runs
  <2>1. CASE TickStarts \/ ClaimMissed \/ ClaimAndFail
    BY <2>1 DEF TickStarts, ClaimMissed, ClaimAndFail, IdleRun
  <2>2. CASE RecordRun \/ TickEnds
    BY <2>2 DEF RecordRun, TickEnds
  <2>3. ASSUME NEW c \in Ids, TickPassesBy(c) \/ TickQueues(c)
        PROVE  tick.pc # "awaiting" /\ runs' = runs
    BY <2>3 DEF TickPassesBy, TickQueues
  <2> QED BY <2>1, <2>2, <2>3 DEF SchedulerNext
<1>2. Awaited'
  BY <1>1, NothingScheduled DEF Base
<1>3. CASE TickStarts
  <2>1. tick' = [pc |-> "scanning", now |-> minute, left |-> Existing, seen |-> campaigns,
                 of |-> None, outcome |-> "none"]
    BY <1>3 DEF TickStarts
  <2>2. tick' \in TickState
    BY <2>1 DEF Base, CampaignTypeOK, TickState, Existing
  <2>3. CampaignTypeOK'
    BY <1>3, <2>2 DEF TickStarts, Base, CampaignTypeOK, tables, history
  <2>4. TickSound'
    BY <2>1 DEF TickSound, Existing
  <2> QED BY <1>1, <1>2, <2>3, <2>4 DEF Base
<1>4. CASE ClaimMissed
  <2>1. tick' = [tick EXCEPT !.pc = "recording", !.outcome = "failed"] /\ tick \in TickState
        /\ tick.pc = "claiming"
    BY <1>4, AtWork DEF ClaimMissed, Base
  <2>2. tick' \in TickState /\ TickSound'
    BY <2>1 DEF Base, TickSound, TickState
  <2>3. CampaignTypeOK'
    BY <1>4, <2>2 DEF ClaimMissed, Base, CampaignTypeOK, tables, history
  <2> QED BY <1>1, <1>2, <2>2, <2>3 DEF Base
<1>5. CASE ClaimAndFail
  <2>1. tick' = [tick EXCEPT !.pc = "recording", !.outcome = "failed"] /\ tick \in TickState
        /\ tick.pc = "claiming"
    BY <1>5, AtWork DEF ClaimAndFail, Base
  <2>2. tick' \in TickState /\ TickSound'
    BY <2>1 DEF Base, TickSound, TickState
  <2>3. tick.of \in Ids /\ tick.now \in Minutes
    BY <2>1 DEF Base, TickSound, TickState
  <2>4. queueRow' \in [Ids -> [Minutes -> QueueStatus]]
    BY <1>5, <2>3, Statuses DEF ClaimAndFail, Base, CampaignTypeOK
  <2>5. lock' \in [Ids -> Runs \cup {NoRun, Gone}] /\ lapsed' \subseteq Ids
    BY <1>5 DEF ClaimAndFail, ProfileMissing, Base, CampaignTypeOK
  <2>6. CampaignTypeOK'
    BY <1>5, <2>2, <2>4, <2>5 DEF ClaimAndFail, Base, CampaignTypeOK, history
  <2> QED BY <1>1, <1>2, <2>2, <2>6 DEF Base
<1>6. CASE RecordRun
  <2>1. tick' = [tick EXCEPT !.pc = "scanning", !.of = None, !.outcome = "none"]
        /\ tick \in TickState /\ tick.pc = "recording"
    BY <1>6, AtWork DEF RecordRun, Base
  <2>2. tick' \in TickState /\ TickSound'
    BY <2>1 DEF Base, TickSound, TickState
  <2>3. tick.of \in Ids /\ tick.now \in Minutes /\ tick.outcome \in {"completed", "failed"}
    BY <2>1 DEF Base, TickSound, TickState
  <2>4. runRow' \in [Ids -> [Minutes -> {"none", "running", "completed", "failed"}]]
    BY <1>6, <2>3 DEF RecordRun, Base, CampaignTypeOK
  <2>5. CampaignTypeOK'
    BY <1>6, <2>2, <2>4 DEF RecordRun, Base, CampaignTypeOK, history
  <2> QED BY <1>1, <1>2, <2>2, <2>5 DEF Base
<1>7. CASE TickEnds
  <2>1. CampaignTypeOK'
    BY <1>7 DEF TickEnds, Base, CampaignTypeOK, tables, history
  <2>2. TickSound'
    BY <1>7 DEF TickEnds, TickSound, IdleRun
  <2> QED BY <1>1, <1>2, <2>1, <2>2 DEF Base
<1>8. ASSUME NEW c \in Ids, TickPassesBy(c) PROVE Base'
  <2>1. tick' = [tick EXCEPT !.left = @ \ {c}] /\ tick \in TickState
    BY <1>8, AtWork DEF TickPassesBy, Base
  <2>2. tick' \in TickState /\ TickSound'
    BY <2>1 DEF Base, TickSound, TickState
  <2>3. CampaignTypeOK'
    BY <1>8, <2>2 DEF TickPassesBy, Base, CampaignTypeOK, tables, history
  <2> QED BY <1>1, <1>2, <2>2, <2>3 DEF Base
<1>9. ASSUME NEW c \in Ids, TickQueues(c) PROVE Base'
  <2>1. tick' = [tick EXCEPT !.pc = "claiming", !.left = @ \ {c}, !.of = c]
        /\ tick \in TickState /\ tick.pc = "scanning" /\ c \in tick.left
    BY <1>9, AtWork DEF TickQueues, Base
  <2>2. tick' \in TickState /\ TickSound'
    BY <2>1 DEF Base, TickSound, TickState
  <2>3. tick.now \in Minutes
    BY <2>1 DEF TickState
  <2>4. /\ runRow' \in [Ids -> [Minutes -> {"none", "running", "completed", "failed"}]]
        /\ queueRow' \in [Ids -> [Minutes -> QueueStatus]]
        /\ lastRun' \in [Ids -> Minutes \cup {None}]
    BY <1>9, <2>3, Statuses DEF TickQueues, Base, CampaignTypeOK
  <2>5. starts' \in [Ids -> [Minutes -> Nat]]
    BY <1>9, <2>3 DEF TickQueues, Base, CampaignTypeOK
  <2>6. CampaignTypeOK'
    BY <1>9, <2>2, <2>4, <2>5 DEF TickQueues, Base, CampaignTypeOK
  <2> QED BY <1>1, <1>2, <2>2, <2>6 DEF Base
<1> QED BY <1>1, <1>3, <1>4, <1>5, <1>6, <1>7, <1>8, <1>9 DEF SchedulerNext

\* The worker, the stop, the clock, a lapsing lease and a crash.
Elsewhere ==
  \/ \E c \in Ids : LeaseLapses(c)
  \/ \E c \in Ids, m \in Minutes : WorkerNext(c, m)
  \/ StopNext \/ MinutePasses \/ Crash

LEMMA WorkerFrame ==
  ASSUME CampaignTypeOK, NEW c \in Ids, NEW m \in Minutes, WorkerNext(c, m)
  PROVE  /\ UNCHANGED <<campaigns, runRow, lastRun, lock, lapsed, stored, usage, requested,
                        memory, minute, crashes, history>>
         /\ queueRow' \in [Ids -> [Minutes -> QueueStatus]]
         /\ \A d \in Ids, n \in Minutes :
              queueRow'[d][n] = queueRow[d][n] \/ (d = c /\ n = m)
         /\ \/ queueRow[c][m] = "queued" /\ queueRow'[c][m] = "taken"
            \/ queueRow[c][m] = "taken" /\ queueRow'[c][m] = "refused"
            \/ queueRow[c][m] = "refused" /\ queueRow'[c][m] = "failed"
            \/ queueRow[c][m] = "taken" /\ queueRow'[c][m] = "cancelled" /\ <<c, m>> \in requested
<1>1. PICK status \in {"taken", "refused", "failed", "cancelled"} :
        /\ queueRow' = [queueRow EXCEPT ![c][m] = status]
        /\ \/ queueRow[c][m] = "queued" /\ status = "taken"
           \/ queueRow[c][m] = "taken" /\ status = "refused"
           \/ queueRow[c][m] = "refused" /\ status = "failed"
           \/ queueRow[c][m] = "taken" /\ status = "cancelled" /\ <<c, m>> \in requested
  BY DEF WorkerNext, WorkerTakesRow, WorkerCancelsRow, WorkerRefusesRow, WorkerFailsRow
<1>2. UNCHANGED <<campaigns, runRow, lastRun, lock, lapsed, stored, usage, requested,
                  memory, minute, crashes, history>>
  BY DEF WorkerNext, WorkerTakesRow, WorkerCancelsRow, WorkerRefusesRow, WorkerFailsRow
<1>3. status \in QueueStatus
  BY DEF QueueStatus, Unfinished, WithWorker
<1>4. queueRow \in [Ids -> [Minutes -> QueueStatus]]
  BY DEF CampaignTypeOK
<1> QED BY <1>1, <1>2, <1>3, <1>4

\* The emergency stop writes the queue's rows, their cancellations and its own notes.
LEMMA StopFrame ==
  ASSUME CampaignTypeOK, StopNext
  PROVE  /\ UNCHANGED <<campaigns, runRow, lastRun, lock, lapsed, stored, usage, runs, tick,
                        edits, minute, crashes, history>>
         /\ stopped' \in BOOLEAN /\ requested \subseteq requested' /\ requested' \subseteq Rows
         /\ sweep' \in SweepState \cup {IdleRun}
         /\ \/ queueRow' = queueRow
            \/ SweepCancels /\ queueRow' \in [Ids -> [Minutes -> QueueStatus]]
<1>1. UNCHANGED <<campaigns, runRow, lastRun, lock, lapsed, stored, usage, runs, tick,
                  edits, minute, crashes, history>>
  BY DEF StopNext, EngageStop, SweepReads, SweepRecords, SweepCancels, SweepEnds, ResetStop, tables
<1>2. sweep \in SweepState \cup {IdleRun} /\ requested \subseteq Rows /\ stopped \in BOOLEAN
      /\ queueRow \in [Ids -> [Minutes -> QueueStatus]]
  BY DEF CampaignTypeOK
<1>3. sweep.pc # "idle" => sweep \in SweepState
  BY <1>2 DEF IdleRun
<1>4. CASE EngageStop
  <2>1. sweep' \in SweepState
    BY <1>4 DEF EngageStop, SweepState
  <2> QED BY <1>1, <1>2, <1>4, <2>1 DEF EngageStop, tables
<1>5. ASSUME NEW row \in Rows, SweepReads(row)
      PROVE  /\ sweep' \in SweepState
             /\ UNCHANGED <<queueRow, requested, stopped>>
  <2>1. sweep.left \subseteq Rows /\ sweep \in SweepState /\ sweep.pc = "reading"
    BY <1>3, <1>5 DEF SweepReads, SweepState
  <2>2. [sweep EXCEPT !.left = @ \ {row}] \in SweepState
    BY <2>1 DEF SweepState
  <2>3. ASSUME NEW b \in BOOLEAN
        PROVE  [pc |-> "recording", row |-> row, queued |-> b, left |-> sweep.left \ {row}] \in SweepState
    BY <2>1 DEF SweepState
  <2> QED BY <1>5, <2>2, <2>3 DEF SweepReads, tables
<1>6. CASE SweepRecords
  <2>1. sweep \in SweepState /\ sweep.pc = "recording" /\ sweep.row \in Rows /\ sweep.queued \in BOOLEAN
    BY <1>3, <1>6 DEF SweepRecords, SweepState
  <2>2. /\ sweep.queued => [sweep EXCEPT !.pc = "cancelling"] \in SweepState
        /\ ~sweep.queued => [sweep EXCEPT !.pc = "reading", !.row = None] \in SweepState
    BY <2>1 DEF SweepState
  <2> QED BY <1>1, <1>2, <1>6, <2>1, <2>2 DEF SweepRecords
<1>7. CASE SweepCancels
  <2>1. sweep \in SweepState /\ sweep.pc = "cancelling" /\ sweep.row \in Rows
    BY <1>3, <1>7 DEF SweepCancels, SweepState
  <2>2. [sweep EXCEPT !.pc = "reading", !.row = None, !.queued = FALSE] \in SweepState
    BY <2>1 DEF SweepState
  <2>3. sweep.row[1] \in Ids /\ sweep.row[2] \in Minutes
    BY <2>1 DEF Rows
  <2>4. PICK status \in QueueStatus :
          queueRow' = [queueRow EXCEPT ![sweep.row[1]][sweep.row[2]] = status]
    <3>1. queueRow[sweep.row[1]][sweep.row[2]] \in QueueStatus /\ "cancelled" \in QueueStatus
      BY <1>2, <2>3 DEF QueueStatus
    <3> QED BY <1>7, <3>1 DEF SweepCancels
  <2>5. queueRow' \in [Ids -> [Minutes -> QueueStatus]]
    BY <1>2, <2>3, <2>4
  <2> QED BY <1>1, <1>2, <1>7, <2>2, <2>5 DEF SweepCancels
<1>8. CASE SweepEnds \/ ResetStop
  BY <1>1, <1>2, <1>8 DEF SweepEnds, ResetStop, tables
<1> QED BY <1>1, <1>2, <1>4, <1>5, <1>6, <1>7, <1>8 DEF StopNext

LEMMA ElsewhereBase ==
  ASSUME Base, Elsewhere
  PROVE  /\ Base'
         /\ \/ runs' = runs /\ tick' = tick
            \/ Crash /\ runs' = [r \in Runs |-> IdleRun] /\ tick' = IdleRun
<1>1. CASE Crash
  <2>1. CampaignTypeOK'
    <3>1. /\ lock' \in [Ids -> Runs \cup {NoRun, Gone}]
          /\ runs' \in [Runs -> RunState \cup {IdleRun}] /\ tick' \in TickState \cup {IdleRun}
          /\ edits' \in [Ids -> CampaignData \cup {None}]
          /\ sweep' \in SweepState \cup {IdleRun}
      BY <1>1 DEF Crash
    <3>2. crashes' \in 0..MaxCrashes
      BY <1>1, CampaignAssumption DEF Crash, Base, CampaignTypeOK
    <3>3. orphans' \subseteq Rows
      BY <1>1 DEF Crash, Base, CampaignTypeOK
    <3>4. lapsed' \subseteq Ids /\ stopped' \in BOOLEAN
      BY <1>1 DEF Crash
    <3> QED BY <1>1, <3>1, <3>2, <3>3, <3>4 DEF Crash, Base, CampaignTypeOK
  <2>2. Awaited' /\ TickSound'
    BY <1>1 DEF Crash, Awaited, TickSound, Scheduled, IdleRun
  <2> QED BY <1>1, <2>1, <2>2 DEF Base, Crash
<1>2. CASE ~Crash
  <2>1. runs' = runs /\ tick' = tick
    <3>1. ASSUME NEW c \in Ids, NEW m \in Minutes, WorkerNext(c, m)
          PROVE  runs' = runs /\ tick' = tick
      BY <3>1, WorkerFrame DEF memory, Base
    <3>2. StopNext => runs' = runs /\ tick' = tick
      BY StopFrame DEF Base
    <3> QED BY <1>2, <3>1, <3>2 DEF Elsewhere, LeaseLapses, MinutePasses, memory
  <2>2. CampaignTypeOK'
    <3>1. ASSUME NEW c \in Ids, NEW m \in Minutes, WorkerNext(c, m)
          PROVE  CampaignTypeOK'
      <4>1. /\ UNCHANGED <<campaigns, runRow, lastRun, lock, lapsed, stored, usage, requested,
                           memory, minute, crashes, history>>
            /\ queueRow' \in [Ids -> [Minutes -> QueueStatus]]
        BY <3>1, WorkerFrame DEF Base
      <4> QED BY <4>1 DEF Base, CampaignTypeOK, memory, history
    <3>2. ASSUME NEW c \in Ids, LeaseLapses(c) PROVE CampaignTypeOK'
      BY <3>2 DEF LeaseLapses, Base, CampaignTypeOK, memory, history
    <3>3. CASE StopNext
      BY <3>3, StopFrame DEF Base, CampaignTypeOK, history
    <3>4. CASE MinutePasses
      BY <3>4, CampaignAssumption DEF MinutePasses, Minutes, Base, CampaignTypeOK, tables, memory, history
    <3> QED BY <1>2, <3>1, <3>2, <3>3, <3>4 DEF Elsewhere
  <2>3. Awaited' /\ TickSound'
    BY <2>1 DEF Base, Awaited, TickSound, Scheduled
  <2> QED BY <2>1, <2>2, <2>3 DEF Base
<1> QED BY <1>1, <1>2

LEMMA NextKinds ==
  CampaignNext => \/ \E r \in Runs : RunNext(r)
                  \/ \E c \in Ids : RouteNext(c)
                  \/ SchedulerNext
                  \/ Elsewhere
  BY DEF CampaignNext, Elsewhere

LEMMA StutterBase == Base /\ UNCHANGED campaignVars => Base'
  BY DEF Base, CampaignTypeOK, Awaited, TickSound, Scheduled, campaignVars, tables, memory, history

LEMMA BaseInit == CampaignInit => Base
<1>1. CampaignInit => Awaited /\ TickSound
  BY DEF CampaignInit, Awaited, TickSound, Scheduled, IdleRun
<1> QED BY <1>1, InitTypes DEF Base

\* Every variable has its type, a scheduled run is the one its tick waits for, and a tick
\* knows what it does, whatever is configured (scheduler.ts execute, service.ts runCampaign).
THEOREM CampaignBase == CampaignSpec => []Base
<1>1. Base /\ [CampaignNext]_campaignVars => Base'
  BY RunBase, RouteBase, SchedulerBase, ElsewhereBase, NextKinds, StutterBase
<1> QED BY BaseInit, <1>1, PTL DEF CampaignSpec

\* Every variable of the campaigns keeps its type for any number of them.
THEOREM CampaignTypeCorrect == CampaignSpec => []CampaignTypeOK
<1>1. Base => CampaignTypeOK
  BY DEF Base
<1> QED BY CampaignBase, <1>1, PTL

-----------------------------------------------------------------------------
(* One stretch at a time. *)

InStretch(r) == runs[r].pc \in {"loop", "reserve", "create"}
OneStretch ==
  /\ \A r, s \in Runs : InStretch(r) /\ InStretch(s) => r = s
  /\ sweep # IdleRun =>
       tick.pc \notin {"scanning", "claiming", "recording"} /\ \A r \in Runs : ~InStretch(r)

\* What any step of a run leaves alone.
TickGoesOn ==
  /\ tick.pc = "idle" => tick' = tick
  /\ tick.pc # "idle" => /\ tick'.pc # "idle" /\ tick'.seen = tick.seen
                         /\ tick'.left = tick.left /\ tick'.now = tick.now
                         /\ tick'.of = tick.of
RunOnly(r) ==
  /\ \A s \in Runs \ {r} : runs'[s] = runs[s]
  /\ UNCHANGED <<campaigns, peak, minute, lastRun, starts, runRow, orphans>>
  /\ TickGoesOn

LEMMA EndedTick ==
  ASSUME Base, NEW r \in Runs, runs[r] \in RunState, NEW outcome, RunEnded(r, outcome)
  PROVE  TickGoesOn
<1>1. CASE runs[r].slot = None
  BY <1>1 DEF RunEnded, TickGoesOn
<1>2. CASE runs[r].slot # None
  <2>1. tick.pc = "awaiting" /\ tick \in TickState
    BY <1>2, AtWork DEF Base, Awaited, Scheduled
  <2>2. tick' = [tick EXCEPT !.pc = "recording", !.outcome = outcome]
    BY <1>2 DEF RunEnded
  <2> QED BY <2>1, <2>2 DEF TickState, TickGoesOn
<1> QED BY <1>1, <1>2

LEMMA RunFrame ==
  ASSUME Base, NEW r \in Runs, RunNext(r)
  PROVE  RunOnly(r)
<1>1. CASE \E c \in Ids : RunFromApi(r, c)
  BY <1>1 DEF RunFromApi, BeginRun, Base, CampaignTypeOK, history, RunOnly, TickGoesOn
<1>2. CASE DiscoverFails(r)
  <2>1. runs[r] \in RunState /\ RunEnded(r, "failed")
    BY <1>2, AtWork DEF DiscoverFails, Base
  <2> QED BY <1>2, <2>1, EndedTick DEF DiscoverFails, Base, CampaignTypeOK, history, RunOnly
<1>3. CASE \E found \in SUBSET Postings : Discovered(r, found)
  BY <1>3 DEF Discovered, Base, CampaignTypeOK, tables, history, RunOnly, TickGoesOn
<1>4. CASE \E p \in Postings : ConsiderJob(r, p)
  <2>1. PICK p \in Postings : ConsiderJob(r, p)
    BY <1>4
  <2>2. GoesOn(r)
    BY <2>1, ConsiderGoesOn DEF Base
  <2> QED BY <2>1, <2>2 DEF ConsiderJob, GoesOn, history, RunOnly, TickGoesOn
<1>5. CASE Reserve(r)
  BY <1>5, ReserveGoesOn DEF Base, GoesOn, Reserve, history, RunOnly, TickGoesOn
<1>6. CASE CreateApplication(r)
  BY <1>6, CreateGoesOn DEF Base, GoesOn, CreateApplication, tables, RunOnly, TickGoesOn
<1>7. CASE FinishRun(r)
  <2>1. runs[r] \in RunState /\ RunEnded(r, "completed")
    BY <1>7, AtWork DEF FinishRun, Base
  <2> QED BY <1>7, <2>1, EndedTick DEF FinishRun, Base, CampaignTypeOK, history, RunOnly
<1>8. CASE ClaimAndRun(r)
  <2>1. tick \in TickState /\ tick' = [tick EXCEPT !.pc = "awaiting"]
    BY <1>8, AtWork DEF ClaimAndRun, Base
  <2>2. TickGoesOn
    BY <2>1 DEF TickState, TickGoesOn
  <2> QED BY <1>8, <2>2 DEF ClaimAndRun, BeginRun, Base, CampaignTypeOK, history, RunOnly
<1> QED BY <1>1, <1>2, <1>3, <1>4, <1>5, <1>6, <1>7, <1>8 DEF RunNext

\* A run enters a stretch only by Discovered, when nobody else is in one.
LEMMA EntersStretch ==
  ASSUME Base, NEW r \in Runs, RunNext(r), InStretch(r)'
  PROVE  InStretch(r) \/ ~Busy
<1>1. CASE \E c \in Ids : RunFromApi(r, c)
  BY <1>1 DEF RunFromApi
<1>2. CASE DiscoverFails(r) \/ FinishRun(r)
  BY <1>2 DEF DiscoverFails, FinishRun, Base, CampaignTypeOK, IdleRun, InStretch
<1>3. CASE \E found \in SUBSET Postings : Discovered(r, found)
  BY <1>3 DEF Discovered
<1>4. CASE (\E p \in Postings : ConsiderJob(r, p)) \/ Reserve(r) \/ CreateApplication(r)
  BY <1>4 DEF ConsiderJob, Reserve, CreateApplication, InStretch
<1>5. CASE ClaimAndRun(r)
  BY <1>5 DEF ClaimAndRun, BeginRun, Base, CampaignTypeOK, InStretch
<1> QED BY <1>1, <1>2, <1>3, <1>4, <1>5 DEF RunNext

\* While the emergency stop goes through the queue's rows no run, route or tick of the
\* daemon moves.
LEMMA SweepAlone ==
  ASSUME OneStretch, (\E r \in Runs : RunNext(r)) \/ (\E c \in Ids : RouteNext(c)) \/ SchedulerNext
  PROVE  sweep = IdleRun /\ sweep' = sweep
<1>1. ASSUME NEW r \in Runs, RunNext(r) PROVE sweep = IdleRun /\ sweep' = sweep
  <2>1. sweep' = sweep
    BY <1>1 DEF RunNext, RunFromApi, DiscoverFails, Discovered, ConsiderJob, Reserve,
       CreateApplication, FinishRun, ClaimAndRun
  <2>2. ~Busy \/ InStretch(r) \/ tick.pc = "claiming"
    BY <1>1 DEF RunNext, RunFromApi, DiscoverFails, Discovered, ConsiderJob, Reserve,
       CreateApplication, FinishRun, ClaimAndRun, InStretch
  <2> QED BY <2>1, <2>2 DEF OneStretch, Busy
<1>2. ASSUME NEW c \in Ids, RouteNext(c) PROVE sweep = IdleRun /\ sweep' = sweep
  <2>1. sweep' = sweep /\ ~Busy
    BY <1>2 DEF RouteNext, CreateFromDashboard, CreateFromTool, EditRead, EditSave, SetState,
       RefuseFromApi, memory
  <2> QED BY <2>1 DEF Busy
<1>3. CASE SchedulerNext
  <2>1. sweep' = sweep /\ (~Busy \/ tick.pc \in {"scanning", "claiming", "recording"})
    BY <1>3 DEF SchedulerNext, TickStarts, ClaimMissed, ClaimAndFail, RecordRun, TickEnds,
       TickPassesBy, TickQueues
  <2> QED BY <2>1 DEF OneStretch, Busy
<1> QED BY <1>1, <1>2, <1>3

LEMMA StretchStep ==
  ASSUME Base, OneStretch, [CampaignNext]_campaignVars
  PROVE  OneStretch'
<1>1. ASSUME NEW r \in Runs, RunNext(r) PROVE OneStretch'
  <2>1. sweep = IdleRun /\ sweep' = sweep
    BY <1>1, SweepAlone
  <2> QED BY <1>1, <2>1, RunFrame, EntersStretch DEF OneStretch, InStretch, RunOnly, Busy
<1>2. CASE (\E c \in Ids : RouteNext(c)) \/ SchedulerNext
  <2>1. sweep = IdleRun /\ sweep' = sweep
    BY <1>2, SweepAlone
  <2> QED BY <1>2, <2>1, RouteBase, SchedulerBase DEF OneStretch, InStretch
<1>3. CASE Elsewhere
  <2>1. CASE Crash
    BY <2>1 DEF Crash, OneStretch, InStretch, IdleRun
  <2>2. CASE ~Crash
    <3>1. runs' = runs /\ tick' = tick
      BY <1>3, <2>2, ElsewhereBase
    <3>2. sweep' = IdleRun \/ sweep # IdleRun \/ ~Busy
      <4>1. ASSUME NEW c \in Ids, NEW m \in Minutes, WorkerNext(c, m) PROVE sweep' = sweep
        BY <4>1, WorkerFrame DEF memory, Base
      <4>2. CASE StopNext
        BY <4>2 DEF StopNext, EngageStop, SweepReads, SweepRecords, SweepCancels, SweepEnds,
           ResetStop, IdleRun
      <4> QED BY <1>3, <2>2, <4>1, <4>2 DEF Elsewhere, LeaseLapses, MinutePasses, memory
    <3> QED BY <3>1, <3>2 DEF OneStretch, InStretch, Busy
  <2> QED BY <2>1, <2>2
<1>4. CASE UNCHANGED campaignVars
  BY <1>4 DEF campaignVars, memory, OneStretch, InStretch
<1> QED BY <1>1, <1>2, <1>3, <1>4, NextKinds

\* The daemon is one event loop: at most one run is between two awaits, and none is, nor the
\* scheduler, while the emergency stop goes through the queue's rows.
THEOREM OneRunAtATime == CampaignSpec => []OneStretch
<1>1. CampaignInit => OneStretch
  BY DEF CampaignInit, OneStretch, InStretch, IdleRun
<1> QED BY <1>1, StretchStep, CampaignBase, PTL DEF CampaignSpec

-----------------------------------------------------------------------------
(* The daily limit. *)

\* No copy of a campaign, however old, allows more than the largest limit ever saved, and
\* nobody has used more.
LimitInv ==
  /\ \A c \in Ids : campaigns[c] # None => campaigns[c].perDay <= peak[c]
  /\ \A r \in Runs : runs[r].pc # "idle" => runs[r].data.perDay <= peak[runs[r].of]
  /\ tick.pc # "idle" => \A c \in Ids : tick.seen[c] # None => tick.seen[c].perDay <= peak[c]
  /\ \A c \in Ids, d \in Days : usage[c][d] <= peak[c]

\* Every application that a run is about to create has been reserved.
MadeInv ==
  /\ \A c \in Ids, d \in Days : made[c][d] <= usage[c][d]
  /\ \A r \in Runs : runs[r].pc = "create" =>
       made[runs[r].of][runs[r].day] < usage[runs[r].of][runs[r].day]

\* A route saves nothing that is above the new peak, and peaks do not fall.
LEMMA RouteSaves ==
  ASSUME Base, NEW c \in Ids, RouteNext(c)
  PROVE  /\ UNCHANGED <<usage, made, applied, stored, minute, lastRun, starts, runRow, queueRow, orphans>>
         /\ \A d \in Ids : /\ peak'[d] \in Nat /\ peak[d] \in Nat /\ peak[d] <= peak'[d]
                           /\ campaigns'[d] # None =>
                                campaigns'[d] = campaigns[d] \/ campaigns'[d].perDay <= peak'[d]
<1> DEFINE Kept == UNCHANGED <<usage, made, applied, stored, minute, lastRun, starts, runRow, queueRow, orphans>>
<1>1. ASSUME NEW data, data.perDay \in Nat, SaveCampaign(c, data)
      PROVE  \A d \in Ids : /\ peak'[d] \in Nat /\ peak[d] \in Nat /\ peak[d] <= peak'[d]
                            /\ campaigns'[d] # None =>
                                 campaigns'[d] = campaigns[d] \/ campaigns'[d].perDay <= peak'[d]
  <2> SUFFICES ASSUME NEW d \in Ids
               PROVE  /\ peak'[d] \in Nat /\ peak[d] \in Nat /\ peak[d] <= peak'[d]
                      /\ campaigns'[d] # None =>
                           campaigns'[d] = campaigns[d] \/ campaigns'[d].perDay <= peak'[d]
    OBVIOUS
  <2>1. CASE d = c
    BY <1>1, <2>1 DEF SaveCampaign, Later, Base, CampaignTypeOK
  <2>2. CASE d # c
    BY <1>1, <2>2 DEF SaveCampaign, Base, CampaignTypeOK
  <2> QED BY <2>1, <2>2
<1>2. ASSUME NEW body \in Settings PROVE CampaignFrom(body) \in CampaignData
  BY FromType, CampaignAssumption
<1>3. \A data \in CampaignData : data.perDay \in Nat
  BY DEF CampaignData
<1>4. CASE \E body \in Settings : CreateFromDashboard(c, body)
  BY <1>1, <1>2, <1>3, <1>4 DEF CreateFromDashboard
<1>5. CASE \E body \in Settings : CreateFromTool(c, body)
  <2>1. PICK body \in Settings : CreateFromTool(c, body)
    BY <1>5
  <2>2. [body EXCEPT !.state = "enabled"] \in CampaignData
    BY FromType, CampaignAssumption DEF CampaignState
  <2> QED BY <1>1, <1>3, <2>1, <2>2 DEF CreateFromTool
<1>6. CASE \E body \in Settings : EditSave(c, body)
  <2>1. PICK body \in Settings : EditSave(c, body)
    BY <1>6
  <2>2. PICK state \in {edits[c].state, body.state} :
          SaveCampaign(c, CampaignFrom([body EXCEPT !.state = state]))
    BY <2>1 DEF EditSave
  <2>3. body \in CampaignData /\ edits[c] \in CampaignData
    BY <2>1, CampaignAssumption DEF EditSave, Base, CampaignTypeOK
  <2>4. state \in CampaignState
    BY <2>3 DEF CampaignData
  <2>5. CampaignFrom([body EXCEPT !.state = state]) \in CampaignData
    BY <2>3, <2>4, FromType
  <2> QED BY <1>1, <1>3, <2>1, <2>2, <2>5 DEF EditSave
<1>7. CASE EditRead(c) \/ RefuseFromApi(c)
  <2>1. Kept /\ UNCHANGED <<campaigns, peak>>
    BY <1>7 DEF EditRead, RefuseFromApi, tables, history
  <2> QED BY <2>1 DEF Base, CampaignTypeOK
<1>8. CASE \E state \in CampaignState : SetState(c, state)
  <2>1. PICK state \in CampaignState : SetState(c, state)
    BY <1>8
  <2>2. [campaigns[c] EXCEPT !.state = state] \in CampaignData
    BY <2>1, AtWork DEF SetState, Base, CampaignData
  <2> QED BY <1>1, <1>3, <2>1, <2>2 DEF SetState
<1> QED BY <1>4, <1>5, <1>6, <1>7, <1>8 DEF RouteNext


\* The steps of a run: it begins, goes on, reserves, creates or ends.
Quiet == UNCHANGED <<usage, made, applied>>
Begins(r) ==
  /\ runs'[r].pc = "discovering" /\ Quiet /\ UNCHANGED stored
  /\ \E c \in Ids : runs'[r].of = c /\
       \/ campaigns[c] # None /\ runs'[r].data = campaigns[c]
       \/ tick.pc # "idle" /\ tick.seen[c] # None /\ runs'[r].data = tick.seen[c]

LEMMA RunKinds ==
  ASSUME Base, NEW r \in Runs, RunNext(r)
  PROVE  \/ Begins(r)
         \/ runs'[r].pc = "idle" /\ Quiet /\ UNCHANGED stored
         \/ GoesOn(r) /\ runs'[r].pc = "loop" /\ Quiet /\ UNCHANGED stored
         \/ \E p \in Postings : ConsiderJob(r, p)
         \/ Reserve(r)
         \/ CreateApplication(r)
<1>1. CASE \E c \in Ids : RunFromApi(r, c)
  BY <1>1 DEF RunFromApi, BeginRun, Existing, Base, CampaignTypeOK, history, Begins, Quiet
<1>2. CASE DiscoverFails(r) \/ FinishRun(r)
  BY <1>2 DEF DiscoverFails, FinishRun, Base, CampaignTypeOK, IdleRun, history, Quiet
<1>3. CASE \E found \in SUBSET Postings : Discovered(r, found)
  BY <1>3, DiscoveredGoesOn DEF Discovered, Base, tables, history, Quiet
<1>4. CASE ClaimAndRun(r)
  <2>1. tick.of \in Ids /\ tick.seen[tick.of] # None /\ tick.pc = "claiming"
    BY <1>4 DEF ClaimAndRun, Base, TickSound
  <2>2. runs'[r].pc = "discovering" /\ runs'[r].of = tick.of /\ runs'[r].data = tick.seen[tick.of]
    BY <1>4 DEF ClaimAndRun, BeginRun, Base, CampaignTypeOK
  <2> QED BY <1>4, <2>1, <2>2 DEF ClaimAndRun, history, Begins, Quiet
<1> QED BY <1>1, <1>2, <1>3, <1>4 DEF RunNext

LEMMA LimitTypes ==
  ASSUME Base
  PROVE  /\ \A c \in Ids : peak[c] \in Nat /\ (campaigns[c] # None => campaigns[c].perDay \in Nat)
         /\ \A c \in Ids, d \in Days : usage[c][d] \in Nat /\ made[c][d] \in Nat
         /\ \A r \in Runs : runs[r].pc # "idle" =>
              /\ runs[r].of \in Ids /\ runs[r].day \in Days /\ runs[r].data.perDay \in Nat
              /\ runs[r].job \in Postings \cup {None}
         /\ tick.pc # "idle" => \A c \in Ids : tick.seen[c] # None => tick.seen[c].perDay \in Nat
<1>1. \A data \in CampaignData : data.perDay \in Nat
  BY DEF CampaignData
<1>2. \A r \in Runs : runs[r].pc # "idle" => runs[r] \in RunState
  BY AtWork DEF Base
<1>3. tick.pc # "idle" => tick.seen \in [Ids -> CampaignData \cup {None}]
  BY AtWork DEF Base, TickState
<1>4. \A r \in Runs : runs[r].pc # "idle" =>
        /\ runs[r].of \in Ids /\ runs[r].day \in Days /\ runs[r].data \in CampaignData
        /\ runs[r].job \in Postings \cup {None}
  BY <1>2 DEF RunState
<1> QED BY <1>1, <1>3, <1>4 DEF Base, CampaignTypeOK

LEMMA RunLimit ==
  ASSUME Base, LimitInv, NEW r \in Runs, RunNext(r)
  PROVE  LimitInv'
<1>1. RunOnly(r)
  BY RunFrame
<1>2. UNCHANGED <<campaigns, peak>> /\ TickGoesOn /\ \A s \in Runs \ {r} : runs'[s] = runs[s]
  BY <1>1 DEF RunOnly
<1>3. /\ \A c \in Ids : campaigns'[c] # None => campaigns'[c].perDay <= peak'[c]
      /\ tick'.pc # "idle" =>
           \A c \in Ids : tick'.seen[c] # None => tick'.seen[c].perDay <= peak'[c]
  BY <1>2 DEF LimitInv, TickGoesOn
<1>4. runs'[r].pc # "idle" => runs'[r].data.perDay <= peak[runs'[r].of]
  <2>1. CASE Begins(r)
    BY <2>1 DEF Begins, LimitInv
  <2>2. ASSUME GoesOn(r)
        PROVE  runs'[r].data.perDay <= peak[runs'[r].of]
    BY <2>2, AtWork DEF GoesOn, LimitInv, Base
  <2> QED BY <2>1, <2>2, RunKinds, ConsiderGoesOn, ReserveGoesOn, CreateGoesOn DEF Base
<1>5. \A c \in Ids, d \in Days : usage'[c][d] <= peak[c]
  <2>1. CASE usage' = usage
    BY <2>1 DEF LimitInv
  <2>2. CASE Reserve(r)
    <3> DEFINE c == runs[r].of  d == DayOf(minute)
    <3>1. c \in Ids /\ d \in Days /\ runs[r].data.perDay <= peak[c]
      BY <2>2, ReserveGoesOn, AtWork DEF Base, LimitInv, GoesOn
    <3>2. usage' = usage \/ (usage[c][d] < runs[r].data.perDay
                             /\ usage' = [usage EXCEPT ![c][d] = @ + 1])
      BY <2>2, ReserveGoesOn DEF Base
    <3>3. /\ usage[c][d] \in Nat /\ peak[c] \in Nat /\ runs[r].data.perDay \in Nat
          /\ usage \in [Ids -> [Days -> Nat]]
      BY <3>1, <2>2, LimitTypes DEF Reserve, Base, CampaignTypeOK
    <3> HIDE DEF c, d
    <3>4. CASE usage[c][d] < runs[r].data.perDay /\ usage' = [usage EXCEPT ![c][d] = @ + 1]
      <4>1. usage'[c][d] = usage[c][d] + 1
        BY <3>1, <3>3, <3>4
      <4>2. \A e \in Ids, f \in Days : usage'[e][f] = usage[e][f] \/ (e = c /\ f = d)
        BY <3>1, <3>3, <3>4
      <4>3. usage'[c][d] <= peak[c]
        BY <3>1, <3>3, <3>4, <4>1
      <4> QED BY <4>2, <4>3 DEF LimitInv
    <3> QED BY <2>1, <3>2, <3>4
  <2> QED BY <2>1, <2>2, RunKinds DEF Begins, Quiet, ConsiderJob, CreateApplication, tables
<1>6. \A s \in Runs : runs'[s].pc # "idle" => runs'[s].data.perDay <= peak[runs'[s].of]
  BY <1>2, <1>4 DEF LimitInv
<1> QED BY <1>2, <1>3, <1>5, <1>6 DEF LimitInv

\* What a step outside the runs does to the rows the limit is about.
LEMMA OutsideRuns ==
  ASSUME Base, SchedulerNext \/ Elsewhere
  PROVE  /\ UNCHANGED <<campaigns, usage, made, applied, stored, peak>>
         /\ tick'.pc # "idle" =>
              \/ tick'.seen = campaigns
              \/ tick.pc # "idle" /\ tick'.seen = tick.seen
         /\ \A r \in Runs : runs'[r] = runs[r] \/ runs'[r] = IdleRun
<1>1. CASE SchedulerNext
  <2>1. UNCHANGED <<campaigns, usage, made, applied, stored, peak>>
    BY <1>1 DEF SchedulerNext, TickStarts, ClaimMissed, ClaimAndFail, RecordRun, TickEnds,
       TickPassesBy, TickQueues, tables, history
  <2>2. runs' = runs
    BY <1>1, SchedulerBase
  <2>3. CASE TickStarts \/ TickEnds
    BY <2>1, <2>2, <2>3 DEF TickStarts, TickEnds, IdleRun
  <2>4. CASE ~(TickStarts \/ TickEnds)
    <3>1. tick.pc # "idle"
      BY <1>1, <2>4 DEF SchedulerNext, ClaimMissed, ClaimAndFail, RecordRun, TickPassesBy, TickQueues
    <3>2. tick \in TickState
      BY <3>1, AtWork DEF Base
    <3>3. tick'.seen = tick.seen
      BY <1>1, <2>4, <3>2 DEF SchedulerNext, ClaimMissed, ClaimAndFail, RecordRun, TickPassesBy,
         TickQueues, TickState
    <3> QED BY <2>1, <2>2, <3>1, <3>3
  <2> QED BY <2>3, <2>4
<1>2. CASE Elsewhere
  <2>1. UNCHANGED <<campaigns, usage, made, applied, stored, peak>>
    BY <1>2, WorkerFrame, StopFrame DEF Elsewhere, LeaseLapses, MinutePasses, Crash, tables,
       history, Base
  <2>2. \/ runs' = runs /\ tick' = tick
        \/ runs' = [r \in Runs |-> IdleRun] /\ tick' = IdleRun
    BY <1>2, ElsewhereBase
  <2> QED BY <2>1, <2>2 DEF IdleRun
<1> QED BY <1>1, <1>2

LEMMA LimitStep ==
  ASSUME Base, LimitInv, [CampaignNext]_campaignVars
  PROVE  LimitInv'
<1>1. ASSUME NEW r \in Runs, RunNext(r) PROVE LimitInv'
  BY <1>1, RunLimit
<1>2. ASSUME NEW c \in Ids, RouteNext(c) PROVE LimitInv'
  <2>1. /\ UNCHANGED <<usage, runs, tick>>
        /\ \A d \in Ids : /\ peak'[d] \in Nat /\ peak[d] \in Nat /\ peak[d] <= peak'[d]
                          /\ campaigns'[d] # None =>
                               campaigns'[d] = campaigns[d] \/ campaigns'[d].perDay <= peak'[d]
    BY <1>2, RouteSaves, RouteBase
  <2>2. \A d \in Ids, n \in Nat : n <= peak[d] => n <= peak'[d]
    BY <2>1
  <2> QED BY <2>1, <2>2, LimitTypes DEF LimitInv
<1>3. CASE SchedulerNext \/ Elsewhere
  BY <1>3, OutsideRuns DEF LimitInv, IdleRun
<1>4. CASE UNCHANGED campaignVars
  BY <1>4 DEF campaignVars, tables, memory, history, LimitInv
<1> QED BY <1>1, <1>2, <1>3, <1>4, NextKinds

LEMMA MadeStep ==
  ASSUME Base, OneStretch, MadeInv, [CampaignNext]_campaignVars
  PROVE  MadeInv'
<1>1. ASSUME NEW r \in Runs, RunNext(r) PROVE MadeInv'
  <2>1. \A s \in Runs \ {r} : runs'[s] = runs[s]
    BY <1>1, RunFrame DEF RunOnly
  <2>2. CASE UNCHANGED <<usage, made>> /\ runs'[r].pc # "create"
    BY <2>1, <2>2 DEF MadeInv
  <2>3. CASE Reserve(r)
    <3> DEFINE c == runs[r].of  d == DayOf(minute)
    <3>1. /\ c \in Ids /\ d \in Days /\ made' = made /\ runs'[r].of = c
          /\ \/ runs'[r].pc = "loop" /\ usage' = usage
             \/ /\ runs'[r].pc = "create" /\ runs'[r].day = d
                /\ usage' = [usage EXCEPT ![c][d] = @ + 1]
      BY <2>3, ReserveGoesOn DEF Base, GoesOn, Reserve, history
    <3>2. usage \in [Ids -> [Days -> Nat]]
      BY DEF Base, CampaignTypeOK
    <3> HIDE DEF c, d
    <3>3. CASE runs'[r].pc = "create" /\ runs'[r].day = d /\ usage' = [usage EXCEPT ![c][d] = @ + 1]
      <4>1. usage'[c][d] = usage[c][d] + 1
        BY <3>1, <3>2, <3>3
      <4>2. \A e \in Ids, f \in Days : usage'[e][f] = usage[e][f] \/ (e = c /\ f = d)
        BY <3>1, <3>2, <3>3
      <4>3. \A e \in Ids, f \in Days : usage[e][f] \in Nat /\ made[e][f] \in Nat
        BY LimitTypes
      <4>4. \A e \in Ids, f \in Days : usage[e][f] <= usage'[e][f] /\ usage'[e][f] \in Nat
        BY <4>1, <4>2, <4>3
      <4>5. made[c][d] < usage'[c][d]
        BY <3>1, <4>1, <4>3 DEF MadeInv
      <4>6. \A e \in Ids, f \in Days : made[e][f] <= usage'[e][f]
        BY <4>3, <4>4 DEF MadeInv
      <4>7. \A s \in Runs \ {r} : runs[s].pc = "create" =>
              made[runs[s].of][runs[s].day] < usage'[runs[s].of][runs[s].day]
        BY <4>3, <4>4, LimitTypes DEF MadeInv
      <4> QED BY <2>1, <3>1, <3>3, <4>5, <4>6, <4>7 DEF MadeInv
    <3> QED BY <2>2, <3>1, <3>3
  <2>4. CASE CreateApplication(r)
    <3> DEFINE c == runs[r].of  d == runs[r].day
    <3>1. /\ c \in Ids /\ d \in Days /\ usage' = usage /\ runs'[r].pc = "loop"
          /\ made' = [made EXCEPT ![c][d] = @ + 1]
      BY <2>4, LimitTypes, CreateGoesOn DEF Base, CreateApplication, tables
    <3>2. made \in [Ids -> [Days -> Nat]]
      BY DEF Base, CampaignTypeOK
    <3>3. made[c][d] < usage[c][d] /\ made[c][d] \in Nat /\ usage[c][d] \in Nat
      BY <2>4, <3>1, LimitTypes DEF MadeInv, CreateApplication
    <3> HIDE DEF c, d
    <3>4. made'[c][d] <= usage[c][d]
      BY <3>1, <3>2, <3>3
    <3>5. \A e \in Ids, f \in Days : made'[e][f] = made[e][f] \/ (e = c /\ f = d)
      BY <3>1, <3>2
    <3>6. \A s \in Runs : runs'[s].pc # "create"
      <4>1. runs[r].pc = "create"
        BY <2>4 DEF CreateApplication
      <4>2. ASSUME NEW s \in Runs, s # r PROVE runs[s].pc # "create" /\ runs'[s] = runs[s]
        BY <2>1, <4>1, <4>2 DEF OneStretch, InStretch
      <4> QED BY <3>1, <4>2
    <3>7. \A e \in Ids, f \in Days : made'[e][f] <= usage'[e][f]
      BY <3>1, <3>4, <3>5 DEF MadeInv
    <3> QED BY <3>6, <3>7 DEF MadeInv
  <2> QED BY <1>1, <2>2, <2>3, <2>4, RunKinds, ConsiderGoesOn
       DEF Begins, Quiet, Base, ConsiderJob, history
<1>2. ASSUME NEW c \in Ids, RouteNext(c) PROVE MadeInv'
  BY <1>2, RouteSaves, RouteBase DEF MadeInv
<1>3. CASE SchedulerNext \/ Elsewhere
  BY <1>3, OutsideRuns DEF MadeInv, IdleRun
<1>4. CASE UNCHANGED campaignVars
  BY <1>4 DEF campaignVars, tables, memory, history, MadeInv
<1> QED BY <1>1, <1>2, <1>3, <1>4, NextKinds

\* The daily limit, for any number of overlapping runs with any copies of the campaign: what
\* reserveCampaignApplication's conditional UPDATE (store.ts) is there for.
THEOREM DailyLimitHolds == CampaignSpec => []DailyLimit
<1>1. CampaignInit => LimitInv /\ MadeInv
  BY DEF CampaignInit, LimitInv, MadeInv, IdleRun
<1>2. LimitInv /\ MadeInv => DailyLimit
  BY DEF LimitInv, MadeInv, DailyLimit
<1> QED BY <1>1, <1>2, LimitStep, MadeStep, CampaignBase, OneRunAtATime, PTL DEF CampaignSpec

-----------------------------------------------------------------------------
(* One application per posting. *)

\* What is not stored was never applied to, and a posting that a run has just stored was not
\* applied to yet: the insertion under the UNIQUE fingerprint decides who goes on with it.
AppliedInv ==
  /\ \A p \in Postings : p \notin stored => applied[p] = 0
  /\ \A r \in Runs : runs[r].pc \in {"reserve", "create"} =>
       runs[r].job \in stored /\ applied[runs[r].job] = 0
  /\ \A p \in Postings : applied[p] <= 1

LEMMA AppliedStep ==
  ASSUME Base, OneStretch, AppliedInv, [CampaignNext]_campaignVars
  PROVE  AppliedInv'
<1>1. ASSUME NEW r \in Runs, RunNext(r) PROVE AppliedInv'
  <2>1. \A s \in Runs \ {r} : runs'[s] = runs[s]
    BY <1>1, RunFrame DEF RunOnly
  <2>2. CASE UNCHANGED <<applied, stored>> /\ runs'[r].pc \notin {"reserve", "create"}
    BY <2>1, <2>2 DEF AppliedInv
  <2>3. ASSUME NEW p \in Postings, ConsiderJob(r, p) PROVE AppliedInv'
    <3>1. applied' = applied /\ stored' = stored \cup {p}
      BY <2>3 DEF ConsiderJob, history
    <3>2. runs'[r].pc = "loop" \/ (runs'[r].pc = "reserve" /\ runs'[r].job = p /\ p \notin stored)
      BY <2>3, ConsiderGoesOn DEF Base
    <3> QED BY <2>1, <3>1, <3>2 DEF AppliedInv
  <2>4. CASE Reserve(r)
    <3>1. UNCHANGED <<applied, stored>> /\ runs[r].pc = "reserve"
      BY <2>4 DEF Reserve, history
    <3>2. runs'[r].pc = "loop" \/ (runs'[r].pc = "create" /\ runs'[r].job = runs[r].job)
      BY <2>4, ReserveGoesOn DEF Base
    <3> QED BY <2>1, <3>1, <3>2 DEF AppliedInv
  <2>5. CASE CreateApplication(r)
    <3>1. /\ stored' = stored /\ runs[r].pc = "create" /\ runs'[r].pc = "loop"
          /\ applied' = [applied EXCEPT ![runs[r].job] = @ + 1]
      BY <2>5, CreateGoesOn DEF Base, CreateApplication, tables
    <3>2. runs[r].job \in stored /\ applied[runs[r].job] = 0 /\ stored \subseteq Postings
          /\ applied \in [Postings -> Nat]
      BY <3>1 DEF AppliedInv, Base, CampaignTypeOK
    <3>3. \A p \in Postings : applied'[p] = IF p = runs[r].job THEN 1 ELSE applied[p]
      BY <3>1, <3>2
    <3>4. \A s \in Runs : runs'[s].pc \notin {"reserve", "create"}
      BY <2>1, <3>1 DEF OneStretch, InStretch
    <3> QED BY <3>1, <3>2, <3>3, <3>4 DEF AppliedInv
  <2> QED BY <1>1, <2>2, <2>3, <2>4, <2>5, RunKinds DEF Begins, Quiet
<1>2. ASSUME NEW c \in Ids, RouteNext(c) PROVE AppliedInv'
  BY <1>2, RouteSaves, RouteBase DEF AppliedInv
<1>3. CASE SchedulerNext \/ Elsewhere
  BY <1>3, OutsideRuns DEF AppliedInv, IdleRun
<1>4. CASE UNCHANGED campaignVars
  BY <1>4 DEF campaignVars, tables, memory, history, AppliedInv
<1> QED BY <1>1, <1>2, <1>3, <1>4, NextKinds

\* No posting is applied to twice, for any number of campaigns, runs, crashes and lapsed locks:
\* neither the lock nor the lease is needed for it, only the insertion in saveJob (store.ts).
THEOREM NoPostingTwice == CampaignSpec => []OneApplicationPerPosting
<1>1. CampaignInit => AppliedInv
  BY DEF CampaignInit, AppliedInv, IdleRun
<1>2. AppliedInv => OneApplicationPerPosting
  BY DEF AppliedInv, OneApplicationPerPosting
<1> QED BY <1>1, <1>2, AppliedStep, CampaignBase, OneRunAtATime, PTL DEF CampaignSpec

-----------------------------------------------------------------------------
(* One run per slot. *)

\* Time does not run backwards: a campaign's latest run row was created no earlier than any
\* slot it was started for, and no later than the time of a tick that still has to look at it.
SlotInv ==
  /\ \A c \in Ids : lastRun[c] # None => lastRun[c] <= minute
  /\ tick.pc # "idle" =>
       /\ tick.now <= minute
       /\ \A c \in tick.left : lastRun[c] = None \/ lastRun[c] <= tick.now
  /\ \A c \in Ids, m \in Minutes : starts[c][m] # 0 => lastRun[c] # None /\ m <= lastRun[c]
  /\ \A c \in Ids, m \in Minutes : starts[c][m] <= 1

LEMMA SlotTypes ==
  ASSUME Base
  PROVE  /\ minute \in Nat /\ None \notin Nat
         /\ \A c \in Ids : lastRun[c] \in Nat \cup {None}
         /\ tick.pc # "idle" => tick.now \in Minutes /\ tick.now \in Nat /\ tick.left \subseteq Ids
         /\ starts \in [Ids -> [Minutes -> Nat]] /\ lastRun \in [Ids -> Minutes \cup {None}]
         /\ minute \in Minutes /\ Minutes \subseteq Nat
<1>1. Minutes \subseteq Nat /\ None \notin Nat
  BY CampaignAssumption DEF Minutes
<1>2. tick.pc # "idle" => tick \in TickState
  BY AtWork DEF Base
<1> QED BY <1>1, <1>2 DEF Base, CampaignTypeOK, TickState

LEMMA SlotScheduler ==
  ASSUME Base, SlotInv, SchedulerNext
  PROVE  SlotInv'
<1>1. CASE TickStarts
  <2>1. /\ UNCHANGED <<lastRun, minute, starts>>
        /\ tick'.now = minute /\ tick'.left \subseteq Ids
    BY <1>1 DEF TickStarts, tables, history, Existing
  <2> QED BY <2>1, SlotTypes DEF SlotInv
<1>2. CASE ClaimMissed \/ ClaimAndFail \/ RecordRun
  <2>1. UNCHANGED <<lastRun, minute, starts>> /\ tick.pc # "idle"
    BY <1>2 DEF ClaimMissed, ClaimAndFail, RecordRun, tables, history
  <2>2. tick'.now = tick.now /\ tick'.left = tick.left
    BY <1>2, <2>1, AtWork DEF ClaimMissed, ClaimAndFail, RecordRun, Base, TickState
  <2> QED BY <2>1, <2>2 DEF SlotInv
<1>3. CASE TickEnds
  BY <1>3 DEF TickEnds, tables, history, IdleRun, SlotInv
<1>4. ASSUME NEW c \in Ids, TickPassesBy(c) PROVE SlotInv'
  <2>1. UNCHANGED <<lastRun, minute, starts>> /\ tick.pc # "idle"
    BY <1>4 DEF TickPassesBy, tables, history
  <2>2. tick'.now = tick.now /\ tick'.left = tick.left \ {c}
    BY <1>4, <2>1, AtWork DEF TickPassesBy, Base, TickState
  <2> QED BY <2>1, <2>2 DEF SlotInv
<1>5. ASSUME NEW c \in Ids, TickQueues(c) PROVE SlotInv'
  <2> DEFINE now == tick.now
  <2>1. /\ tick.pc # "idle" /\ c \in tick.left /\ minute' = minute
        /\ lastRun[c] # now
        /\ lastRun' = [lastRun EXCEPT ![c] = minute]
        /\ starts' = [starts EXCEPT ![c][now] = @ + 1]
    BY <1>5 DEF TickQueues, Wanted, IsScheduleDue
  <2>2. tick'.now = now /\ tick'.left = tick.left \ {c}
    BY <1>5, <2>1, AtWork DEF TickQueues, Base, TickState
  <2>3. /\ minute \in Nat /\ minute \in Minutes /\ now \in Minutes /\ now \in Nat /\ now <= minute
        /\ lastRun \in [Ids -> Minutes \cup {None}] /\ starts \in [Ids -> [Minutes -> Nat]]
        /\ tick.left \subseteq Ids /\ Minutes \subseteq Nat /\ None \notin Nat
    BY <2>1, SlotTypes DEF SlotInv
  <2> HIDE DEF now
  <2>4. starts[c][now] = 0
    <3>1. lastRun[c] = None \/ lastRun[c] <= now
      BY <2>1 DEF SlotInv, now
    <3>2. starts[c][now] # 0 => lastRun[c] # None /\ now <= lastRun[c]
      BY <2>3 DEF SlotInv
    <3>3. lastRun[c] = None \/ lastRun[c] \in Nat
      BY <2>3
    <3> QED BY <2>1, <2>3, <3>1, <3>2, <3>3
  <2>5. /\ lastRun'[c] = minute /\ \A d \in Ids \ {c} : lastRun'[d] = lastRun[d]
        /\ starts'[c][now] = 1
        /\ \A d \in Ids, m \in Minutes : starts'[d][m] = starts[d][m] \/ (d = c /\ m = now)
    BY <2>1, <2>3, <2>4
  <2>6. \A d \in Ids : lastRun'[d] # None => lastRun'[d] <= minute
    BY <2>3, <2>5 DEF SlotInv
  <2>7. \A d \in tick.left \ {c} : lastRun'[d] = None \/ lastRun'[d] <= now
    BY <2>1, <2>3, <2>5 DEF SlotInv, now
  <2>8. \A d \in Ids, m \in Minutes :
          starts'[d][m] # 0 => lastRun'[d] # None /\ m <= lastRun'[d]
    <3> SUFFICES ASSUME NEW d \in Ids, NEW m \in Minutes, starts'[d][m] # 0
                 PROVE  lastRun'[d] # None /\ m <= lastRun'[d]
      OBVIOUS
    <3>1. CASE d # c
      BY <2>5, <3>1 DEF SlotInv
    <3>2. CASE d = c /\ m = now
      BY <2>3, <2>5, <3>2
    <3>3. CASE d = c /\ m # now
      <4>1. lastRun[c] # None /\ m <= lastRun[c] /\ lastRun[c] <= minute
        BY <2>5, <3>3 DEF SlotInv
      <4>2. lastRun[c] \in Nat /\ m \in Nat
        BY <2>3, <4>1
      <4> QED BY <2>3, <2>5, <3>3, <4>1, <4>2
    <3> QED BY <3>1, <3>2, <3>3
  <2>9. \A d \in Ids, m \in Minutes : starts'[d][m] <= 1
    BY <2>5 DEF SlotInv
  <2> QED BY <2>1, <2>2, <2>3, <2>6, <2>7, <2>8, <2>9 DEF SlotInv
<1> QED BY <1>1, <1>2, <1>3, <1>4, <1>5 DEF SchedulerNext

LEMMA SlotStep ==
  ASSUME Base, SlotInv, [CampaignNext]_campaignVars
  PROVE  SlotInv'
<1>1. ASSUME NEW r \in Runs, RunNext(r) PROVE SlotInv'
  <2>1. UNCHANGED <<minute, lastRun, starts>> /\ TickGoesOn
    BY <1>1, RunFrame DEF RunOnly
  <2> QED BY <2>1 DEF SlotInv, TickGoesOn
<1>2. ASSUME NEW c \in Ids, RouteNext(c) PROVE SlotInv'
  BY <1>2, RouteSaves, RouteBase DEF SlotInv
<1>3. CASE SchedulerNext
  BY <1>3, SlotScheduler
<1>4. CASE Elsewhere
  <2>1. UNCHANGED <<lastRun, starts>> /\ (minute' = minute \/ minute' = minute + 1)
    BY <1>4, WorkerFrame, StopFrame DEF Elsewhere, LeaseLapses, MinutePasses, Crash, tables,
       history, Base
  <2>2. tick' = tick \/ tick' = IdleRun
    BY <1>4, ElsewhereBase
  <2>3. \A n \in Nat : n <= minute => n <= minute'
    BY <2>1, SlotTypes
  <2>4. \A c \in Ids : lastRun'[c] # None => lastRun'[c] <= minute'
    BY <2>1, <2>3, SlotTypes DEF SlotInv
  <2>5. tick'.pc # "idle" => tick'.now <= minute'
    BY <2>2, <2>3, SlotTypes DEF SlotInv, IdleRun
  <2> QED BY <2>1, <2>2, <2>4, <2>5 DEF SlotInv, IdleRun
<1>5. CASE UNCHANGED campaignVars
  BY <1>5 DEF campaignVars, tables, memory, history, SlotInv
<1> QED BY <1>1, <1>2, <1>3, <1>4, <1>5, NextKinds

\* At most one scheduled run per campaign and slot, over restarts and although a tick works
\* from the time and the list it read at its start (tests/scheduler.test.ts:7).
THEOREM OneRunPerSlot == CampaignSpec => []OncePerSlot
<1>1. CampaignInit => SlotInv
  BY DEF CampaignInit, SlotInv, IdleRun
<1>2. SlotInv => OncePerSlot
  BY DEF SlotInv, OncePerSlot
<1> QED BY <1>1, <1>2, SlotStep, CampaignBase, PTL DEF CampaignSpec

-----------------------------------------------------------------------------
(* The two rows of a scheduled run. *)

\* Between execute()'s first write and its last the run row is the tick's; what the tick is
\* about to record is what became of the queue's row, which only a worker may take meanwhile.
\* A row that the emergency stop read as queued is never the scheduler's when it is cancelled.
RowInv ==
  /\ tick.pc \in {"claiming", "awaiting", "recording"} => runRow[tick.of][tick.now] = "running"
  /\ tick.pc = "claiming" =>
       queueRow[tick.of][tick.now] \in {"queued", "failed", "cancelled"} \cup WithWorker
  /\ tick.pc = "awaiting" => queueRow[tick.of][tick.now] = "running"
  /\ tick.pc = "recording" =>
       \/ tick.outcome = "completed" /\ queueRow[tick.of][tick.now] = "completed"
       \/ /\ tick.outcome = "failed"
          /\ queueRow[tick.of][tick.now] \in {"failed", "cancelled"} \cup WithWorker
  /\ sweep.pc \in {"recording", "cancelling"} /\ sweep.queued =>
       queueRow[sweep.row[1]][sweep.row[2]] # "running"
  /\ sweep.pc = "cancelling" => sweep.queued /\ sweep.row \in requested
  /\ RunAgreesWithQueue
  /\ RunningRowsAreOwned

LEMMA RunRows ==
  ASSUME Base, NEW r \in Runs, RunNext(r),
         tick.pc = "awaiting" => queueRow[tick.of][tick.now] = "running"
  PROVE  \/ queueRow' = queueRow /\ tick' = tick
         \/ /\ tick.pc \in {"claiming", "awaiting"} /\ tick \in TickState /\ tick.of \in Ids
            /\ \E status \in {"running", "completed", "failed"} :
                 /\ queueRow' = [queueRow EXCEPT ![tick.of][tick.now] = status]
                 /\ \/ status = "running" /\ tick'.pc = "awaiting"
                    \/ status # "running" /\ tick'.pc = "recording" /\ tick'.outcome = status
<1>1. CASE \E c \in Ids : RunFromApi(r, c)
  BY <1>1 DEF RunFromApi
<1>2. ASSUME NEW outcome \in {"completed", "failed"}, RunEnded(r, outcome), runs[r].pc # "idle",
             runs[r].slot # None
      PROVE  /\ tick.pc = "awaiting" /\ tick \in TickState /\ tick.of \in Ids
             /\ queueRow' = [queueRow EXCEPT ![tick.of][tick.now] = outcome]
             /\ tick'.pc = "recording" /\ tick'.outcome = outcome
  <2>1. tick.pc = "awaiting" /\ tick.of = runs[r].of /\ tick.now = runs[r].slot
    BY <1>2 DEF Base, Awaited, Scheduled
  <2>2. tick \in TickState /\ tick.of \in Ids
    BY <2>1, AtWork DEF Base, TickSound
  <2>3. tick' = [tick EXCEPT !.pc = "recording", !.outcome = outcome]
    BY <1>2 DEF RunEnded
  <2>4. /\ tick.now \in Minutes
        /\ queueRow' = [queueRow EXCEPT ![tick.of][tick.now] = IF @ = "running" THEN outcome ELSE @]
    BY <1>2, <2>1, <2>2 DEF RunEnded, TickState
  <2>5. queueRow' = [queueRow EXCEPT ![tick.of][tick.now] = outcome]
    BY <2>1, <2>2, <2>4 DEF Base, CampaignTypeOK
  <2> QED BY <2>1, <2>2, <2>3, <2>5 DEF TickState
<1>3. CASE DiscoverFails(r)
  BY <1>2, <1>3 DEF DiscoverFails, RunEnded
<1>4. CASE FinishRun(r)
  BY <1>2, <1>4 DEF FinishRun, RunEnded
<1>5. CASE ClaimAndRun(r)
  <2>1. tick.pc = "claiming" /\ tick \in TickState /\ tick.of \in Ids
    BY <1>5, AtWork DEF ClaimAndRun, Base, TickSound
  <2> QED BY <1>5, <2>1 DEF ClaimAndRun, TickState
<1>6. CASE \/ \E found \in SUBSET Postings : Discovered(r, found)
           \/ \E p \in Postings : ConsiderJob(r, p)
           \/ Reserve(r) \/ CreateApplication(r)
  BY <1>6 DEF Discovered, ConsiderJob, Reserve, CreateApplication, tables
<1> QED BY <1>1, <1>3, <1>4, <1>5, <1>6 DEF RunNext

LEMMA RowTypes ==
  ASSUME Base
  PROVE  /\ runRow \in [Ids -> [Minutes -> {"none", "running", "completed", "failed"}]]
         /\ queueRow \in [Ids -> [Minutes -> QueueStatus]]
         /\ tick.pc # "idle" => tick \in TickState /\ tick.now \in Minutes /\ tick # IdleRun
         /\ tick.pc \in {"claiming", "awaiting", "recording"} => tick.of \in Ids
         /\ tick.pc = "scanning" => tick.of = None
         /\ None \notin Ids /\ orphans \subseteq Rows
         /\ tick.pc = "idle" => tick = IdleRun
<1>1. tick.pc # "idle" => tick \in TickState
  BY AtWork DEF Base
<1> QED BY <1>1, CampaignAssumption DEF Base, TickSound, CampaignTypeOK, TickState, IdleRun

\* A step that touches the rows of one slot is right when these two agree.
Agree(c, m) ==
  /\ runRow[c][m] = "completed" => queueRow[c][m] = "completed"
  /\ runRow[c][m] = "failed" =>
       queueRow[c][m] \in {"failed", "cancelled", "taken", "refused"}
  /\ queueRow[c][m] = "cancelled" => <<c, m>> \in requested
  /\ queueRow[c][m] = "completed" => runRow[c][m] \in {"running", "completed"}

LEMMA AgreeAll == RunAgreesWithQueue <=> \A c \in Ids, m \in Minutes : Agree(c, m)
<1>1. {"failed", "cancelled"} \cup WithWorker = {"failed", "cancelled", "taken", "refused"}
  BY DEF WithWorker
<1> QED BY <1>1 DEF RunAgreesWithQueue, Agree

LEMMA AgreeOne ==
  ASSUME RunAgreesWithQueue, requested \subseteq requested', NEW c \in Ids, NEW m \in Minutes,
         \A d \in Ids, n \in Minutes :
           \/ d = c /\ n = m
           \/ runRow'[d][n] = runRow[d][n] /\ queueRow'[d][n] = queueRow[d][n],
         Agree(c, m)'
  PROVE  RunAgreesWithQueue'
<1>1. ASSUME NEW d \in Ids, NEW n \in Minutes PROVE Agree(d, n)'
  <2>1. CASE d = c /\ n = m
    BY <2>1
  <2>2. CASE ~(d = c /\ n = m)
    <3>1. Agree(d, n) /\ runRow'[d][n] = runRow[d][n] /\ queueRow'[d][n] = queueRow[d][n]
      BY <2>2, AgreeAll
    <3> QED BY <3>1 DEF Agree
  <2> QED BY <2>1, <2>2
<1> QED BY <1>1 DEF RunAgreesWithQueue, Agree, WithWorker

LEMMA RowRun ==
  ASSUME Base, OneStretch, RowInv, NEW r \in Runs, RunNext(r)
  PROVE  RowInv'
<1>1. UNCHANGED <<runRow, orphans>> /\ TickGoesOn /\ sweep' = IdleRun /\ UNCHANGED requested
  <2>1. requested' = requested
    BY DEF RunNext, RunFromApi, DiscoverFails, Discovered, ConsiderJob, Reserve, CreateApplication,
       FinishRun, ClaimAndRun, tables
  <2> QED BY <2>1, RunFrame, SweepAlone DEF RunOnly
<1> USE DEF IdleRun
<1>2. CASE queueRow' = queueRow /\ tick' = tick
  BY <1>1, <1>2 DEF RowInv, RunAgreesWithQueue, RunningRowsAreOwned
<1>3. ASSUME tick.pc \in {"claiming", "awaiting"}, tick \in TickState, tick.of \in Ids,
             NEW status \in {"running", "completed", "failed"},
             queueRow' = [queueRow EXCEPT ![tick.of][tick.now] = status],
             \/ status = "running" /\ tick'.pc = "awaiting"
             \/ status # "running" /\ tick'.pc = "recording" /\ tick'.outcome = status
      PROVE  RowInv'
  <2>1. tick'.of = tick.of /\ tick'.now = tick.now /\ tick'.pc # "idle"
    BY <1>1, <1>3 DEF TickGoesOn
  <2>2. tick.now \in Minutes /\ runRow[tick.of][tick.now] = "running"
    BY <1>3, RowTypes DEF RowInv
  <2>3. /\ queueRow'[tick.of][tick.now] = status
        /\ \A c \in Ids, m \in Minutes :
             queueRow'[c][m] = queueRow[c][m] \/ (c = tick.of /\ m = tick.now)
    BY <1>3, <2>2, RowTypes
  <2>4. RunAgreesWithQueue'
    <3>1. PICK c \in Ids, m \in Minutes : c = tick.of /\ m = tick.now
      BY <1>3, <2>2
    <3>2. Agree(c, m)'
      BY <1>1, <1>3, <2>2, <2>3, <3>1 DEF Agree
    <3>3. \A d \in Ids, n \in Minutes :
            \/ d = c /\ n = m
            \/ runRow'[d][n] = runRow[d][n] /\ queueRow'[d][n] = queueRow[d][n]
      BY <1>1, <2>3, <3>1
    <3> QED BY <1>1, <3>2, <3>3, AgreeOne DEF RowInv
  <2>5. RunningRowsAreOwned'
    <3>1. tick' # IdleRun
      BY <2>1
    <3> QED BY <1>1, <2>1, <3>1 DEF RowInv, RunningRowsAreOwned
  <2> QED BY <1>1, <1>3, <2>1, <2>2, <2>3, <2>4, <2>5 DEF RowInv
<1> QED BY <1>2, <1>3, RunRows DEF RowInv

LEMMA RowScheduler ==
  ASSUME Base, OneStretch, RowInv, SchedulerNext
  PROVE  RowInv'
<1>1. orphans' = orphans /\ requested' = requested /\ sweep' = IdleRun /\ sweep'.pc = "idle"
  <2>1. orphans' = orphans /\ requested' = requested
    BY DEF SchedulerNext, TickStarts, ClaimMissed, ClaimAndFail, RecordRun, TickEnds, TickPassesBy,
       TickQueues, history, tables
  <2> QED BY <2>1, SweepAlone DEF IdleRun
<1>2. CASE TickStarts \/ TickEnds
  <2>1. UNCHANGED <<runRow, queueRow>> /\ tick'.pc \in {"idle", "scanning"}
    BY <1>2 DEF TickStarts, TickEnds, tables, IdleRun
  <2>2. \A c \in Ids, m \in Minutes : runRow[c][m] = "running" => <<c, m>> \in orphans
    BY <1>2, RowTypes DEF TickStarts, TickEnds, RowInv, RunningRowsAreOwned
  <2> QED BY <1>1, <2>1, <2>2 DEF RowInv, RunAgreesWithQueue, RunningRowsAreOwned
<1>3. ASSUME NEW c \in Ids, TickPassesBy(c) PROVE RowInv'
  <2>1. UNCHANGED <<runRow, queueRow>> /\ tick.pc = "scanning"
    BY <1>3 DEF TickPassesBy, tables
  <2>2. tick'.pc = "scanning"
    BY <1>3, <2>1, RowTypes DEF TickPassesBy, TickState
  <2>3. \A d \in Ids, m \in Minutes : runRow[d][m] = "running" => <<d, m>> \in orphans
    BY <2>1, RowTypes DEF RowInv, RunningRowsAreOwned
  <2> QED BY <1>1, <2>1, <2>2, <2>3 DEF RowInv, RunAgreesWithQueue, RunningRowsAreOwned
<1>4. ASSUME NEW c \in Ids, TickQueues(c) PROVE RowInv'
  <2>1. /\ tick.pc = "scanning" /\ tick \in TickState /\ tick.now \in Minutes
        /\ runRow' = [runRow EXCEPT ![c][tick.now] = "running"]
        /\ queueRow' = [queueRow EXCEPT ![c][tick.now] = "queued"]
    BY <1>4, RowTypes DEF TickQueues
  <2>2. tick'.pc = "claiming" /\ tick'.of = c /\ tick'.now = tick.now /\ tick' # IdleRun
    BY <1>4, <2>1 DEF TickQueues, TickState, IdleRun
  <2>3. /\ runRow'[c][tick.now] = "running" /\ queueRow'[c][tick.now] = "queued"
        /\ \A d \in Ids, m \in Minutes :
             \/ d = c /\ m = tick.now
             \/ runRow'[d][m] = runRow[d][m] /\ queueRow'[d][m] = queueRow[d][m]
    BY <2>1, RowTypes
  <2>4. \A d \in Ids, m \in Minutes : runRow[d][m] = "running" => <<d, m>> \in orphans
    BY <2>1, RowTypes DEF RowInv, RunningRowsAreOwned
  <2>5. RunAgreesWithQueue'
    BY <1>1, <2>1, <2>3, AgreeOne DEF RowInv, Agree
  <2>6. RunningRowsAreOwned'
    BY <1>1, <2>2, <2>3, <2>4 DEF RunningRowsAreOwned
  <2> QED BY <1>1, <2>2, <2>3, <2>5, <2>6 DEF RowInv
<1>5. CASE ClaimMissed \/ ClaimAndFail
  <2>1. /\ tick.pc = "claiming" /\ tick \in TickState /\ tick.of \in Ids /\ tick.now \in Minutes
        /\ tick' = [tick EXCEPT !.pc = "recording", !.outcome = "failed"]
        /\ runRow' = runRow
    BY <1>5, RowTypes DEF ClaimMissed, ClaimAndFail, tables
  <2>2. /\ tick'.pc = "recording" /\ tick'.of = tick.of /\ tick'.now = tick.now
        /\ tick'.outcome = "failed" /\ tick' # IdleRun
    BY <2>1 DEF TickState, IdleRun
  <2>3. runRow[tick.of][tick.now] = "running"
    BY <2>1 DEF RowInv
  <2>4. \/ queueRow' = queueRow /\ queueRow[tick.of][tick.now] # "queued"
        \/ queueRow' = [queueRow EXCEPT ![tick.of][tick.now] = "failed"]
    BY <1>5 DEF ClaimMissed, ClaimAndFail, tables
  <2>5. /\ queueRow'[tick.of][tick.now] \in {"failed", "cancelled", "taken", "refused"}
        /\ queueRow'[tick.of][tick.now] = "cancelled" => <<tick.of, tick.now>> \in requested
        /\ \A d \in Ids, m \in Minutes :
             queueRow'[d][m] = queueRow[d][m] \/ (d = tick.of /\ m = tick.now)
    BY <2>1, <2>4, RowTypes DEF RowInv, RunAgreesWithQueue, WithWorker
  <2>6. RunAgreesWithQueue'
    BY <1>1, <2>1, <2>3, <2>5, AgreeOne DEF RowInv, Agree
  <2>7. RunningRowsAreOwned'
    BY <1>1, <2>1, <2>2 DEF RowInv, RunningRowsAreOwned
  <2> QED BY <1>1, <2>1, <2>2, <2>3, <2>5, <2>6, <2>7 DEF RowInv, WithWorker
<1>6. CASE RecordRun
  <2>1. /\ tick.pc = "recording" /\ tick \in TickState /\ tick.of \in Ids /\ tick.now \in Minutes
        /\ runRow' = [runRow EXCEPT ![tick.of][tick.now] = tick.outcome]
        /\ queueRow' = queueRow
    BY <1>6, RowTypes DEF RecordRun
  <2>2. tick'.pc = "scanning"
    BY <1>6, <2>1 DEF RecordRun, TickState
  <2>3. /\ runRow'[tick.of][tick.now] = tick.outcome
        /\ \A d \in Ids, m \in Minutes :
             runRow'[d][m] = runRow[d][m] \/ (d = tick.of /\ m = tick.now)
    BY <2>1, RowTypes
  <2>4. RunAgreesWithQueue'
    <3>1. Agree(tick.of, tick.now)
      BY <2>1, AgreeAll DEF RowInv
    <3>2. \/ runRow'[tick.of][tick.now] = "completed" /\ queueRow[tick.of][tick.now] = "completed"
          \/ /\ runRow'[tick.of][tick.now] = "failed"
             /\ queueRow[tick.of][tick.now] \in {"failed", "cancelled", "taken", "refused"}
      BY <2>1, <2>3 DEF RowInv, WithWorker
    <3> DEFINE c == tick.of
               m == tick.now
    <3>3. /\ runRow'[c][m] = "completed" => queueRow'[c][m] = "completed"
          /\ runRow'[c][m] = "failed" => queueRow'[c][m] \in {"failed", "cancelled", "taken", "refused"}
          /\ queueRow'[c][m] = "cancelled" => <<c, m>> \in requested'
          /\ queueRow'[c][m] = "completed" => runRow'[c][m] \in {"running", "completed"}
      BY <1>1, <2>1, <3>1, <3>2 DEF Agree
    <3>4. c \in Ids /\ m \in Minutes
      BY <2>1
    <3>5. \A d \in Ids, n \in Minutes :
            \/ d = c /\ n = m
            \/ runRow'[d][n] = runRow[d][n] /\ queueRow'[d][n] = queueRow[d][n]
      BY <2>1, <2>3
    <3> HIDE DEF c, m
    <3>6. PICK d \in Ids, n \in Minutes : d = c /\ n = m
      BY <3>4
    <3>7. Agree(d, n)'
      BY <3>3, <3>6 DEF Agree
    <3> QED BY <1>1, <3>5, <3>6, <3>7, AgreeOne DEF RowInv
  <2>5. RunningRowsAreOwned'
    <3>1. tick.outcome # "running"
      BY <2>1 DEF RowInv
    <3> QED BY <1>1, <2>3, <3>1 DEF RowInv, RunningRowsAreOwned
  <2> QED BY <1>1, <2>2, <2>4, <2>5 DEF RowInv
<1> QED BY <1>2, <1>3, <1>4, <1>5, <1>6 DEF SchedulerNext

\* What the emergency stop does to the row it is at.
LEMMA RowStop ==
  ASSUME Base, OneStretch, RowInv, StopNext
  PROVE  RowInv'
<1>1. /\ UNCHANGED <<runRow, orphans, tick>> /\ requested \subseteq requested'
      /\ sweep.pc # "idle" => sweep \in SweepState
  BY StopFrame DEF Base, CampaignTypeOK, history, IdleRun
<1>2. CASE queueRow' = queueRow
  <2>1. RunAgreesWithQueue' /\ RunningRowsAreOwned'
    BY <1>1, <1>2 DEF RowInv, RunAgreesWithQueue, RunningRowsAreOwned
  <2>2. /\ sweep'.pc \in {"recording", "cancelling"} /\ sweep'.queued =>
             queueRow[sweep'.row[1]][sweep'.row[2]] # "running"
        /\ sweep'.pc = "cancelling" => sweep'.queued /\ sweep'.row \in requested'
    <3>1. CASE EngageStop \/ SweepEnds \/ ResetStop \/ SweepCancels
      <4>1. \/ sweep'.pc \in {"idle", "reading"}
            \/ sweep' = sweep /\ requested' = requested
        <5>1. CASE EngageStop \/ SweepEnds
          BY <5>1 DEF EngageStop, SweepEnds, IdleRun
        <5>2. CASE ResetStop
          BY <5>2 DEF ResetStop, tables
        <5>3. CASE SweepCancels
          <6>1. sweep \in SweepState
            BY <1>1, <5>3 DEF SweepCancels
          <6> QED BY <5>3, <6>1 DEF SweepCancels, SweepState
        <5> QED BY <3>1, <5>1, <5>2, <5>3
      <4> QED BY <4>1 DEF RowInv
    <3>2. ASSUME NEW row \in Rows, SweepReads(row)
          PROVE  /\ sweep'.pc \in {"reading", "recording"}
                 /\ sweep'.pc = "recording" =>
                      sweep'.row = row /\ (sweep'.queued => queueRow[row[1]][row[2]] = "queued")
      <4>1. sweep \in SweepState /\ sweep.pc = "reading"
        BY <1>1, <3>2 DEF SweepReads
      <4>2. CASE queueRow[row[1]][row[2]] \in Unfinished
        BY <3>2, <4>2 DEF SweepReads
      <4>3. CASE queueRow[row[1]][row[2]] \notin Unfinished
        BY <3>2, <4>1, <4>3 DEF SweepReads, SweepState
      <4> QED BY <4>2, <4>3
    <3>3. CASE SweepRecords
      <4>1. sweep \in SweepState /\ sweep.pc = "recording"
        BY <1>1, <3>3 DEF SweepRecords
      <4>2. CASE sweep.queued
        BY <3>3, <4>1, <4>2 DEF SweepRecords, SweepState, RowInv
      <4>3. CASE ~sweep.queued
        BY <3>3, <4>1, <4>3 DEF SweepRecords, SweepState
      <4> QED BY <4>2, <4>3
    <3> QED BY <3>1, <3>2, <3>3 DEF StopNext
  <2> QED BY <1>1, <1>2, <2>1, <2>2 DEF RowInv
<1>3. CASE SweepCancels
  <2>0. PICK c \in Ids, m \in Minutes : sweep.row = <<c, m>> /\ sweep.row[1] = c /\ sweep.row[2] = m
    <3>1. sweep.row \in Rows
      BY <1>1, <1>3 DEF SweepCancels, SweepState
    <3> QED BY <3>1 DEF Rows
  <2>1. /\ sweep \in SweepState /\ sweep.pc = "cancelling" /\ c \in Ids /\ m \in Minutes
        /\ sweep.row = <<c, m>>
    BY <1>1, <1>3, <2>0 DEF SweepCancels
  <2>2. /\ sweep'.pc = "reading" /\ requested' = requested /\ <<c, m>> \in requested
        /\ queueRow[c][m] # "running"
        /\ queueRow' = [queueRow EXCEPT ![c][m] = IF @ \in Unfinished THEN "cancelled" ELSE @]
    BY <1>3, <2>0, <2>1 DEF SweepCancels, SweepState, RowInv
  <2>3. /\ queueRow'[c][m] = IF queueRow[c][m] \in Unfinished THEN "cancelled" ELSE queueRow[c][m]
        /\ \A d \in Ids, n \in Minutes :
             queueRow'[d][n] = queueRow[d][n] \/ (d = c /\ n = m)
    BY <2>1, <2>2, RowTypes
  <2>4. \/ queueRow'[c][m] = queueRow[c][m]
        \/ queueRow'[c][m] = "cancelled" /\ queueRow[c][m] \in {"queued"} \cup WithWorker
    BY <2>2, <2>3 DEF Unfinished
  <2>5. tick.pc \notin {"scanning", "claiming", "recording"}
    BY <2>1 DEF OneStretch, IdleRun
  <2>6. RunAgreesWithQueue'
    <3>1. Agree(c, m)
      BY <2>1, AgreeAll DEF RowInv
    <3>2. Agree(c, m)'
      BY <1>1, <2>2, <2>4, <3>1 DEF Agree, WithWorker
    <3> QED BY <1>1, <2>1, <2>3, <3>2, AgreeOne DEF RowInv
  <2>7. RunningRowsAreOwned'
    BY <1>1 DEF RowInv, RunningRowsAreOwned
  <2>8. tick.pc = "awaiting" => tick.of \in Ids /\ tick.now \in Minutes
    BY RowTypes
  <2>9. tick.pc = "awaiting" => queueRow'[tick.of][tick.now] = "running"
    BY <2>3, <2>2, <2>8 DEF RowInv
  <2> QED BY <1>1, <2>2, <2>5, <2>6, <2>7, <2>9 DEF RowInv
<1> QED BY <1>2, <1>3, StopFrame DEF Base

LEMMA RowElsewhere ==
  ASSUME Base, OneStretch, RowInv, Elsewhere
  PROVE  RowInv'
<1>1. CASE Crash
  <2>1. /\ UNCHANGED <<runRow, queueRow, requested>> /\ tick'.pc = "idle" /\ sweep'.pc = "idle"
        /\ orphans' = orphans \cup {row \in Rows : runRow[row[1]][row[2]] = "running"}
    BY <1>1 DEF Crash, IdleRun
  <2>2. \A c \in Ids, m \in Minutes : runRow[c][m] = "running" => <<c, m>> \in orphans'
    BY <2>1 DEF Rows
  <2> QED BY <2>1, <2>2 DEF RowInv, RunAgreesWithQueue, RunningRowsAreOwned
<1>2. ASSUME NEW c \in Ids, NEW m \in Minutes, WorkerNext(c, m)
      PROVE  RowInv'
  <2>1. UNCHANGED <<runRow, orphans, tick, sweep, requested>>
    BY <1>2, WorkerFrame DEF memory, history, Base
  <2>2. /\ \A d \in Ids, n \in Minutes :
             queueRow'[d][n] = queueRow[d][n] \/ (d = c /\ n = m)
        /\ \/ queueRow[c][m] = "queued" /\ queueRow'[c][m] = "taken"
           \/ queueRow[c][m] = "taken" /\ queueRow'[c][m] = "refused"
           \/ queueRow[c][m] = "refused" /\ queueRow'[c][m] = "failed"
           \/ queueRow[c][m] = "taken" /\ queueRow'[c][m] = "cancelled" /\ <<c, m>> \in requested
    BY <1>2, WorkerFrame DEF Base
  <2>3. RunAgreesWithQueue'
    <3>1. Agree(c, m)
      BY AgreeAll DEF RowInv
    <3>2. Agree(c, m)'
      BY <2>1, <2>2, <3>1 DEF Agree
    <3> QED BY <2>1, <2>2, <3>2, AgreeOne DEF RowInv
  <2>4. RunningRowsAreOwned'
    BY <2>1 DEF RowInv, RunningRowsAreOwned
  <2>5. tick.pc \in {"claiming", "awaiting", "recording"} => tick.of \in Ids /\ tick.now \in Minutes
    BY RowTypes
  <2>6. sweep.pc \in {"recording", "cancelling"} => sweep.row[1] \in Ids /\ sweep.row[2] \in Minutes
    <3>1. sweep.pc \in {"recording", "cancelling"} => sweep.row \in Rows
      <4>1. sweep \in SweepState \cup {IdleRun}
        BY DEF Base, CampaignTypeOK
      <4>2. sweep = IdleRun => sweep.pc = "idle"
        BY DEF IdleRun
      <4>3. sweep \in SweepState => sweep.pc = "reading" \/ sweep.row \in Rows
        BY DEF SweepState
      <4> QED BY <4>1, <4>2, <4>3
    <3>2. \A row \in Rows : row[1] \in Ids /\ row[2] \in Minutes
      BY DEF Rows
    <3> QED BY <3>1, <3>2
  <2>7. sweep.pc \in {"recording", "cancelling"} /\ sweep.queued =>
          queueRow'[sweep.row[1]][sweep.row[2]] # "running"
    BY <2>2, <2>6 DEF RowInv
  <2>8. /\ tick.pc = "claiming" =>
             queueRow'[tick.of][tick.now] \in {"queued", "failed", "cancelled"} \cup WithWorker
        /\ tick.pc = "awaiting" => queueRow'[tick.of][tick.now] = "running"
        /\ tick.pc = "recording" /\ tick.outcome = "completed" =>
             (queueRow[tick.of][tick.now] = "completed" => queueRow'[tick.of][tick.now] = "completed")
        /\ tick.pc = "recording" /\ tick.outcome = "failed" =>
             (queueRow[tick.of][tick.now] \in {"failed", "cancelled"} \cup WithWorker =>
                queueRow'[tick.of][tick.now] \in {"failed", "cancelled"} \cup WithWorker)
    BY <2>2, <2>5 DEF RowInv, WithWorker
  <2> QED BY <2>1, <2>3, <2>4, <2>7, <2>8 DEF RowInv
<1>3. CASE (\E c \in Ids : LeaseLapses(c)) \/ MinutePasses
  <2>1. UNCHANGED <<runRow, queueRow, orphans, tick, sweep, requested>>
    BY <1>3 DEF LeaseLapses, MinutePasses, tables, memory, history
  <2> QED BY <2>1 DEF RowInv, RunAgreesWithQueue, RunningRowsAreOwned
<1> QED BY <1>1, <1>2, <1>3, RowStop DEF Elsewhere

LEMMA RowStep ==
  ASSUME Base, OneStretch, RowInv, [CampaignNext]_campaignVars
  PROVE  RowInv'
<1>1. ASSUME NEW c \in Ids, RouteNext(c) PROVE RowInv'
  <2>1. UNCHANGED <<runRow, queueRow, orphans, tick>>
    BY <1>1, RouteSaves, RouteBase
  <2>2. UNCHANGED <<sweep, requested>>
    BY <1>1 DEF RouteNext, CreateFromDashboard, CreateFromTool, EditRead, EditSave, SetState,
       RefuseFromApi, memory, tables
  <2> QED BY <2>1, <2>2 DEF RowInv, RunAgreesWithQueue, RunningRowsAreOwned
<1>2. CASE UNCHANGED campaignVars
  BY <1>2 DEF campaignVars, tables, memory, history, RowInv, RunAgreesWithQueue, RunningRowsAreOwned
<1> QED BY <1>1, <1>2, RowRun, RowScheduler, RowElsewhere, NextKinds

LEMMA RowInvariant == CampaignSpec => []RowInv
<1>1. CampaignInit => RowInv
  BY DEF CampaignInit, RowInv, RunAgreesWithQueue, RunningRowsAreOwned, IdleRun
<1> QED BY <1>1, RowStep, CampaignBase, OneRunAtATime, PTL DEF CampaignSpec

\* A run row never contradicts the queue's row, whichever of the scheduler and a worker got to
\* the row first and wherever the emergency stop's cancellations fall between (scheduler.ts
\* execute, queue.ts requestCancellationAll, worker-runtime.ts pollOnce).
THEOREM RunRowsAgree == CampaignSpec => []RunAgreesWithQueue
<1>1. RowInv => RunAgreesWithQueue
  BY DEF RowInv
<1> QED BY <1>1, RowInvariant, PTL

\* Every way out of execute() records the run: a row left at running is being worked on or was
\* started by a process that died.
THEOREM NoRunLeftOver == CampaignSpec => []RunningRowsAreOwned
<1>1. RowInv => RunningRowsAreOwned
  BY DEF RowInv
<1> QED BY <1>1, RowInvariant, PTL

=============================================================================
