------------------------ MODULE BrowserWorkerProofs -------------------------
(* For any number of jobs and workers that crash, stop, lose their lease and *)
(* come late: the queue by itself is safe, workers and coordinator implement *)
(* the open queue, so that its theorems hold of them, and what they add to   *)
(* it is safe.                                                               *)
EXTENDS BrowserWorker, TLAPS

-----------------------------------------------------------------------------
(* The queue. *)

\* The attempts of a row stay within its limit, the limit of a submission is
\* one, and a row that does not exist yet has made no attempt.
AttemptsBounded ==
  \A j \in Jobs :
    /\ attempts[j] <= maxAttempts[j]
    /\ j \in Submissions => maxAttempts[j] <= 1
    /\ status[j] = "absent" => attempts[j] = 0

QueueInv ==
  /\ QueueTypeOK
  /\ LeaseConsistent
  /\ QueuedIsClaimable
  /\ AttemptsBounded
  /\ ResultMatchesStatus

LEMMA QueueInitInv == QueueInit => QueueInv
  BY QueueAssumption
  DEF QueueInit, QueueInv, QueueTypeOK, LeaseConsistent, QueuedIsClaimable,
      AttemptsBounded, ResultMatchesStatus, Live, Terminal, CancelCall

\* What a takeover or a claim of a claimable row preserves.
LEMMA LeaseInv ==
  ASSUME QueueInv, NEW j \in Jobs, NEW w \in Workers,
         attempts[j] < maxAttempts[j], status[j] \in Live, Lease(j, w)
  PROVE  QueueInv'
  BY QueueAssumption
  DEF Lease, QueueInv, QueueTypeOK, LeaseConsistent, QueuedIsClaimable,
      AttemptsBounded, ResultMatchesStatus, Live, Terminal

\* What every end of a live row preserves, whatever its result row becomes.
LEMMA ReleaseInv ==
  ASSUME QueueInv, NEW j \in Jobs, status[j] \in Live,
         NEW s \in {"queued"} \cup Terminal, Release(j, s),
         s = "queued" => attempts[j] < maxAttempts[j],
         due' \subseteq Jobs,
         cancellations' \subseteq Jobs, cancelCalls' \subseteq CancelCall,
         failing' \in SUBSET Jobs,
         result' \in [Jobs -> {"none", "completed", "failed"}],
         \A i \in Jobs : i # j => result'[i] = result[i],
         \A i \in Jobs : i # j => (i \in failing' <=> i \in failing),
         result'[j] # "none" => result'[j] = s,
         j \in failing' => s = "failed"
  PROVE  QueueInv'
<1> USE DEF QueueInv
<1>1. /\ status' = [status EXCEPT ![j] = s]
      /\ lockedBy' = [lockedBy EXCEPT ![j] = NoWorker]
      /\ expired' = expired \ {j}
      /\ attempts' = attempts
      /\ maxAttempts' = maxAttempts
  BY DEF Release
<1>2. s # "running" /\ s # "absent"
  BY DEF Terminal
<1>3. QueueTypeOK'
  BY <1>1 DEF QueueTypeOK, Terminal, Live
<1>4. LeaseConsistent'
  BY <1>1, <1>2, QueueAssumption DEF QueueTypeOK, LeaseConsistent
<1>5. QueuedIsClaimable'
  BY <1>1 DEF QueueTypeOK, QueuedIsClaimable
<1>6. AttemptsBounded'
  BY <1>1, <1>2 DEF QueueTypeOK, AttemptsBounded
<1>7. ResultMatchesStatus'
  <2> SUFFICES ASSUME NEW i \in Jobs
               PROVE  /\ result'[i] = "completed" => status'[i] = "completed"
                      /\ result'[i] = "failed" => status'[i] = "failed"
                      /\ i \in failing' => status'[i] = "failed"
    BY DEF ResultMatchesStatus
  <2>1. CASE i = j
    BY <2>1, <1>1 DEF QueueTypeOK
  <2>2. CASE i # j
    BY <2>2, <1>1 DEF QueueTypeOK, ResultMatchesStatus
  <2> QED BY <2>1, <2>2
<1> QED BY <1>3, <1>4, <1>5, <1>6, <1>7

\* A live row has no result row and no failure waiting to be recorded.
LEMMA LiveHasNoResult ==
  ASSUME QueueInv, NEW j \in Jobs, status[j] \in Live
  PROVE  result[j] = "none" /\ j \notin failing
  BY DEF QueueInv, QueueTypeOK, ResultMatchesStatus, Live

\* A row with a worker in locked_by is running.
LEMMA LockedIsRunning ==
  ASSUME QueueInv, NEW j \in Jobs, NEW w \in Workers, lockedBy[j] = w
  PROVE  status[j] = "running"
  BY DEF QueueInv, LeaseConsistent

\* Steps that leave the rows alone except for the clock.
LEMMA RowsKeptInv ==
  ASSUME QueueInv,
         UNCHANGED <<status, attempts, maxAttempts, lockedBy>>,
         due' \subseteq Jobs,
         cancellations' \subseteq Jobs, cancelCalls' \subseteq CancelCall,
         failing' \subseteq failing,
         expired' \subseteq Jobs,
         \A i \in expired' : status[i] = "running",
         result' \in [Jobs -> {"none", "completed", "failed"}],
         \A i \in Jobs : result'[i] # result[i] =>
            result'[i] = "failed" /\ status[i] = "failed"
  PROVE  QueueInv'
<1> USE DEF QueueInv
<1>1. QueueTypeOK'
  BY DEF QueueTypeOK
<1>2. LeaseConsistent' /\ QueuedIsClaimable' /\ AttemptsBounded'
  BY DEF QueueTypeOK, LeaseConsistent, QueuedIsClaimable, AttemptsBounded
<1>3. ResultMatchesStatus'
  BY DEF QueueTypeOK, ResultMatchesStatus
<1> QED BY <1>1, <1>2, <1>3

LEMMA JobStepInv ==
  ASSUME QueueInv, NEW j \in Jobs, JobStep(j)
  PROVE  QueueInv'
<1>1. CASE RunAfterPasses(j)
  BY <1>1, RowsKeptInv DEF RunAfterPasses, QueueInv, QueueTypeOK, LeaseConsistent
<1>2. CASE LeaseExpires(j)
  BY <1>2, RowsKeptInv DEF LeaseExpires, QueueInv, QueueTypeOK, LeaseConsistent
<1>3. CASE Enqueue(j)
  <2>1. PICK requested \in AttemptOptions :
          maxAttempts' = [maxAttempts EXCEPT ![j] = AttemptLimit(j, requested)]
    BY <1>3 DEF Enqueue
  <2> DEFINE limit == AttemptLimit(j, requested)
  <2>2. limit \in Nat \ {0} /\ (j \in Submissions => limit = 1)
    BY QueueAssumption DEF AttemptLimit
  <2> HIDE DEF limit
  <2>3. /\ status[j] = "absent"
        /\ status' = [status EXCEPT ![j] = "queued"]
        /\ maxAttempts' = [maxAttempts EXCEPT ![j] = limit]
        /\ due' \in SUBSET (due \cup {j})
        /\ UNCHANGED <<attempts, lockedBy, expired, result, cancellations, failing, cancelCalls>>
    BY <1>3, <2>1 DEF Enqueue, limit
  <2> USE DEF QueueInv
  <2>4. QueueTypeOK'
    BY <2>2, <2>3 DEF QueueTypeOK, Live
  <2>5. LeaseConsistent'
    BY <2>3 DEF QueueTypeOK, LeaseConsistent
  <2>6. QueuedIsClaimable' /\ AttemptsBounded'
    BY <2>2, <2>3 DEF QueueTypeOK, QueuedIsClaimable, AttemptsBounded
  <2>7. ResultMatchesStatus'
    BY <2>3 DEF QueueTypeOK, ResultMatchesStatus
  <2> QED BY <2>4, <2>5, <2>6, <2>7
<1>4. CASE RecordFailure(j)
  BY <1>4, RowsKeptInv
  DEF RecordFailure, rowVars, QueueInv, QueueTypeOK, LeaseConsistent, ResultMatchesStatus
<1>5. CASE FailureUnrecorded(j)
  BY <1>5, RowsKeptInv DEF FailureUnrecorded, rowVars, QueueInv, QueueTypeOK, LeaseConsistent
<1>6. CASE Cancel(j)
  BY <1>6, ReleaseInv, LiveHasNoResult
  DEF Cancel, CancelRow, QueueInv, QueueTypeOK, Terminal
<1>7. CASE CancelRead(j)
  <2> DEFINE call == [job |-> j, sawQueued |-> status[j] = "queued", recorded |-> FALSE]
  <2>1. call \in CancelCall
    <3>1. (status[j] = "queued") \in BOOLEAN
      OBVIOUS
    <3> QED BY <3>1, Zenon DEF CancelCall
  <2>2. cancelCalls' = cancelCalls \cup {call} /\ UNCHANGED <<rowVars, result, cancellations, failing>>
    BY <1>7 DEF CancelRead
  <2> HIDE DEF call
  <2> QED
    BY <2>1, <2>2, RowsKeptInv DEF rowVars, QueueInv, QueueTypeOK, LeaseConsistent
<1> QED BY <1>1, <1>2, <1>3, <1>4, <1>5, <1>6, <1>7 DEF JobStep

LEMMA WorkerStepInv ==
  ASSUME QueueInv, NEW j \in Jobs, NEW w \in Workers, WorkerStep(j, w)
  PROVE  QueueInv'
<1>1. CASE Claim(j, w)
  BY <1>1, LeaseInv DEF Claim, Claimable, Live
<1>2. CASE ClaimById(j, w)
  BY <1>2, LeaseInv DEF ClaimById, Live
<1>3. CASE Heartbeat(j, w)
  BY <1>3, RowsKeptInv DEF Heartbeat, QueueInv, QueueTypeOK, LeaseConsistent
<1>4. CASE Complete(j, w)
  BY <1>4, ReleaseInv, LiveHasNoResult
  DEF Complete, Holds, QueueInv, QueueTypeOK, Live, Terminal
<1>5. CASE CompleteWithResult(j, w)
  BY <1>5, ReleaseInv, LiveHasNoResult
  DEF CompleteWithResult, Holds, QueueInv, QueueTypeOK, Live, Terminal
<1>6. ASSUME NEW retryable \in BOOLEAN, Fail(j, w, retryable)
      PROVE  QueueInv'
  <2>1. status[j] \in Live
    BY <1>6, LockedIsRunning DEF Fail, Live
  <2>2. CASE MayRetry(j, retryable)
    BY <1>6, <2>1, <2>2, ReleaseInv, LiveHasNoResult
    DEF Fail, MayRetry, QueueInv, QueueTypeOK, Terminal
  <2>3. CASE ~MayRetry(j, retryable)
    BY <1>6, <2>1, <2>3, ReleaseInv, LiveHasNoResult
    DEF Fail, QueueInv, QueueTypeOK, Terminal
  <2> QED BY <2>2, <2>3
<1> QED BY <1>1, <1>2, <1>3, <1>4, <1>5, <1>6 DEF WorkerStep

LEMMA CancelStepInv ==
  ASSUME QueueInv, NEW c \in cancelCalls, CancelStep(c)
  PROVE  QueueInv'
<1>0. c \in CancelCall /\ c.job \in Jobs
  BY DEF QueueInv, QueueTypeOK, CancelCall
<1>1. CASE CancelRecord(c)
  <2>1. [c EXCEPT !.recorded = TRUE] \in CancelCall
    BY <1>0 DEF CancelCall
  <2> QED
    BY <1>0, <1>1, <2>1, RowsKeptInv
    DEF CancelRecord, rowVars, QueueInv, QueueTypeOK, LeaseConsistent
<1>2. CASE CancelApply(c)
  <2>1. CASE CancelRow(c.job)
    BY <1>0, <1>2, <2>1, ReleaseInv, LiveHasNoResult
    DEF CancelApply, CancelRow, QueueInv, QueueTypeOK, Terminal
  <2>2. CASE UNCHANGED rowVars
    BY <1>2, <2>2, RowsKeptInv
    DEF CancelApply, rowVars, QueueInv, QueueTypeOK, LeaseConsistent
  <2> QED BY <1>2, <2>1, <2>2 DEF CancelApply
<1>3. CASE CancelDies(c)
  BY <1>3, RowsKeptInv DEF CancelDies, rowVars, QueueInv, QueueTypeOK, LeaseConsistent
<1> QED BY <1>1, <1>2, <1>3 DEF CancelStep

LEMMA QueueNextInv == QueueInv /\ [QueueNext]_queueVars => QueueInv'
<1> SUFFICES ASSUME QueueInv, [QueueNext]_queueVars PROVE QueueInv'
  OBVIOUS
<1>1. CASE QueueNext
  BY <1>1, JobStepInv, WorkerStepInv, CancelStepInv DEF QueueNext
<1>2. CASE UNCHANGED queueVars
  BY <1>2, RowsKeptInv DEF queueVars, rowVars, QueueInv, QueueTypeOK, LeaseConsistent
<1> QED BY <1>1, <1>2

THEOREM QueueInvariant == QueueSpec => []QueueInv
  BY QueueInitInv, QueueNextInv, PTL DEF QueueSpec

\* Type correctness.
THEOREM QueueTypeCorrect == QueueSpec => []QueueTypeOK
  BY QueueInvariant, PTL DEF QueueInv

\* No submission is ever leased twice.
THEOREM SubmissionLeasedOnce == QueueSpec => []OneSubmissionAttempt
<1>1. ASSUME QueueInv, NEW j \in Submissions
      PROVE  attempts[j] <= 1
  <2>1. j \in Jobs
    BY QueueAssumption
  <2>2. attempts[j] \in Nat /\ maxAttempts[j] \in Nat
    BY <1>1, <2>1 DEF QueueInv, QueueTypeOK
  <2>3. attempts[j] <= maxAttempts[j] /\ maxAttempts[j] <= 1
    BY <1>1, <2>1 DEF QueueInv, AttemptsBounded
  <2> QED BY <2>2, <2>3
<1>2. QueueInv => OneSubmissionAttempt
  BY <1>1 DEF OneSubmissionAttempt
<1> QED BY <1>2, QueueInvariant, PTL

\* The result row agrees with the final state.
THEOREM ResultsAgree == QueueSpec => []ResultMatchesStatus
  BY QueueInvariant, PTL DEF QueueInv

\* The lease columns agree with the status, so fail() needs no status test.
THEOREM LeasesConsistent == QueueSpec => []LeaseConsistent
  BY QueueInvariant, PTL DEF QueueInv

-----------------------------------------------------------------------------
(* What a step may not do. *)

LEMMA FinalKeptByStep ==
  ASSUME QueueInv, [QueueNext]_queueVars, NEW i \in Jobs, status[i] \in Terminal
  PROVE  /\ status'[i] = status[i]
         /\ result[i] # "none" => result'[i] = result[i]
<1>0. status[i] \notin Live /\ status[i] # "absent" /\ lockedBy[i] \notin Workers
  BY DEF Terminal, Live, QueueInv, LeaseConsistent
<1>1. ASSUME NEW j \in Jobs, JobStep(j)
      PROVE  /\ status'[i] = status[i]
             /\ result[i] # "none" => result'[i] = result[i]
  <2>1. CASE RunAfterPasses(j) \/ LeaseExpires(j) \/ FailureUnrecorded(j) \/ CancelRead(j)
    BY <2>1 DEF RunAfterPasses, LeaseExpires, FailureUnrecorded, CancelRead, rowVars
  <2>2. CASE Enqueue(j)
    BY <1>0, <2>2 DEF Enqueue, QueueInv, QueueTypeOK
  <2>3. CASE RecordFailure(j)
    BY <2>3 DEF RecordFailure, rowVars, QueueInv, QueueTypeOK, ResultMatchesStatus
  <2>4. CASE Cancel(j)
    BY <1>0, <2>4 DEF Cancel, CancelRow, Release, QueueInv, QueueTypeOK
  <2> QED BY <1>1, <2>1, <2>2, <2>3, <2>4 DEF JobStep
<1>2. ASSUME NEW j \in Jobs, NEW w \in Workers, WorkerStep(j, w)
      PROVE  /\ status'[i] = status[i]
             /\ result[i] # "none" => result'[i] = result[i]
  <2>1. CASE Claim(j, w) \/ ClaimById(j, w)
    BY <1>0, <2>1 DEF Claim, Claimable, ClaimById, Lease, Live, QueueInv, QueueTypeOK
  <2>2. CASE Heartbeat(j, w)
    BY <2>2 DEF Heartbeat
  <2>3. CASE Complete(j, w) \/ CompleteWithResult(j, w)
    BY <1>0, <2>3
    DEF Complete, CompleteWithResult, Holds, Release, QueueInv, QueueTypeOK
  <2>4. ASSUME NEW retryable \in BOOLEAN, Fail(j, w, retryable)
        PROVE  status'[i] = status[i] /\ result' = result
    BY <1>0, <2>4 DEF Fail, Release, QueueInv, QueueTypeOK
  <2> QED BY <1>2, <2>1, <2>2, <2>3, <2>4 DEF WorkerStep
<1>3. ASSUME NEW c \in cancelCalls, CancelStep(c)
      PROVE  /\ status'[i] = status[i]
             /\ result[i] # "none" => result'[i] = result[i]
  BY <1>0, <1>3
  DEF CancelStep, CancelRecord, CancelApply, CancelDies, CancelRow, Release, rowVars,
      QueueInv, QueueTypeOK
<1>4. CASE UNCHANGED queueVars
  BY <1>4 DEF queueVars, rowVars
<1> QED BY <1>1, <1>2, <1>3, <1>4 DEF QueueNext

\* A job that has ended keeps its state and its result.
THEOREM EndedJobsStay == QueueSpec => TerminalIsFinal
<1>1. QueueInv /\ [QueueNext]_queueVars =>
        \A j \in Jobs : status[j] \in Terminal =>
          /\ status'[j] = status[j]
          /\ result[j] # "none" => result'[j] = result[j]
  BY FinalKeptByStep
<1> QED BY <1>1, QueueInvariant, PTL DEF QueueSpec, TerminalIsFinal

LEMMA FenceByStep ==
  ASSUME QueueInv, [QueueNext]_queueVars, NEW i \in Jobs,
         lockedBy'[i] \in Workers, lockedBy'[i] # lockedBy[i]
  PROVE  /\ attempts'[i] = attempts[i] + 1
         /\ lockedBy[i] \in Workers => i \in expired
<1> USE QueueAssumption DEF QueueInv
<1>1. ASSUME NEW j \in Jobs, JobStep(j)
      PROVE  FALSE
  BY <1>1
  DEF JobStep, RunAfterPasses, LeaseExpires, FailureUnrecorded, CancelRead, Enqueue,
      RecordFailure, Cancel, CancelRow, Release, rowVars, QueueTypeOK
<1>2. ASSUME NEW j \in Jobs, NEW w \in Workers, WorkerStep(j, w)
      PROVE  /\ attempts'[i] = attempts[i] + 1
             /\ lockedBy[i] \in Workers => i \in expired
  <2>1. CASE Claim(j, w) \/ ClaimById(j, w)
    BY <2>1 DEF Claim, Claimable, ClaimById, Lease, QueueTypeOK, LeaseConsistent
  <2>2. CASE Heartbeat(j, w) \/ Complete(j, w) \/ CompleteWithResult(j, w)
    BY <2>2 DEF Heartbeat, Complete, CompleteWithResult, Release, QueueTypeOK
  <2>3. ASSUME NEW retryable \in BOOLEAN, Fail(j, w, retryable)
        PROVE  FALSE
    BY <2>3 DEF Fail, Release, QueueTypeOK
  <2> QED BY <1>2, <2>1, <2>2, <2>3 DEF WorkerStep
<1>3. ASSUME NEW c \in cancelCalls, CancelStep(c)
      PROVE  FALSE
  BY <1>3
  DEF CancelStep, CancelRecord, CancelApply, CancelDies, CancelRow, Release, rowVars,
      QueueTypeOK
<1>4. CASE UNCHANGED queueVars
  BY <1>4 DEF queueVars, rowVars
<1> QED BY <1>1, <1>2, <1>3, <1>4 DEF QueueNext

\* Every handover of a lease carries a fresh attempt number.
THEOREM AttemptNumbersFence == QueueSpec => AttemptsFence
<1>1. QueueInv /\ [QueueNext]_queueVars =>
        \A j \in Jobs :
          lockedBy'[j] \in Workers /\ lockedBy'[j] # lockedBy[j] =>
            /\ attempts'[j] = attempts[j] + 1
            /\ lockedBy[j] \in Workers => j \in expired
  BY FenceByStep
<1> QED BY <1>1, QueueInvariant, PTL DEF QueueSpec, AttemptsFence

-----------------------------------------------------------------------------
(* The workers and the coordinator. *)

\* A worker has a job while it is busy, and holds an attempt of that job that
\* was counted.
Working ==
  \A w \in Workers :
    /\ job[w] = NoJob <=> pc[w] \in {"idle", "down"}
    /\ job[w] # NoJob => lease[w] # 0 /\ lease[w] <= attempts[job[w]]

Base == QueueInv /\ TypeOK /\ Working

\* The job of a worker that is busy.
LEMMA BusyJob ==
  ASSUME TypeOK, Working, NEW w \in Workers, pc[w] \notin {"idle", "down"}
  PROVE  job[w] \in Jobs /\ lease[w] \in Nat
  BY DEF TypeOK, Working

\* What a step of one worker leaves of the others.
OnlyWorker(w) ==
  \A v \in Workers \ {w} : pc'[v] = pc[v] /\ job'[v] = job[v] /\ lease'[v] = lease[v]

\* How a worker's step ends: it forgets its job, goes on with it, or takes one.
Forgets(w) == OnlyWorker(w) /\ pc'[w] \in {"idle", "down"} /\ job'[w] = NoJob
GoesOn(w) ==
  /\ OnlyWorker(w)
  /\ pc[w] \notin {"idle", "down"} /\ pc'[w] \notin {"idle", "down"}
  /\ job'[w] = job[w] /\ lease'[w] = lease[w]

WorkerTypes ==
  /\ pc \in [Workers -> Steps]
  /\ job \in [Workers -> Jobs \cup {NoJob}]
  /\ lease \in [Workers -> Nat]
  /\ aborted \in [Workers -> BOOLEAN]
  /\ outcome \in [Workers -> {"ok"} \cup Errors]
  /\ stopping \subseteq Workers

LEMMA FinishForgets ==
  ASSUME TypeOK, NEW w \in Workers, Finish(w)
  PROVE  Forgets(w) /\ WorkerTypes' /\ pc'[w] = "idle"
  BY DEF TypeOK, Finish, Forgets, OnlyWorker, WorkerTypes, Steps

LEMMA DownForgets ==
  ASSUME TypeOK, NEW w \in Workers, Down(w)
  PROVE  Forgets(w) /\ WorkerTypes' /\ pc'[w] = "down"
  BY DEF TypeOK, Down, Forgets, OnlyWorker, WorkerTypes, Steps

LEMMA GotoGoesOn ==
  ASSUME TypeOK, NEW w \in Workers, pc[w] \notin {"idle", "down"},
         NEW step \in Steps \ {"idle", "down"}, Goto(w, step),
         outcome' \in [Workers -> {"ok"} \cup Errors]
  PROVE  GoesOn(w) /\ WorkerTypes' /\ pc'[w] = step
  BY DEF TypeOK, Goto, GoesOn, OnlyWorker, WorkerTypes

LEMMA ThrowGoesOn ==
  ASSUME TypeOK, NEW w \in Workers, pc[w] \notin {"idle", "down"},
         NEW error \in Errors, Throw(w, error)
  PROVE  GoesOn(w) /\ WorkerTypes' /\ pc'[w] = "catching"
<1>1. outcome' \in [Workers -> {"ok"} \cup Errors]
  BY DEF Throw, TypeOK
<1> QED BY <1>1, GotoGoesOn DEF Throw, Steps

-----------------------------------------------------------------------------
(* The steps of a worker, by what they do to the queue. *)

\* It leases a job to itself ...
Takes(w, j) ==
  /\ pc[w] = "idle" /\ pc'[w] = "claimed" /\ OnlyWorker(w)
  /\ Claim(j, w)
  /\ job'[w] = j /\ lease'[w] = attempts[j] + 1
  /\ UNCHANGED <<answer, starts, author>>

\* ... looks for a cancellation and finds none ...
Checks(w) ==
  /\ pc[w] = "claimed" /\ GoesOn(w) /\ pc'[w] = "starting" /\ job[w] \notin cancellations
  /\ UNCHANGED <<queueVars, answer, starts, author>>

\* A worker between its claim and the start of the handler.
Early == {"claimed", "starting"}

\* ... starts the handler ...
Starts(w) ==
  /\ pc[w] = "starting" /\ GoesOn(w) /\ pc'[w] \notin Early
  /\ starts' = [starts EXCEPT ![job[w]] = @ + 1]
  /\ UNCHANGED <<queueVars, answer, author>>

\* ... stores the result ...
Stores(w) ==
  /\ pc[w] = "completing" /\ Forgets(w)
  /\ CompleteWithResult(job[w], w)
  /\ author' = [author EXCEPT ![job[w]] = lease[w]]
  /\ UNCHANGED <<answer, starts>>

\* ... gives it back or ends it otherwise ...
Ends(w) ==
  /\ pc[w] = "catching"
  /\ \/ Cancel(job[w]) /\ Forgets(w)
     \/ \E retryable \in BOOLEAN :
          Fail(job[w], w, retryable) /\ (Forgets(w) \/ (GoesOn(w) /\ pc'[w] \notin Early))
  /\ UNCHANGED <<answer, starts, author>>

\* ... or works on, or forgets a row that no longer names it, or dies, and at
\* most tells the queue of it without touching a status or an owner.
Tells(w) ==
  /\ \/ UNCHANGED queueVars
     \/ job[w] \in Jobs /\ (Heartbeat(job[w], w) \/ RecordFailure(job[w])
                            \/ FailureUnrecorded(job[w]))
  /\ pc[w] = "starting" => Forgets(w) /\ UNCHANGED queueVars
  /\ \/ GoesOn(w) /\ pc'[w] \notin Early
     \/ Forgets(w) /\ (lockedBy[job[w]] # w \/ pc'[w] = "down")
     \/ OnlyWorker(w) /\ UNCHANGED <<pc, job, lease>>
  /\ UNCHANGED <<answer, starts, author>>

LEMMA WorkKinds ==
  ASSUME Base, NEW w \in Workers, Work(w) \/ Stop(w) \/ Crash(w)
  PROVE  /\ WorkerTypes'
         /\ \/ \E j \in Jobs : Takes(w, j)
            \/ Checks(w) \/ Starts(w) \/ Stores(w) \/ Ends(w) \/ Tells(w)
<1> USE DEF Base, Early
<1>1. CASE PollOnce(w)
  <2>1. PICK j \in Jobs : /\ Claim(j, w) /\ job' = [job EXCEPT ![w] = j]
                          /\ lease' = [lease EXCEPT ![w] = attempts[j] + 1]
    BY <1>1 DEF PollOnce
  <2>2. attempts[j] + 1 \in Nat
    BY DEF QueueInv, QueueTypeOK
  <2> QED BY <1>1, <2>1, <2>2 DEF PollOnce, Takes, OnlyWorker, WorkerTypes, TypeOK, Steps
<1>2. CASE CheckJob(w)
  <2>1. pc[w] = "claimed" /\ UNCHANGED <<queueVars, answer, starts, author>>
    BY <1>2 DEF CheckJob
  <2>2. CASE Throw(w, "cancelled") \/ Throw(w, "fatal")
    BY <2>1, <2>2, ThrowGoesOn DEF Errors, Tells
  <2>3. CASE job[w] \notin cancellations /\ Goto(w, "starting") /\ UNCHANGED outcome
    BY <2>1, <2>3, GotoGoesOn DEF TypeOK, Steps, Checks
  <2> QED BY <1>2, <2>2, <2>3 DEF CheckJob
<1>11. CASE StartHandler(w)
  <2>1. GoesOn(w) /\ WorkerTypes' /\ pc'[w] = "handling"
    BY <1>11, GotoGoesOn DEF StartHandler, TypeOK, Steps
  <2> QED BY <1>11, <2>1 DEF StartHandler, Starts
<1>3. CASE HeartbeatTimer(w)
  <2>1. job[w] \in Jobs
    BY <1>3, BusyJob DEF HeartbeatTimer
  <2> QED BY <1>3, <2>1 DEF HeartbeatTimer, Tells, OnlyWorker, WorkerTypes, TypeOK
<1>4. CASE HandlerEnds(w)
  <2>1. pc[w] = "handling" /\ UNCHANGED <<queueVars, answer, starts, author>>
    BY <1>4 DEF HandlerEnds
  <2>2. CASE Goto(w, "completing") /\ UNCHANGED outcome
    BY <2>1, <2>2, GotoGoesOn DEF TypeOK, Steps, Tells
  <2>3. CASE \E error \in {"retryable", "fatal"} : Throw(w, error)
    BY <2>1, <2>3, ThrowGoesOn DEF Errors, Tells
  <2> QED BY <1>4, <2>2, <2>3 DEF HandlerEnds
<1>5. CASE StoreResult(w)
  <2>1. pc[w] = "completing" /\ UNCHANGED <<answer, starts>>
    BY <1>5 DEF StoreResult
  <2>2. CASE /\ CompleteWithResult(job[w], w) /\ Finish(w)
             /\ author' = [author EXCEPT ![job[w]] = lease[w]]
    BY <2>1, <2>2, FinishForgets DEF Stores
  <2>3. CASE Throw(w, "retryable") /\ UNCHANGED <<queueVars, author>>
    BY <2>1, <2>3, ThrowGoesOn DEF Errors, Tells
  <2> QED BY <1>5, <2>2, <2>3 DEF StoreResult
<1>6. CASE Catch(w)
  <2>1. pc[w] = "catching" /\ UNCHANGED <<answer, starts, author>> /\ job[w] \in Jobs
    BY <1>6, BusyJob DEF Catch
  <2>2. CASE Cancel(job[w]) /\ Finish(w)
    BY <2>1, <2>2, FinishForgets DEF Ends
  <2>3. CASE status[job[w]] \notin Live /\ UNCHANGED queueVars /\ Finish(w)
    <3>1. lockedBy[job[w]] # w
      BY <2>1, <2>3 DEF QueueInv, LeaseConsistent, Live
    <3> QED BY <2>1, <2>3, <3>1, FinishForgets DEF Tells
  <2>4. CASE Fail(job[w], w, outcome[w] = "retryable") /\ Finish(w)
    BY <2>1, <2>4, FinishForgets DEF Ends
  <2>5. CASE Fail(job[w], w, outcome[w] = "retryable") /\ Goto(w, "recording") /\ UNCHANGED outcome
    <3>1. GoesOn(w) /\ WorkerTypes' /\ pc'[w] = "recording"
      BY <2>1, <2>5, GotoGoesOn DEF TypeOK, Steps
    <3> QED BY <2>1, <2>5, <3>1 DEF Ends
  <2>6. CASE lockedBy[job[w]] # w /\ UNCHANGED queueVars /\ Finish(w)
    BY <2>1, <2>6, FinishForgets DEF Tells
  <2> QED BY <1>6, <2>2, <2>3, <2>4, <2>5, <2>6 DEF Catch
<1>7. CASE StoreFailure(w)
  <2>1. job[w] \in Jobs
    BY <1>7, BusyJob DEF StoreFailure
  <2>2. lockedBy[job[w]] # w
    BY <1>7, <2>1 DEF StoreFailure, RecordFailure, QueueInv, ResultMatchesStatus, LeaseConsistent
  <2> QED BY <1>7, <2>1, <2>2, FinishForgets DEF StoreFailure, Tells
<1>8. CASE Exit(w)
  BY <1>8, DownForgets DEF Exit, Down, Tells
<1>9. CASE Stop(w)
  BY <1>9 DEF Stop, Tells, OnlyWorker, WorkerTypes, TypeOK, Active
<1>10. CASE Crash(w)
  <2>1. pc[w] = "recording" => job[w] \in Jobs
    BY BusyJob
  <2> QED BY <1>10, <2>1, DownForgets DEF Crash, Down, Tells
<1> QED BY <1>1, <1>2, <1>3, <1>4, <1>5, <1>6, <1>7, <1>8, <1>9, <1>10, <1>11
      DEF Work

-----------------------------------------------------------------------------
(* Workers and coordinator implement the queue. *)

\* What a step of the coordinator and of the clock leaves alone.
Coordinator ==
  \/ \E j \in Jobs : Submit(j) \/ PollResult(j) \/ Abandon(j)
  \/ Environment

LEMMA CoordinatorKinds ==
  ASSUME Base, Coordinator
  PROVE  /\ UNCHANGED <<workerVars, starts, author>>
         /\ \/ UNCHANGED queueVars
            \/ \E j \in Jobs : Enqueue(j) \/ CancelRead(j) \/ RunAfterPasses(j) \/ LeaseExpires(j)
            \/ \E c \in cancelCalls : CancelStep(c)
  BY DEF Coordinator, Submit, PollResult, Abandon, Environment, Answer

LEMMA NextKinds ==
  Next => Coordinator \/ \E w \in Workers : Work(w) \/ Stop(w) \/ Crash(w)
  BY DEF Next, Coordinator

LEMMA NextIsQueueStep ==
  ASSUME Base, [Next]_vars
  PROVE  [QueueNext]_queueVars
<1>1. CASE Coordinator
  BY <1>1, CoordinatorKinds DEF QueueNext, JobStep
<1>2. ASSUME NEW w \in Workers, Work(w) \/ Stop(w) \/ Crash(w)
      PROVE  [QueueNext]_queueVars
  <2>1. pc[w] \notin {"idle", "down"} => job[w] \in Jobs
    BY BusyJob DEF Base
  <2>2. CASE \E j \in Jobs : Takes(w, j)
    BY <2>2 DEF Takes, QueueNext, WorkerStep
  <2>3. CASE Checks(w) \/ Starts(w)
    BY <2>3 DEF Checks, Starts
  <2>4. CASE Stores(w)
    BY <2>1, <2>4 DEF Stores, QueueNext, WorkerStep
  <2>5. CASE Ends(w)
    BY <2>1, <2>5 DEF Ends, QueueNext, WorkerStep, JobStep
  <2>6. CASE Tells(w)
    BY <2>6 DEF Tells, QueueNext, WorkerStep, JobStep
  <2> QED BY <1>2, <2>2, <2>3, <2>4, <2>5, <2>6, WorkKinds
<1>3. CASE UNCHANGED vars
  BY <1>3 DEF vars
<1> QED BY <1>1, <1>2, <1>3, NextKinds

\* A step that leases nothing keeps every attempt number and gives no row a new owner.
Eases == \A i \in Jobs : attempts'[i] = attempts[i] /\ lockedBy'[i] \in {lockedBy[i], NoWorker}

LEMMA JobStepEases ==
  ASSUME QueueInv, NEW j \in Jobs, JobStep(j)
  PROVE  Eases
  BY DEF JobStep, RunAfterPasses, LeaseExpires, Enqueue, RecordFailure, FailureUnrecorded,
     Cancel, CancelRow, CancelRead, Release, rowVars, Eases, QueueInv, QueueTypeOK

LEMMA CancelStepEases ==
  ASSUME QueueInv, NEW c \in cancelCalls, CancelStep(c)
  PROVE  Eases
  BY DEF CancelStep, CancelRecord, CancelApply, CancelDies, CancelRow, Release, rowVars, Eases,
     QueueInv, QueueTypeOK

LEMMA EndingEases ==
  ASSUME QueueInv, NEW j \in Jobs, NEW w \in Workers,
         \/ CompleteWithResult(j, w) \/ Cancel(j)
         \/ \E retryable \in BOOLEAN : Fail(j, w, retryable)
  PROVE  Eases /\ lockedBy'[j] = NoWorker
  BY DEF CompleteWithResult, Cancel, CancelRow, Fail, Release, Eases, QueueInv, QueueTypeOK

LEMMA TellingEases ==
  ASSUME QueueInv, NEW j \in Jobs, NEW w \in Workers,
         Heartbeat(j, w) \/ RecordFailure(j) \/ FailureUnrecorded(j)
  PROVE  Eases
  BY DEF Heartbeat, RecordFailure, FailureUnrecorded, rowVars, Eases

LEMMA CoordinatorEases ==
  ASSUME Base, Coordinator
  PROVE  Eases
<1>1. CASE UNCHANGED queueVars
  BY <1>1 DEF queueVars, rowVars, Eases
<1>2. CASE \E j \in Jobs : Enqueue(j) \/ CancelRead(j) \/ RunAfterPasses(j) \/ LeaseExpires(j)
  BY <1>2, JobStepEases DEF JobStep, Base
<1> QED BY <1>1, <1>2, CoordinatorKinds, CancelStepEases DEF Base

-----------------------------------------------------------------------------
(* Base is an invariant, and with it HolderIsWorking. *)

LEMMA TypesStep ==
  ASSUME Base, [Next]_vars
  PROVE  TypeOK'
<1>1. QueueTypeOK'
  BY NextIsQueueStep, QueueNextInv DEF Base, QueueInv
<1>2. CASE Coordinator
  <2>1. answer' \in [Jobs -> Answers]
    BY <1>2 DEF Coordinator, Submit, PollResult, Abandon, Environment, Answer, Answers, Base, TypeOK
  <2> QED BY <1>1, <1>2, <2>1, CoordinatorKinds DEF Base, TypeOK, workerVars
<1>3. ASSUME NEW w \in Workers, Work(w) \/ Stop(w) \/ Crash(w)
      PROVE  TypeOK'
  <2>1. pc[w] \notin {"idle", "down"} => job[w] \in Jobs /\ lease[w] \in Nat
    BY BusyJob DEF Base
  <2>2. answer' \in [Jobs -> Answers] /\ starts' \in [Jobs -> Nat] /\ author' \in [Jobs -> Nat]
    <3>1. CASE Starts(w)
      <4>1. starts[job[w]] + 1 \in Nat
        BY <2>1, <3>1 DEF Starts, Base, TypeOK
      <4> QED BY <2>1, <3>1, <4>1 DEF Starts, Base, TypeOK
    <3>2. CASE Stores(w)
      BY <2>1, <3>2 DEF Stores, Base, TypeOK
    <3>3. CASE Checks(w) \/ Ends(w) \/ Tells(w) \/ \E j \in Jobs : Takes(w, j)
      BY <3>3 DEF Checks, Ends, Tells, Takes, Base, TypeOK
    <3> QED BY <1>3, <3>1, <3>2, <3>3, WorkKinds
  <2> QED BY <1>1, <1>3, <2>2, WorkKinds DEF WorkerTypes, TypeOK
<1>4. CASE UNCHANGED vars
  BY <1>1, <1>4 DEF vars, workerVars, Base, TypeOK
<1> QED BY <1>2, <1>3, <1>4, NextKinds

LEMMA WorkingStep ==
  ASSUME Base, HolderIsWorking, [Next]_vars
  PROVE  Working' /\ HolderIsWorking'
<1> USE QueueAssumption, WorkerAssumption DEF Base
<1>0. \A j \in Jobs : attempts[j] \in Nat
  BY DEF QueueInv, QueueTypeOK
<1>1. CASE Eases /\ UNCHANGED workerVars
  BY <1>0, <1>1 DEF Eases, workerVars, Working, HolderIsWorking, TypeOK
<1>2. ASSUME NEW w \in Workers, Work(w) \/ Stop(w) \/ Crash(w)
      PROVE  Working' /\ HolderIsWorking'
  <2>1. pc[w] \notin {"idle", "down"} => job[w] \in Jobs /\ lease[w] \in Nat
    BY BusyJob
  <2>2. ASSUME NEW j \in Jobs, Takes(w, j) PROVE Working' /\ HolderIsWorking'
    <3>1. /\ attempts'[j] = attempts[j] + 1 /\ lockedBy'[j] = w
          /\ \A i \in Jobs \ {j} : attempts'[i] = attempts[i] /\ lockedBy'[i] = lockedBy[i]
      BY <2>2 DEF Takes, Claim, Lease, QueueInv, QueueTypeOK
    <3>2. \A i \in Jobs : lockedBy[i] # w
      BY <2>2 DEF Takes, HolderIsWorking, Working
    <3>3. \A v \in Workers \ {w} : job[v] = j => lease[v] # 0 /\ lease[v] <= attempts'[j]
      BY <1>0, <3>1 DEF Working, TypeOK
    <3>4. Working'
      BY <1>0, <2>2, <3>1, <3>3 DEF Takes, OnlyWorker, Working, TypeOK
    <3>5. HolderIsWorking'
      BY <1>0, <2>2, <3>1, <3>2 DEF Takes, OnlyWorker, HolderIsWorking
    <3> QED BY <3>4, <3>5
  <2>3. ASSUME Eases, Forgets(w),
               pc'[w] = "down" \/ \A i \in Jobs : lockedBy'[i] # w
        PROVE  Working' /\ HolderIsWorking'
    BY <1>0, <2>3 DEF Eases, Forgets, OnlyWorker, Working, HolderIsWorking, TypeOK
  <2>4. ASSUME Eases, GoesOn(w) \/ (OnlyWorker(w) /\ UNCHANGED <<pc, job, lease>>)
        PROVE  Working' /\ HolderIsWorking'
    BY <1>0, <2>4 DEF Eases, GoesOn, OnlyWorker, Working, HolderIsWorking, TypeOK
  <2>5. CASE Checks(w) \/ Starts(w)
    BY <2>4, <2>5 DEF Checks, Starts, queueVars, rowVars, Eases
  <2>6. CASE Stores(w) \/ Ends(w)
    <3>1. Eases /\ lockedBy'[job[w]] = NoWorker
      BY <2>1, <2>6, EndingEases DEF Stores, Ends
    <3>2. pc[w] # "down" /\ \A i \in Jobs : lockedBy'[i] # w
      BY <2>6, <3>1 DEF Stores, Ends, Eases, HolderIsWorking
    <3> QED BY <2>3, <2>4, <2>6, <3>1, <3>2 DEF Stores, Ends
  <2>7. CASE Tells(w)
    <3>1. Eases
      BY <2>7, TellingEases DEF Tells, queueVars, rowVars, Eases
    <3>2. ASSUME Forgets(w), lockedBy[job[w]] # w, pc[w] # "down"
          PROVE  \A i \in Jobs : lockedBy'[i] # w
      BY <3>1, <3>2 DEF Eases, HolderIsWorking
    <3>3. Forgets(w) /\ pc[w] = "down" => pc'[w] = "down"
      BY <1>2 DEF Work, Stop, Crash, PollOnce, CheckJob, StartHandler, HeartbeatTimer, HandlerEnds,
         StoreResult, Catch, StoreFailure, Exit
    <3> QED BY <2>3, <2>4, <2>7, <3>1, <3>2, <3>3 DEF Tells
  <2> QED BY <1>2, <2>2, <2>5, <2>6, <2>7, WorkKinds
<1>3. CASE Coordinator
  BY <1>1, <1>3, CoordinatorKinds, CoordinatorEases
<1>4. CASE UNCHANGED vars
  BY <1>1, <1>4 DEF vars, queueVars, rowVars, Eases
<1> QED BY <1>2, <1>3, <1>4, NextKinds

LEMMA InitBase == Init => Base /\ HolderIsWorking
<1> SUFFICES ASSUME Init PROVE Base /\ HolderIsWorking
  OBVIOUS
<1>1. QueueInv
  BY QueueInitInv DEF Init
<1>2. TypeOK
  BY <1>1 DEF Init, TypeOK, QueueInv, Steps, Answers
<1>3. Working /\ HolderIsWorking
  BY QueueAssumption DEF Init, QueueInit, Working, HolderIsWorking
<1> QED BY <1>1, <1>2, <1>3 DEF Base

LEMMA BaseStep ==
  ASSUME Base, HolderIsWorking, [Next]_vars
  PROVE  Base' /\ HolderIsWorking'
  BY TypesStep, WorkingStep, NextIsQueueStep, QueueNextInv DEF Base

LEMMA BaseInvariant == Spec => [](Base /\ HolderIsWorking)
  BY InitBase, BaseStep, PTL DEF Spec

\* Every variable of workers and coordinator keeps its type.
THEOREM WorkerTypeCorrect == Spec => []TypeOK
<1>1. Base => TypeOK
  BY DEF Base
<1> QED BY BaseInvariant, <1>1, PTL

\* A row never names a worker that is alive and works on something else or on
\* an older attempt (worker-runtime.ts pollOnce, its catch and finally).
THEOREM HoldersWork == Spec => []HolderIsWorking
  BY BaseInvariant, PTL

\* Workers and coordinator use the queue as DurableQueue has it, so that its
\* theorems hold of the composed system.
THEOREM WorkersUseTheQueue == Spec => UsesQueue
<1>1. Init => QueueInit
  BY DEF Init
<1> QED BY <1>1, NextIsQueueStep, BaseInvariant, PTL DEF Spec, UsesQueue, QueueSpec

-----------------------------------------------------------------------------
(* What is stored and what callers are told. *)

\* A step that completes nothing.
NothingCompleted ==
  \A i \in Jobs :
    /\ status'[i] = "completed" <=> status[i] = "completed"
    /\ result'[i] = "completed" <=> result[i] = "completed"
    /\ status[i] = "completed" => attempts'[i] = attempts[i]

LEMMA OthersCompleteNothing ==
  ASSUME QueueInv,
         \/ \E j \in Jobs : JobStep(j)
         \/ \E j \in Jobs, w \in Workers :
              \/ Claim(j, w) \/ Heartbeat(j, w)
              \/ \E retryable \in BOOLEAN : Fail(j, w, retryable)
         \/ \E c \in cancelCalls : CancelStep(c)
         \/ UNCHANGED queueVars
  PROVE  NothingCompleted
<1>1. ASSUME NEW j \in Jobs, JobStep(j) PROVE NothingCompleted
  <2>1. CASE RunAfterPasses(j) \/ LeaseExpires(j) \/ FailureUnrecorded(j) \/ CancelRead(j)
    BY <2>1 DEF RunAfterPasses, LeaseExpires, FailureUnrecorded, CancelRead, rowVars, NothingCompleted
  <2>2. CASE Enqueue(j)
    BY <2>2 DEF Enqueue, NothingCompleted, QueueInv, QueueTypeOK
  <2>3. CASE RecordFailure(j)
    BY <2>3 DEF RecordFailure, rowVars, NothingCompleted, QueueInv, QueueTypeOK, ResultMatchesStatus
  <2>4. CASE Cancel(j)
    BY <2>4 DEF Cancel, CancelRow, Release, Live, NothingCompleted, QueueInv, QueueTypeOK
  <2> QED BY <1>1, <2>1, <2>2, <2>3, <2>4 DEF JobStep
<1>2. ASSUME NEW j \in Jobs, NEW w \in Workers, Claim(j, w) \/ Heartbeat(j, w)
      PROVE  NothingCompleted
  BY <1>2 DEF Claim, Claimable, Lease, Heartbeat, NothingCompleted, QueueInv, QueueTypeOK
<1>3. ASSUME NEW j \in Jobs, NEW w \in Workers, NEW retryable \in BOOLEAN, Fail(j, w, retryable)
      PROVE  NothingCompleted
  <2>1. status[j] = "running"
    BY <1>3, LockedIsRunning DEF Fail
  <2>2. result' = result /\ attempts' = attempts
        /\ \E s \in {"queued", "failed"} : status' = [status EXCEPT ![j] = s]
    BY <1>3 DEF Fail, Release
  <2> QED BY <2>1, <2>2 DEF NothingCompleted, QueueInv, QueueTypeOK
<1>4. ASSUME NEW c \in cancelCalls, CancelStep(c) PROVE NothingCompleted
  BY <1>4 DEF CancelStep, CancelRecord, CancelApply, CancelDies, CancelRow, Release, rowVars, Live,
     NothingCompleted, QueueInv, QueueTypeOK
<1>5. CASE UNCHANGED queueVars
  BY <1>5 DEF queueVars, rowVars, NothingCompleted
<1> QED BY <1>1, <1>2, <1>3, <1>4, <1>5

LEMMA LatestStep ==
  ASSUME Base, HolderIsWorking, ResultOfLatestAttempt, [Next]_vars
  PROVE  ResultOfLatestAttempt'
<1>1. CASE NothingCompleted /\ author' = author
  BY <1>1 DEF NothingCompleted, ResultOfLatestAttempt
<1>2. CASE Coordinator
  BY <1>1, <1>2, CoordinatorKinds, OthersCompleteNothing DEF Base, JobStep
<1>3. ASSUME NEW w \in Workers, Work(w) \/ Stop(w) \/ Crash(w)
      PROVE  ResultOfLatestAttempt'
  <2>1. pc[w] \notin {"idle", "down"} => job[w] \in Jobs /\ lease[w] \in Nat
    BY BusyJob DEF Base
  <2>2. CASE Stores(w)
    <3> DEFINE j == job[w]
    <3>1. j \in Jobs /\ lockedBy[j] = w /\ lease[w] = attempts[j] /\ lease[w] # 0
      BY <2>1, <2>2 DEF Stores, CompleteWithResult, Holds, HolderIsWorking, Base, Working, TypeOK
    <3>2. /\ status' = [status EXCEPT ![j] = "completed"] /\ attempts' = attempts
          /\ result' = [result EXCEPT ![j] = "completed"]
          /\ author' = [author EXCEPT ![j] = lease[w]]
      BY <2>2 DEF Stores, CompleteWithResult, Release
    <3> QED BY <3>1, <3>2 DEF ResultOfLatestAttempt, Base, TypeOK, QueueTypeOK
  <2>3. CASE \E j \in Jobs : Takes(w, j)
    BY <1>1, <2>3, OthersCompleteNothing DEF Takes, Base
  <2>4. CASE Checks(w) \/ Starts(w)
    BY <1>1, <2>4, OthersCompleteNothing DEF Checks, Starts, Base
  <2>5. CASE Ends(w)
    BY <1>1, <2>1, <2>5, OthersCompleteNothing DEF Ends, JobStep, Base
  <2>6. CASE Tells(w)
    BY <1>1, <2>6, OthersCompleteNothing DEF Tells, JobStep, Base
  <2> QED BY <1>3, <2>2, <2>3, <2>4, <2>5, <2>6, WorkKinds
<1>4. CASE UNCHANGED vars
  BY <1>1, <1>4, OthersCompleteNothing DEF vars, Base
<1> QED BY <1>2, <1>3, <1>4, NextKinds

\* The stored result is the latest attempt's: a worker that finishes after its
\* lease passed on stores nothing (queue.ts completeWithResult).
THEOREM LatestResult == Spec => []ResultOfLatestAttempt
<1>1. Init => ResultOfLatestAttempt
  BY DEF Init, QueueInit, ResultOfLatestAttempt
<1> QED BY <1>1, LatestStep, BaseInvariant, PTL DEF Spec

LEMMA AnswersStep ==
  ASSUME Base, AnswersAreTrue, [Next]_vars
  PROVE  AnswersAreTrue'
<1>1. \A i \in Jobs : status[i] \in Terminal => status'[i] = status[i]
  BY NextIsQueueStep, FinalKeptByStep DEF Base
<1>2. CASE answer' = answer
  BY <1>1, <1>2 DEF AnswersAreTrue, Terminal
<1>3. ASSUME NEW j \in Jobs, NEW what, Answer(j, what),
             what = "ok" => status[j] = "completed",
             what = "failed" => status[j] = "failed",
             what = "cancelled" => status[j] = "cancelled"
      PROVE  AnswersAreTrue'
  BY <1>1, <1>3 DEF Answer, AnswersAreTrue, Terminal, Base, TypeOK
<1>4. CASE Coordinator
  <2>1. ASSUME NEW j \in Jobs, Submit(j) \/ Abandon(j) PROVE AnswersAreTrue'
    BY <1>3, <2>1 DEF Submit, Abandon
  <2>2. ASSUME NEW j \in Jobs, PollResult(j) PROVE AnswersAreTrue'
    <3>1. /\ result[j] = "completed" => status[j] = "completed"
          /\ result[j] = "failed" => status[j] = "failed"
      BY DEF Base, QueueInv, ResultMatchesStatus
    <3>2. CASE result[j] = "completed" /\ Answer(j, "ok")
      BY <1>3, <3>1, <3>2
    <3>3. CASE result[j] = "failed" /\ Answer(j, "failed")
      BY <1>3, <3>1, <3>3
    <3>4. CASE status[j] = "cancelled" /\ Answer(j, "cancelled")
      BY <1>3, <3>4
    <3> QED BY <2>2, <3>2, <3>3, <3>4 DEF PollResult
  <2>3. CASE Environment
    BY <1>2, <2>3 DEF Environment
  <2> QED BY <1>4, <2>1, <2>2, <2>3 DEF Coordinator
<1>5. ASSUME NEW w \in Workers, Work(w) \/ Stop(w) \/ Crash(w)
      PROVE  AnswersAreTrue'
  BY <1>2, <1>5, WorkKinds DEF Takes, Checks, Starts, Stores, Ends, Tells
<1>6. CASE UNCHANGED vars
  BY <1>2, <1>6 DEF vars
<1> QED BY <1>4, <1>5, <1>6, NextKinds

\* What the caller was told stays true, although the result and the status are
\* read in two statements (wuzzuf-tool-service.ts waitForWorker).
THEOREM CallersToldTheTruth == Spec => []AnswersAreTrue
<1>1. Init => AnswersAreTrue
  BY DEF Init, AnswersAreTrue
<1> QED BY <1>1, AnswersStep, BaseInvariant, PTL DEF Spec

-----------------------------------------------------------------------------
(* A submission job keeps the promise of AtMostOnce. *)

\* A request is recorded before its call cancels the row.
CallsRecorded == \A c \in cancelCalls : c.recorded => c.job \in cancellations

\* A submission has one attempt, so one worker ever has it; between the claim
\* and the worker's check nobody ends it without a recorded request.
SubmissionInv ==
  \A j \in Submissions :
    /\ starts[j] <= 1
    /\ attempts[j] = 0 => starts[j] = 0
    /\ \A v, w \in Workers : job[v] = j /\ job[w] = j => v = w
    /\ \A w \in Workers : job[w] = j /\ pc[w] \in Early => starts[j] = 0
    /\ \A w \in Workers : job[w] = j /\ pc[w] = "claimed" =>
         status[j] \in Live \/ j \in cancellations

LEMMA CallsStep ==
  ASSUME QueueInv, CallsRecorded, [QueueNext]_queueVars
  PROVE  CallsRecorded' /\ cancellations \subseteq cancellations'
<1>1. ASSUME NEW j \in Jobs, JobStep(j)
      PROVE  CallsRecorded' /\ cancellations \subseteq cancellations'
  BY <1>1 DEF JobStep, RunAfterPasses, LeaseExpires, Enqueue, RecordFailure, FailureUnrecorded,
     Cancel, CancelRead, CallsRecorded
<1>2. ASSUME NEW j \in Jobs, NEW w \in Workers, WorkerStep(j, w)
      PROVE  CallsRecorded' /\ cancellations \subseteq cancellations'
  BY <1>2 DEF WorkerStep, Claim, ClaimById, Lease, Heartbeat, Complete, CompleteWithResult, Fail,
     CallsRecorded
<1>3. ASSUME NEW c \in cancelCalls, CancelStep(c)
      PROVE  CallsRecorded' /\ cancellations \subseteq cancellations'
  <2>1. CASE CancelRecord(c)
    <3>1. c \in CancelCall
      BY DEF QueueInv, QueueTypeOK
    <3>2. [c EXCEPT !.recorded = TRUE].job = c.job
      BY <3>1 DEF CancelCall
    <3> QED BY <2>1, <3>2 DEF CancelRecord, CallsRecorded
  <2>2. CASE CancelApply(c) \/ CancelDies(c)
    BY <2>2 DEF CancelApply, CancelDies, CallsRecorded
  <2> QED BY <1>3, <2>1, <2>2 DEF CancelStep
<1>4. CASE UNCHANGED queueVars
  BY <1>4 DEF queueVars, CallsRecorded
<1> QED BY <1>1, <1>2, <1>3, <1>4 DEF QueueNext

\* The coordinator's side ends no job without a recorded request.
LEMMA CoordinatorKeepsOpen ==
  ASSUME Base, CallsRecorded, Coordinator, NEW i \in Jobs, status[i] \in Live
  PROVE  status'[i] \in Live \/ i \in cancellations
<1> USE DEF Base, QueueInv, QueueTypeOK, Live
<1>1. ASSUME NEW j \in Jobs, Enqueue(j) \/ CancelRead(j) \/ RunAfterPasses(j) \/ LeaseExpires(j)
      PROVE  status'[i] \in Live
  BY <1>1 DEF Enqueue, CancelRead, RunAfterPasses, LeaseExpires, rowVars
<1>2. ASSUME NEW c \in cancelCalls, CancelStep(c)
      PROVE  status'[i] \in Live \/ i \in cancellations
  BY <1>2 DEF CancelStep, CancelRecord, CancelApply, CancelDies, CancelRow, Release, rowVars,
     CallsRecorded
<1>3. CASE UNCHANGED queueVars
  BY <1>3 DEF queueVars, rowVars
<1> QED BY <1>1, <1>2, <1>3, CoordinatorKinds

\* A claim meets a submission nobody has had.
LEMMA ClaimIsFirst ==
  ASSUME Base, SubmissionInv, NEW j \in Submissions, NEW w \in Workers, Takes(w, j)
  PROVE  starts[j] = 0 /\ \A v \in Workers : job[v] # j
<1>1. j \in Jobs
  BY QueueAssumption
<1>2. attempts[j] = 0
  BY <1>1 DEF Takes, Claim, Claimable, Base, QueueInv, QueueTypeOK, AttemptsBounded
<1> QED BY <1>1, <1>2, WorkerAssumption DEF SubmissionInv, Base, Working, TypeOK

LEMMA SubmissionStep ==
  ASSUME Base, HolderIsWorking, CallsRecorded, SubmissionInv, [Next]_vars
  PROVE  SubmissionInv'
<1> USE QueueAssumption, WorkerAssumption
<1>0. cancellations \subseteq cancellations'
  BY NextIsQueueStep, CallsStep DEF Base
<1>1. CASE Coordinator
  <2>1. \A j \in Jobs : attempts'[j] = attempts[j]
    BY <1>1, CoordinatorEases DEF Eases
  <2>2. UNCHANGED <<workerVars, starts>>
    BY <1>1, CoordinatorKinds
  <2>3. \A j \in Jobs : status[j] \in Live => status'[j] \in Live \/ j \in cancellations
    BY <1>1, CoordinatorKeepsOpen
  <2> QED BY <1>0, <2>1, <2>2, <2>3 DEF workerVars, SubmissionInv
<1>2. ASSUME NEW w \in Workers, Work(w) \/ Stop(w) \/ Crash(w)
      PROVE  SubmissionInv'
  <2>1. pc[w] \notin {"idle", "down"} => job[w] \in Jobs
    BY BusyJob DEF Base
  <2>2. ASSUME NEW i \in Jobs, Takes(w, i) PROVE SubmissionInv'
    <3>1. /\ attempts'[i] = attempts[i] + 1 /\ status'[i] \in Live
          /\ \A j \in Jobs \ {i} : attempts'[j] = attempts[j] /\ status'[j] = status[j]
          /\ attempts[i] \in Nat
      BY <2>2 DEF Takes, Claim, Lease, Live, Base, QueueInv, QueueTypeOK
    <3>2. i \in Submissions => starts[i] = 0 /\ \A v \in Workers : job[v] # i
      BY <2>2, ClaimIsFirst
    <3>3. /\ job'[w] = i /\ starts' = starts
          /\ \A v \in Workers \ {w} : pc'[v] = pc[v] /\ job'[v] = job[v]
      BY <2>2 DEF Takes, OnlyWorker
    <3> QED BY <1>0, <3>1, <3>2, <3>3 DEF SubmissionInv
  <2>3. ASSUME Starts(w) PROVE SubmissionInv'
    <3>1. job[w] \in Jobs /\ attempts[job[w]] # 0 /\ starts[job[w]] \in Nat
      BY <2>1, <2>3 DEF Starts, Base, Working, TypeOK, QueueInv, QueueTypeOK
    <3>2. /\ starts'[job[w]] = starts[job[w]] + 1
          /\ \A j \in Jobs \ {job[w]} : starts'[j] = starts[j]
          /\ UNCHANGED <<status, attempts, cancellations>>
          /\ \A v \in Workers : /\ job'[v] = job[v]
                                /\ v # w => pc'[v] = pc[v]
                                /\ pc'[w] \notin Early
      BY <2>3, <3>1 DEF Starts, GoesOn, OnlyWorker, queueVars, rowVars, Base, TypeOK
    <3>3. job[w] \in Submissions => starts[job[w]] = 0
      BY <2>3 DEF Starts, SubmissionInv, Early
    <3> QED BY <3>1, <3>2, <3>3 DEF SubmissionInv, Early
  <2>7. ASSUME Checks(w) PROVE SubmissionInv'
    BY <1>0, <2>7 DEF Checks, GoesOn, OnlyWorker, queueVars, rowVars, SubmissionInv, Early
  <2>4. ASSUME Eases, starts' = starts,
               \/ Forgets(w)
               \/ GoesOn(w) /\ pc'[w] \notin Early
               \/ OnlyWorker(w) /\ UNCHANGED <<pc, job, lease>>,
               \A j \in Jobs : status'[j] = status[j] \/ (j = job[w] /\ pc'[w] \notin Early)
        PROVE  SubmissionInv'
    <3>1. \A v \in Workers : /\ job'[v] # NoJob => job'[v] = job[v]
                             /\ pc'[v] \in Early => pc'[v] = pc[v]
      BY <2>4 DEF Forgets, GoesOn, OnlyWorker, Early
    <3>2. \A j \in Jobs : attempts'[j] = attempts[j]
      BY <2>4 DEF Eases
    <3> QED BY <1>0, <2>4, <3>1, <3>2 DEF SubmissionInv, Early
  <2>5. CASE Stores(w) \/ Ends(w)
    <3>1. Eases /\ starts' = starts
      BY <2>1, <2>5, EndingEases DEF Stores, Ends, Base
    <3>2. \A j \in Jobs \ {job[w]} : status'[j] = status[j]
      BY <2>1, <2>5 DEF Stores, Ends, CompleteWithResult, Cancel, CancelRow, Fail, Release,
         Base, QueueInv, QueueTypeOK
    <3>3. pc'[w] \notin Early /\ (Forgets(w) \/ GoesOn(w))
      BY <2>5 DEF Stores, Ends, Forgets, Early
    <3> QED BY <2>4, <3>1, <3>2, <3>3
  <2>6. CASE Tells(w)
    <3>1. Eases /\ status' = status /\ starts' = starts
      BY <2>6, TellingEases DEF Tells, Heartbeat, RecordFailure, FailureUnrecorded, queueVars, rowVars,
         Eases, Base
    <3> QED BY <2>4, <2>6, <3>1 DEF Tells
  <2> QED BY <1>2, <2>2, <2>3, <2>5, <2>6, <2>7, WorkKinds
<1>3. CASE UNCHANGED vars
  BY <1>3 DEF vars, workerVars, queueVars, rowVars, SubmissionInv
<1> QED BY <1>1, <1>2, <1>3, NextKinds

LEMMA SubmissionInvariant ==
  Spec => [](Base /\ HolderIsWorking /\ CallsRecorded /\ SubmissionInv)
<1>1. Init => CallsRecorded /\ SubmissionInv
  BY QueueAssumption, WorkerAssumption DEF Init, QueueInit, CallsRecorded, SubmissionInv
<1>2. Base /\ CallsRecorded /\ [Next]_vars => CallsRecorded'
  BY NextIsQueueStep, CallsStep DEF Base
<1> QED BY <1>1, <1>2, SubmissionStep, BaseInvariant, PTL DEF Spec

\* A step of the queue moves one row at most: in, within Live, or to its end.
Moves ==
  \/ UNCHANGED status
  \/ \E i \in Jobs, s \in Live \cup Terminal :
       /\ status' = [status EXCEPT ![i] = s]
       /\ status[i] = "absent" => s \in Live
       /\ status[i] \in {"absent"} \cup Live

LEMMA QueueStepMoves ==
  ASSUME QueueInv, [QueueNext]_queueVars
  PROVE  Moves
<1> USE DEF Live, Terminal
<1>1. ASSUME NEW j \in Jobs, JobStep(j) PROVE Moves
  BY <1>1 DEF JobStep, RunAfterPasses, LeaseExpires, Enqueue, RecordFailure, FailureUnrecorded,
     Cancel, CancelRow, CancelRead, Release, rowVars, Moves
<1>2. ASSUME NEW j \in Jobs, NEW w \in Workers, WorkerStep(j, w) PROVE Moves
  <2>1. lockedBy[j] = w => status[j] = "running"
    BY LockedIsRunning
  <2> QED BY <1>2, <2>1 DEF WorkerStep, Claim, Claimable, ClaimById, Lease, Heartbeat, Holds, Complete,
         CompleteWithResult, Fail, Release, rowVars, Moves
<1>3. ASSUME NEW c \in cancelCalls, CancelStep(c) PROVE Moves
  <2>1. c.job \in Jobs
    BY DEF QueueInv, QueueTypeOK, CancelCall
  <2> QED BY <1>3, <2>1 DEF CancelStep, CancelRecord, CancelApply, CancelDies, CancelRow, Release,
         rowVars, Moves
<1>4. CASE UNCHANGED queueVars
  BY <1>4 DEF queueVars, rowVars, Moves
<1> QED BY <1>1, <1>2, <1>3, <1>4 DEF QueueNext

LEMMA PromiseInitially == Init => Promise!Init
<1> SUFFICES ASSUME Init PROVE Promise!Init
  OBVIOUS
<1>1. \A j \in Submissions : Phase(j) = "new"
  BY QueueAssumption DEF Init, QueueInit, Phase, Live, Terminal
<1>2. OnlySubmissions(starts) = [j \in Submissions |-> 0]
  BY QueueAssumption DEF Init, OnlySubmissions
<1> QED BY <1>1, <1>2 DEF Promise!Init

\* A step that starts nothing and moves no submission past its worker's check
\* or back, or moves only the row, hands a submission in or settles it at most.
LEMMA RowsKeepPromise ==
  ASSUME Base, Moves, OnlySubmissions(starts)' = OnlySubmissions(starts),
         \A j \in Submissions : PastCheck(j)' <=> PastCheck(j)
  PROVE  [Promise!Next]_<<[j \in Submissions |-> Phase(j)], OnlySubmissions(starts)>>
<1> USE QueueAssumption
<1> DEFINE phase == [j \in Submissions |-> Phase(j)]
<1>1. CASE UNCHANGED status
  <2>1. \A j \in Submissions : Phase(j)' = Phase(j)
    BY <1>1 DEF Phase
  <2> QED BY <2>1
<1>2. ASSUME NEW i \in Jobs, NEW s \in Live \cup Terminal,
             status' = [status EXCEPT ![i] = s],
             status[i] = "absent" => s \in Live, status[i] \in {"absent"} \cup Live
      PROVE  [Promise!Next]_<<phase, OnlySubmissions(starts)>>
  <2>1. status'[i] = s /\ \A j \in Jobs \ {i} : status'[j] = status[j]
    BY <1>2 DEF Base, QueueInv, QueueTypeOK
  <2>2. \A j \in Submissions \ {i} : Phase(j)' = Phase(j)
    BY <2>1 DEF Phase
  <2>3. CASE i \notin Submissions \/ Phase(i)' = Phase(i)
    <3>1. phase' = phase
      BY <2>2, <2>3
    <3> QED BY <3>1
  <2>4. ASSUME i \in Submissions, NEW p, Phase(i)' = p PROVE phase' = [phase EXCEPT ![i] = p]
    BY <2>2, <2>4
  <2>5. CASE i \in Submissions /\ status[i] = "absent"
    <3>1. status'[i] \in Live /\ status'[i] # "absent"
      BY <1>2, <2>1, <2>5 DEF Live
    <3>3. Phase(i)' = "open" /\ Phase(i) = "new"
      BY <2>5, <3>1 DEF Phase, Live, Terminal
    <3>2. Promise!HandIn(i)
      BY <2>4, <2>5, <3>3 DEF Promise!HandIn
    <3> QED BY <2>5, <3>2 DEF Promise!Next
  <2>6. CASE i \in Submissions /\ status[i] \in Live /\ Phase(i)' # Phase(i)
    <3>1. Phase(i)' = "settled" /\ Phase(i) = "open"
      BY <1>2, <2>1, <2>6 DEF Phase, Live, Terminal
    <3>2. Promise!Settle(i)
      BY <2>4, <2>6, <3>1 DEF Promise!Settle
    <3> QED BY <2>6, <3>2 DEF Promise!Next
  <2> QED BY <1>2, <2>3, <2>5, <2>6
<1> QED BY <1>1, <1>2 DEF Moves

\* A step of the worker that is past the check of a submission settles it at
\* most, whether the handler starts or not.
LEMMA PastCheckLeaves ==
  ASSUME Base, SubmissionInv, NEW w \in Workers, pc[w] = "starting", OnlyWorker(w),
         UNCHANGED status, pc'[w] # "starting", NEW j, job[w] = j
  PROVE  /\ \A i \in Submissions \ {j} : Phase(i)' = Phase(i)
         /\ j \in Submissions => Phase(j) = "open" /\ Phase(j)' \in {"open", "settled"}
<1> USE QueueAssumption
<1>1. status[j] # "absent"
  BY BusyJob DEF Base, Working, QueueInv, AttemptsBounded, QueueTypeOK, TypeOK
<1>2. \A i \in Submissions \ {j} : PastCheck(i)' <=> PastCheck(i)
  BY DEF PastCheck, OnlyWorker
<1>3. \A i \in Submissions \ {j} : Phase(i)' = Phase(i)
  BY <1>2 DEF Phase
<1>6. j \in Submissions => status[j] \in Live \cup Terminal
  BY <1>1 DEF Base, QueueInv, QueueTypeOK, Live, Terminal
<1>4. PastCheck(j) /\ status'[j] = status[j]
  BY DEF PastCheck
<1>5. ASSUME j \in Submissions
      PROVE  Phase(j) = "open" /\ Phase(j)' \in {"open", "settled"}
  <2>1. status[j] \in Live \/ (status[j] \in Terminal /\ PastCheck(j))
    BY <1>4, <1>5, <1>6
  <2>2. Phase(j) = "open"
    BY <1>1, <2>1 DEF Phase
  <2>3. status'[j] # "absent"
    BY <1>1, <1>4
  <2>4. Phase(j)' \in {"open", "settled"}
    <3>1. CASE status'[j] \in Live \/ (status'[j] \in Terminal /\ PastCheck(j)')
      BY <2>3, <3>1 DEF Phase
    <3>2. CASE ~(status'[j] \in Live \/ (status'[j] \in Terminal /\ PastCheck(j)'))
      BY <2>3, <3>2 DEF Phase
    <3> QED BY <3>1, <3>2
  <2> QED BY <2>2, <2>4
<1> QED BY <1>3, <1>5

LEMMA PromiseStep ==
  ASSUME Base, HolderIsWorking, CallsRecorded, SubmissionInv, [Next]_vars
  PROVE  [Promise!Next]_<<[j \in Submissions |-> Phase(j)], OnlySubmissions(starts)>>
<1> USE QueueAssumption
<1> DEFINE phase == [j \in Submissions |-> Phase(j)]
           Kept == [Promise!Next]_<<phase, OnlySubmissions(starts)>>
<1>0. Moves
  BY NextIsQueueStep, QueueStepMoves DEF Base
<1>1. ASSUME starts' = starts, \A j \in Submissions : PastCheck(j)' <=> PastCheck(j)
      PROVE  Kept
  <2>1. OnlySubmissions(starts)' = OnlySubmissions(starts)
    BY <1>1 DEF OnlySubmissions
  <2> QED BY <1>0, <1>1, <2>1, RowsKeepPromise
<1>2. CASE Coordinator
  BY <1>1, <1>2, CoordinatorKinds DEF workerVars, PastCheck
<1>3. ASSUME NEW w \in Workers, Work(w) \/ Stop(w) \/ Crash(w)
      PROVE  Kept
  <2>1. pc[w] \notin {"idle", "down"} => job[w] \in Jobs
    BY BusyJob DEF Base
  <2> PICK j : job[w] = j
    OBVIOUS
  <2>2. CASE Checks(w)
    <3>1. OnlySubmissions(starts)' = OnlySubmissions(starts)
      BY <2>2 DEF Checks, OnlySubmissions
    <3>2. \A i \in Submissions : Phase(i)' = Phase(i)
      <4> SUFFICES ASSUME NEW i \in Submissions PROVE Phase(i)' = Phase(i)
        OBVIOUS
      <4>1. CASE i = j
        <5>1. status[i] \in Live /\ status'[i] = status[i]
          BY <2>2, <4>1 DEF Checks, SubmissionInv, queueVars, rowVars
        <5> QED BY <5>1 DEF Phase
      <4>2. CASE i # j
        <5>1. PastCheck(i)' <=> PastCheck(i)
          BY <2>2, <4>2 DEF Checks, GoesOn, OnlyWorker, PastCheck
        <5> QED BY <2>2, <5>1 DEF Checks, queueVars, rowVars, Phase
      <4> QED BY <4>1, <4>2
    <3>3. phase' = phase
      BY <3>2
    <3> QED BY <3>1, <3>3
  <2>3. CASE Starts(w)
    <3>1. /\ \A i \in Submissions \ {j} : Phase(i)' = Phase(i)
          /\ j \in Submissions => Phase(j) = "open" /\ Phase(j)' \in {"open", "settled"}
      BY <2>3, PastCheckLeaves DEF Starts, GoesOn, Early, queueVars, rowVars
    <3>2. starts' = [starts EXCEPT ![j] = @ + 1]
      BY <2>3 DEF Starts
    <3>3. CASE j \in Submissions
      <4>1. starts[j] = 0
        BY <2>3, <3>3 DEF Starts, SubmissionInv, Early
      <4>2. OnlySubmissions(starts)' = [OnlySubmissions(starts) EXCEPT ![j] = 1]
        <5>1. starts'[j] = 1 /\ \A i \in Submissions \ {j} : starts'[i] = starts[i]
          BY <3>2, <3>3, <4>1 DEF Base, TypeOK
        <5> QED BY <3>3, <5>1 DEF OnlySubmissions
      <4>3. phase' \in {phase, [phase EXCEPT ![j] = "settled"]}
        <5>1. CASE Phase(j)' = "open"
          BY <3>1, <3>3, <5>1
        <5>2. CASE Phase(j)' = "settled"
          BY <3>1, <3>3, <5>2
        <5> QED BY <3>1, <3>3, <5>1, <5>2
      <4>4. phase[j] = "open" /\ OnlySubmissions(starts)[j] = 0
        BY <3>1, <3>3, <4>1 DEF OnlySubmissions
      <4>5. Promise!Start(j)
        BY <4>2, <4>3, <4>4 DEF Promise!Start
      <4> QED BY <3>3, <4>5 DEF Promise!Next
    <3>4. CASE j \notin Submissions
      <4>1. OnlySubmissions(starts)' = OnlySubmissions(starts)
        BY <2>1, <3>2, <3>4 DEF OnlySubmissions, Base, TypeOK
      <4>2. phase' = phase
        BY <3>1, <3>4
      <4> QED BY <4>1, <4>2
    <3> QED BY <3>3, <3>4
  <2>4. CASE Tells(w) /\ pc[w] = "starting"
    <3>1. OnlySubmissions(starts)' = OnlySubmissions(starts)
      BY <2>4 DEF Tells, OnlySubmissions
    <3>2. /\ \A i \in Submissions \ {j} : Phase(i)' = Phase(i)
          /\ j \in Submissions => Phase(j) = "open" /\ Phase(j)' \in {"open", "settled"}
      BY <2>4, PastCheckLeaves DEF Tells, Forgets, queueVars, rowVars
    <3>3. CASE j \notin Submissions \/ Phase(j)' = "open"
      <4>1. phase' = phase
        BY <3>2, <3>3
      <4> QED BY <3>1, <4>1
    <3>4. CASE j \in Submissions /\ Phase(j)' = "settled"
      <4>1. phase' = [phase EXCEPT ![j] = "settled"] /\ phase[j] = "open"
        BY <3>2, <3>4
      <4>2. Promise!Settle(j)
        BY <3>1, <4>1 DEF Promise!Settle
      <4> QED BY <3>4, <4>2 DEF Promise!Next
    <3> QED BY <3>2, <3>3, <3>4
  <2>5. ASSUME starts' = starts, pc[w] # "starting",
               \A v \in Workers \ {w} : pc'[v] = pc[v] /\ job'[v] = job[v],
               pc'[w] # "starting"
        PROVE  Kept
    <3>1. \A i \in Submissions : PastCheck(i)' <=> PastCheck(i)
      BY <2>5 DEF PastCheck
    <3> QED BY <1>1, <2>5, <3>1
  <2>6. CASE \/ Stores(w) \/ Ends(w) \/ \E i \in Jobs : Takes(w, i)
             \/ Tells(w) /\ pc[w] # "starting"
    BY <2>5, <2>6 DEF Takes, Stores, Ends, Tells, GoesOn, Forgets, OnlyWorker, Early
  <2> QED BY <1>3, <2>2, <2>3, <2>4, <2>6, WorkKinds
<1>4. CASE UNCHANGED vars
  BY <1>1, <1>4 DEF vars, workerVars, PastCheck
<1> QED BY <1>2, <1>3, <1>4, NextKinds

\* A submission is handed in once, its handler starts at most once, never after
\* the job was settled when its worker looked for a cancellation, and it stays
\* settled: docs/browser-worker.md:5, worker-runtime.ts:24-27.
THEOREM SubmissionsKeepPromise == Spec => SubmissionsAtMostOnce
<1>1. Base /\ HolderIsWorking /\ CallsRecorded /\ SubmissionInv /\ [Next]_vars
        => [Promise!Next]_<<[j \in Submissions |-> Phase(j)], OnlySubmissions(starts)>>
  BY PromiseStep
<1> QED BY <1>1, PromiseInitially, SubmissionInvariant, PTL DEF Spec, SubmissionsAtMostOnce, Promise!Spec

=============================================================================
