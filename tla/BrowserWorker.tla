--------------------------- MODULE BrowserWorker ----------------------------
(***************************************************************************)
(* The browser workers (apps/playwright-worker/src/worker-runtime.ts) and  *)
(* the coordinator that waits for them (waitForWorker in                   *)
(* apps/orchestrator/src/wuzzuf-tool-service.ts and LocalWorkerClient in   *)
(* worker-client.ts), composed with the queue they share.                  *)
(*                                                                         *)
(* A worker is one process: it runs one job at a time, its statements run  *)
(* one after the other and other processes run between any two of them.    *)
(* Its timers and signals fire only while it awaits its handler or is idle.*)
(***************************************************************************)
EXTENDS DurableQueue

CONSTANTS
  Crashable,  \* workers that may die at any point
  Stoppable,  \* workers that may receive SIGINT or SIGTERM
  NoJob

ASSUME WorkerAssumption ==
  /\ Crashable \subseteq Workers
  /\ Stoppable \subseteq Workers
  /\ NoJob \notin Jobs

VARIABLES
  pc,        \* where pollOnce() is in each worker
  job,       \* the job it works on
  lease,     \* ghost: the attempt number it claimed
  aborted,   \* controller.signal.aborted
  outcome,   \* what the handler did: "ok" or the kind of error it threw
  stopping,  \* the workers whose stop() was called
  answer,    \* what the coordinator told the caller who enqueued the job
  starts,    \* ghost: how often a handler was started for the job
  author     \* ghost: the attempt number whose result is stored, 0 if none

workerVars == <<pc, job, lease, aborted, outcome, stopping>>
vars == <<queueVars, workerVars, answer, starts, author>>

Errors == {"retryable", "fatal", "cancelled"}
Answers == {"none", "waiting", "ok", "failed", "cancelled", "abandoned"}
Steps == {"idle", "claimed", "starting", "handling", "completing", "catching",
          "recording", "down"}

TypeOK ==
  /\ QueueTypeOK
  /\ pc \in [Workers -> Steps]
  /\ job \in [Workers -> Jobs \cup {NoJob}]
  /\ lease \in [Workers -> Nat]
  /\ aborted \in [Workers -> BOOLEAN]
  /\ outcome \in [Workers -> {"ok"} \cup Errors]
  /\ stopping \subseteq Workers
  /\ answer \in [Jobs -> Answers]
  /\ starts \in [Jobs -> Nat]
  /\ author \in [Jobs -> Nat]

Init ==
  /\ QueueInit
  /\ pc = [w \in Workers |-> "idle"]
  /\ job = [w \in Workers |-> NoJob]
  /\ lease = [w \in Workers |-> 0]
  /\ aborted = [w \in Workers |-> FALSE]
  /\ outcome = [w \in Workers |-> "ok"]
  /\ stopping = {}
  /\ answer = [j \in Jobs |-> "none"]
  /\ starts = [j \in Jobs |-> 0]
  /\ author = [j \in Jobs |-> 0]

-----------------------------------------------------------------------------
(* The worker. *)

\* active.size, set in pollOnce() and cleared by its finally block.
Active(w) == job[w] # NoJob

\* The finally block: the worker forgets the job and polls again.
Finish(w) ==
  /\ pc' = [pc EXCEPT ![w] = "idle"]
  /\ job' = [job EXCEPT ![w] = NoJob]
  /\ lease' = [lease EXCEPT ![w] = 0]
  /\ aborted' = [aborted EXCEPT ![w] = FALSE]
  /\ outcome' = [outcome EXCEPT ![w] = "ok"]
  /\ UNCHANGED stopping

Goto(w, step) ==
  /\ pc' = [pc EXCEPT ![w] = step]
  /\ UNCHANGED <<job, lease, aborted, stopping>>

Throw(w, error) ==
  /\ Goto(w, "catching")
  /\ outcome' = [outcome EXCEPT ![w] = error]

\* Mutant: only queued rows are polled, expired leases never.
PollOnceQueuedOnly(w) ==
  /\ pc[w] = "idle"
  /\ w \notin stopping
  /\ \E j \in Jobs :
       /\ ClaimById(j, w)
       /\ job' = [job EXCEPT ![w] = j]
       /\ lease' = [lease EXCEPT ![w] = attempts[j] + 1]
  /\ pc' = [pc EXCEPT ![w] = "claimed"]
  /\ UNCHANGED <<aborted, outcome, stopping, answer, starts, author>>

PollOnce(w) ==
  /\ pc[w] = "idle"
  /\ w \notin stopping
  /\ ~Active(w)
  /\ \E j \in Jobs :
       /\ Claim(j, w)
       /\ job' = [job EXCEPT ![w] = j]
       /\ lease' = [lease EXCEPT ![w] = attempts[j] + 1]
  /\ pc' = [pc EXCEPT ![w] = "claimed"]
  /\ UNCHANGED <<aborted, outcome, stopping, answer, starts, author>>

\* Mutant: nobody looks at the cancellations before the handler.
CheckJobBlind(w) ==
  /\ pc[w] = "claimed"
  /\ Goto(w, "starting")
  /\ UNCHANGED <<outcome, queueVars, answer, starts, author>>

\* The first lines of the try block: a request is recorded, the type has no
\* handler, or the worker goes on.
CheckJob(w) ==
  /\ pc[w] = "claimed"
  /\ \/ job[w] \in cancellations /\ Throw(w, "cancelled")
     \/ job[w] \notin cancellations /\ Throw(w, "fatal")
     \/ job[w] \notin cancellations /\ Goto(w, "starting") /\ UNCHANGED outcome
  /\ UNCHANGED <<queueVars, answer, starts, author>>

\* The call of the handler.  progress() lies between it and the check: two
\* statements, before and between which another process may cancel the job.
\* What progress() answers is not looked at.
StartHandler(w) ==
  /\ pc[w] = "starting"
  /\ Goto(w, "handling")
  /\ starts' = [starts EXCEPT ![job[w]] = @ + 1]
  /\ UNCHANGED <<outcome, queueVars, answer, author>>

\* The interval timer: the heartbeat, then the look at the cancellations.
HeartbeatTimer(w) ==
  /\ pc[w] = "handling"
  /\ \/ Heartbeat(job[w], w)
     \/ ~Holds(job[w], w) /\ UNCHANGED queueVars
  /\ aborted' = [aborted EXCEPT ![w] =
       @ \/ ~Holds(job[w], w) \/ job[w] \in cancellations]
  /\ UNCHANGED <<pc, job, lease, outcome, stopping, answer, starts, author>>

\* The handler returns or throws.  Its progress() and heartbeat() throw a
\* retryable error once the lease is lost; throwIfAborted() throws what the
\* signal was aborted with, which is not a WorkerError and so not retryable.
HandlerEnds(w) ==
  /\ pc[w] = "handling"
  /\ \/ /\ ~aborted[w]
        /\ Goto(w, "completing")
        /\ UNCHANGED outcome
     \/ \E error \in {"retryable", "fatal"} : Throw(w, error)
  /\ UNCHANGED <<queueVars, answer, starts, author>>

\* Mutant: the result is stored although the lease was lost.
StoreResultUnfenced(w) ==
  /\ pc[w] = "completing"
  /\ status[job[w]] \in Live
  /\ Release(job[w], "completed")
  /\ result' = [result EXCEPT ![job[w]] = "completed"]
  /\ author' = [author EXCEPT ![job[w]] = lease[w]]
  /\ Finish(w)
  /\ UNCHANGED <<due, cancellations, failing, cancelCalls, answer, starts>>

StoreResult(w) ==
  /\ pc[w] = "completing"
  /\ \/ /\ CompleteWithResult(job[w], w)
        /\ author' = [author EXCEPT ![job[w]] = lease[w]]
        /\ Finish(w)
     \/ /\ ~Holds(job[w], w)
        /\ Throw(w, "retryable")
        /\ UNCHANGED <<queueVars, author>>
  /\ UNCHANGED <<answer, starts>>

CaughtCancelled(w) ==
  aborted[w] \/ job[w] \in cancellations \/ outcome[w] = "cancelled"

\* Mutant: an error that may not be retried is dropped.
CatchDropsError(w) ==
  /\ pc[w] = "catching"
  /\ \/ /\ CaughtCancelled(w)
        /\ \/ Cancel(job[w])
           \/ status[job[w]] \notin Live /\ UNCHANGED queueVars
     \/ /\ ~CaughtCancelled(w)
        /\ MayRetry(job[w], outcome[w] = "retryable")
        /\ Fail(job[w], w, TRUE)
     \/ /\ ~CaughtCancelled(w)
        /\ lockedBy[job[w]] # w \/ outcome[w] = "fatal"
        /\ UNCHANGED queueVars
  /\ Finish(w)
  /\ UNCHANGED <<answer, starts, author>>

\* The catch block: cancel() without a worker id, or fail().
Catch(w) ==
  /\ pc[w] = "catching"
  /\ \/ /\ CaughtCancelled(w)
        /\ \/ Cancel(job[w])
           \/ status[job[w]] \notin Live /\ UNCHANGED queueVars
        /\ Finish(w)
     \/ /\ ~CaughtCancelled(w)
        /\ Fail(job[w], w, outcome[w] = "retryable")
        /\ \/ MayRetry(job[w], outcome[w] = "retryable") /\ Finish(w)
           \/ /\ ~MayRetry(job[w], outcome[w] = "retryable")
              /\ Goto(w, "recording")
              /\ UNCHANGED outcome
     \/ /\ ~CaughtCancelled(w)
        /\ lockedBy[job[w]] # w
        /\ UNCHANGED queueVars
        /\ Finish(w)
  /\ UNCHANGED <<answer, starts, author>>

\* The INSERT of fail().
StoreFailure(w) ==
  /\ pc[w] = "recording"
  /\ RecordFailure(job[w])
  /\ Finish(w)
  /\ UNCHANGED <<answer, starts, author>>

\* stop(): no more polls, and the running handler's signal is aborted.
Stop(w) ==
  /\ w \in Stoppable \ stopping
  /\ pc[w] \in {"idle", "handling"}
  /\ stopping' = stopping \cup {w}
  /\ aborted' = [aborted EXCEPT ![w] = Active(w)]
  /\ UNCHANGED <<queueVars, pc, job, lease, outcome, answer, starts, author>>

Down(w) ==
  /\ pc' = [pc EXCEPT ![w] = "down"]
  /\ job' = [job EXCEPT ![w] = NoJob]
  /\ lease' = [lease EXCEPT ![w] = 0]
  /\ aborted' = [aborted EXCEPT ![w] = FALSE]
  /\ outcome' = [outcome EXCEPT ![w] = "ok"]
  /\ UNCHANGED <<stopping, answer, starts, author>>

\* The process ends once stop() has seen no active job.
Exit(w) ==
  /\ w \in stopping
  /\ pc[w] = "idle"
  /\ Down(w)
  /\ UNCHANGED queueVars

\* The process dies wherever it is; its lease stays in the row.  A restarted
\* worker has another pid and so another worker id.
Crash(w) ==
  /\ w \in Crashable
  /\ pc[w] # "down"
  /\ \/ pc[w] = "recording" /\ FailureUnrecorded(job[w])
     \/ pc[w] # "recording" /\ UNCHANGED queueVars
  /\ Down(w)

-----------------------------------------------------------------------------
(* The coordinator and the clock. *)

Answer(j, what) ==
  /\ answer' = [answer EXCEPT ![j] = what]
  /\ UNCHANGED <<workerVars, starts, author>>

\* Callers leave runAfter out, so the job is due at once.
Submit(j) ==
  /\ Enqueue(j)
  /\ j \in due'
  /\ Answer(j, "waiting")

\* Mutant: the request for a cancellation is taken for the cancellation.
PollResultEager(j) ==
  /\ answer[j] = "waiting"
  /\ \/ result[j] = "completed" /\ Answer(j, "ok")
     \/ result[j] = "failed" /\ Answer(j, "failed")
     \/ result[j] = "none" /\ j \in cancellations /\ Answer(j, "cancelled")
  /\ UNCHANGED queueVars

\* One turn of the polling loop that finds something.
PollResult(j) ==
  /\ answer[j] = "waiting"
  /\ \/ result[j] = "completed" /\ Answer(j, "ok")
     \/ result[j] = "failed" /\ Answer(j, "failed")
     \/ /\ result[j] = "none"
        /\ status[j] = "cancelled"
        /\ Answer(j, "cancelled")
  /\ UNCHANGED queueVars

\* The deadline passes, or the emergency stop is seen: a cancellation is
\* requested and the caller gets an error.
Abandon(j) ==
  /\ answer[j] = "waiting"
  /\ Answer(j, "abandoned")
  /\ \/ CancelRead(j)
     \/ status[j] \notin Live /\ UNCHANGED queueVars

\* requestCancellationAll() of an emergency stop or a data deletion, and the
\* statements of the requests in flight.
Environment ==
  /\ \/ \E j \in Jobs : CancelRead(j) \/ RunAfterPasses(j) \/ LeaseExpires(j)
     \/ \E c \in cancelCalls : CancelStep(c)
  /\ UNCHANGED <<workerVars, answer, starts, author>>

Work(w) ==
  \/ PollOnce(w)
  \/ CheckJob(w)
  \/ StartHandler(w)
  \/ HeartbeatTimer(w)
  \/ HandlerEnds(w)
  \/ StoreResult(w)
  \/ Catch(w)
  \/ StoreFailure(w)
  \/ Exit(w)

Next ==
  \/ \E w \in Workers : Work(w) \/ Stop(w) \/ Crash(w)
  \/ \E j \in Jobs : Submit(j) \/ PollResult(j) \/ Abandon(j)
  \/ Environment

Spec == Init /\ [][Next]_vars

\* A running worker keeps running and its handler ends (every browser call
\* has a timeout); an idle one polls by a timer; a request in flight is
\* carried on by its process; time passes.  Nobody has to crash, to stop, to
\* submit, to cancel or to give up waiting.
Fairness ==
  /\ \A w \in Workers :
       /\ WF_vars(PollOnce(w)) /\ WF_vars(CheckJob(w)) /\ WF_vars(StartHandler(w))
       /\ WF_vars(HandlerEnds(w)) /\ WF_vars(StoreResult(w))
       /\ WF_vars(Catch(w)) /\ WF_vars(StoreFailure(w))
  /\ \A j \in Jobs :
       /\ WF_vars(RunAfterPasses(j) /\ UNCHANGED <<workerVars, answer, starts, author>>)
       /\ WF_vars(LeaseExpires(j) /\ UNCHANGED <<workerVars, answer, starts, author>>)

FairSpec == Spec /\ Fairness

-----------------------------------------------------------------------------
(* Properties. *)

\* The stored result is the one of the latest attempt: a worker that lost
\* its lease and finishes late never stores the outcome of an older attempt,
\* and a completed job always has its result.
ResultOfLatestAttempt ==
  \A j \in Jobs :
    /\ author[j] # 0 => author[j] = attempts[j]
    /\ author[j] # 0 <=> status[j] = "completed"
    /\ author[j] # 0 <=> result[j] = "completed"

\* Whoever is in locked_by is working on that very attempt or is dead: a
\* worker never goes back to polling while a row still names it, which
\* would leave the job to nobody.
HolderIsWorking ==
  \A j \in Jobs, w \in Workers :
    lockedBy[j] = w =>
      pc[w] = "down" \/ (job[w] = j /\ lease[w] = attempts[j])

\* What the caller was told agrees with how the job ended, for good: the
\* coordinator reads the result and the status in separate statements.
AnswersAreTrue ==
  \A j \in Jobs :
    /\ answer[j] = "ok" => status[j] = "completed"
    /\ answer[j] = "failed" => status[j] = "failed"
    /\ answer[j] = "cancelled" => status[j] = "cancelled"

\* Every step of workers and coordinator is a step of the open queue, so all
\* that holds of QueueSpec holds here.
UsesQueue == QueueSpec

\* docs/browser-worker.md:5 "a hard maximum of one attempt": a submission
\* handler starts at most once, and never for a job that was settled before its
\* worker looked for a cancellation; crashes, lost leases and cancellations that
\* race the claim included.  A job is open until its row has ended and no worker
\* is past that look: a cancellation that comes between the look and the start
\* does not keep the handler from starting.
OnlySubmissions(f) == [j \in Submissions |-> f[j]]
PastCheck(j) == \E w \in Workers : pc[w] = "starting" /\ job[w] = j
Phase(j) ==
  CASE status[j] = "absent" -> "new"
    [] status[j] \in Live \/ (status[j] \in Terminal /\ PastCheck(j)) -> "open"
    [] OTHER -> "settled"
Promise == INSTANCE AtMostOnce
  WITH Items <- Submissions,
       phase <- [j \in Submissions |-> Phase(j)],
       starts <- OnlySubmissions(starts)
SubmissionsAtMostOnce == Promise!Spec

Orphaned(j) == \E w \in Workers : lockedBy[j] = w /\ pc[w] = "down"
LostForGood(j) == Orphaned(j) /\ attempts[j] >= maxAttempts[j]

\* docs/browser-worker.md:14 "expired retryable lease": as long as a worker is
\* left, every job ends, those a crashed worker was at included; the only
\* exception is the job whose last attempt the crash took (OrphansRecovered).
JobsSettle ==
  \A j \in Jobs :
    (status[j] # "absent") ~>
      \/ status[j] \in Terminal
      \/ LostForGood(j)
      \/ \A w \in Workers : pc[w] = "down" \/ w \in stopping

\* docs/browser-worker.md:15 "LEASED --> FAILED: terminal or one-attempt job":
\* the lease of a dead worker ends whatever attempt it was.
OrphansRecovered == \A j \in Jobs : Orphaned(j) ~> ~Orphaned(j)

\* docs/browser-worker.md:13 "LEASED --> CANCELLED: cancellation observed": a
\* leased job is cancelled only if somebody asked for it.
CancelledOnRequest ==
  [][\A j \in Jobs :
       status[j] # "cancelled" /\ status'[j] = "cancelled" => j \in cancellations]_vars
=============================================================================
