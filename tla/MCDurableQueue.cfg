CONSTANTS
  j1 = j1
  j2 = j2
  w1 = w1
  w2 = w2
  NoWorker = NoWorker
  Jobs <- MCJobs
  Submissions <- MCSubmissions
  Workers <- MCWorkers
  AttemptOptions <- MCAttemptOptions
SPECIFICATION QueueSpec
INVARIANTS
  OneSubmissionAttempt
  ResultMatchesStatus
PROPERTIES
  TerminalIsFinal
  AttemptsFence
CHECK_DEADLOCK FALSE
