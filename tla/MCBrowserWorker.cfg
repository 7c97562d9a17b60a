CONSTANTS
  j1 = j1
  j2 = j2
  w1 = w1
  w2 = w2
  NoWorker = NoWorker
  NoJob = NoJob
  Jobs <- MCJobs
  Submissions <- MCSubmissions
  AttemptOptions <- MCThreeAttempts
  Workers <- MCWorkers
  Crashable <- MCWorkers
  Stoppable <- MCWorkers
SPECIFICATION MCSpec
INVARIANTS
  ResultOfLatestAttempt
  HolderIsWorking
  AnswersAreTrue
PROPERTIES
  UsesQueue
  JobsSettle
  SubmissionsAtMostOnce
CHECK_DEADLOCK FALSE
