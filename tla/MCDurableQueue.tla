--------------------------- MODULE MCDurableQueue ---------------------------
(* The open queue with two jobs, one of them a submission, two workers and  *)
(* limits of one and two attempts.                                          *)
EXTENDS DurableQueue

CONSTANTS j1, j2, w1, w2

MCJobs == {j1, j2}
MCSubmissions == {j1}
MCWorkers == {w1, w2}
MCAttemptOptions == {1, 2}
=============================================================================
