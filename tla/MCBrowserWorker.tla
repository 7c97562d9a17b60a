--------------------------- MODULE MCBrowserWorker --------------------------
(* A final submission or a retryable job, and two worker processes.         *)
EXTENDS BrowserWorker

CONSTANTS j1, j2, w1, w2

MCJobs == {j1, j2}
MCSubmissions == {j1}
MCWorkers == {w1, w2}
MCThreeAttempts == {3}

\* Either job, not both: every statement names one row, so jobs meet only in the
\* workers' hands, and a worker that is at another job is one that has not polled yet.
MCOneRow == \E j \in Jobs : \A i \in Jobs \ {j} : status[i] = "absent"
MCNext == Next /\ MCOneRow'
MCSpec == Init /\ [][MCNext]_vars /\ Fairness
=============================================================================
