------------------------------ MODULE MCResumes ------------------------------
(* One resume that may be imported twice, one job, one key: two documents      *)
(* compete for the row, each rendered by up to two attempts.                    *)
EXTENDS Resumes
==============================================================================
