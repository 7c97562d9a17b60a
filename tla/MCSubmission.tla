---------------------------- MODULE MCSubmission ----------------------------
EXTENDS Submission, TLC

CONSTANTS r1, r2, c1, c2, f1, f2, v1, v2, none

MCOneRequest == {r1}
MCTwoRequests == {r1, r2}
MCOneCall == {c1}
MCTwoCalls == {c1, c2}
MCOneForm == {f1}
MCTwoForms == {f1, f2}
MCOneValue == {v1}
MCTwoValues == {v1, v2}
MCNothing == none

\* The calls differ in what they run only; so do forms and values.
MCSymmetry == Permutations(MCTwoCalls) \cup Permutations(MCTwoRequests)
=============================================================================
