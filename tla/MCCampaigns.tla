----------------------------- MODULE MCCampaigns -----------------------------
(* One scheduled campaign with a daily limit of one, two postings and up to *)
(* two runs at a time, over two days of one minute each: a limit is met, a  *)
(* lock lapses under a run, and a day ends in the middle of it.             *)
EXTENDS Campaigns, TLC

CONSTANTS c1, p1, p2, r1, r2

Setting(state, scheduled, mode, perRun, perDay) ==
  [state |-> state, scheduled |-> scheduled, mode |-> mode, perRun |-> perRun, perDay |-> perDay]

MCIds == {c1}
MCSettings == {Setting("enabled", TRUE, "prepare_and_review", 2, 1)}
MCPostings == {p1, p2}
MCRuns == {r1, r2}
MCSlots == {0}
MCSymmetry == Permutations(MCRuns) \cup Permutations(MCPostings)
=============================================================================
