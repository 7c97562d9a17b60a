---------------------------- MODULE MCBrowserPages ----------------------------
(* Two calls at a time, three connections, two tabs, one loss.                  *)
EXTENDS BrowserPages, TLC

CONSTANTS t1, t2
Symmetry == Permutations({t1, t2})
==============================================================================
