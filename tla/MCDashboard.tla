----------------------------- MODULE MCDashboard -----------------------------
(***************************************************************************)
(* The limits keep the proportion of the code's (a session may spend twice  *)
(* what the limiter grants in one window).  MCBound keeps two questions     *)
(* apart: the sessions of two tabs of one browser, one of which also edits  *)
(* the note, before anything is asked for; and the two doors to a           *)
(* submission, for a tab that signs in once.                                *)
(***************************************************************************)
EXTENDS Approvals

CONSTANTS t1, t2, b1
MCBrowserOf == [t \in {t1, t2} |-> b1]

MCSessions ==
  /\ requests = <<>> /\ ~paired
  /\ tabs[t2].version = None
  /\ tabs[t1].version # None => wire[t2] = None /\ minted <= 2
MCDoors ==
  /\ tabs[t2] = ClosedTab /\ wire[t2] = None
  /\ minted <= 2 /\ tabs[t1].version = None
MCBound == MCSessions \/ MCDoors
==============================================================================
