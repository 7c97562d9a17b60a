----------------------------- MODULE AtMostOnce -----------------------------
(***************************************************************************)
(* What docs/browser-worker.md promises of a final submission: it is       *)
(* handed in once, started at most once and only while it is open, and     *)
(* once it is settled it stays settled.  An item that is called off too    *)
(* late to be held back settles as it starts.                              *)
(***************************************************************************)
EXTENDS Naturals

CONSTANT Items

VARIABLES
  phase,  \* "new", "open" or "settled"
  starts  \* how often the handler of the item was started

Init ==
  /\ phase = [i \in Items |-> "new"]
  /\ starts = [i \in Items |-> 0]

HandIn(i) ==
  /\ phase[i] = "new"
  /\ phase' = [phase EXCEPT ![i] = "open"]
  /\ UNCHANGED starts

Start(i) ==
  /\ phase[i] = "open"
  /\ starts[i] = 0
  /\ starts' = [starts EXCEPT ![i] = 1]
  /\ phase' \in {phase, [phase EXCEPT ![i] = "settled"]}

Settle(i) ==
  /\ phase[i] = "open"
  /\ phase' = [phase EXCEPT ![i] = "settled"]
  /\ UNCHANGED starts

Next == \E i \in Items : HandIn(i) \/ Start(i) \/ Settle(i)

Spec == Init /\ [][Next]_<<phase, starts>>
=============================================================================
