----------------------------- MODULE MCCatalogue -----------------------------
(***************************************************************************)
(* One posting spelt the clean way, two spellings of another, and searches  *)
(* that find either or both.  MCBound keeps three questions apart, each     *)
(* with the steps that bear on it: the lists somebody walks, before there   *)
(* are applications; the doors by which rows come in, and the applications  *)
(* of campaigns; the desk of one discovered posting of the second, whose    *)
(* applications are prepared, worked on and cancelled by overlapping calls. *)
(***************************************************************************)
EXTENDS Catalogue

CONSTANTS p1, p2, p3, c1, c2
MCClean == [p \in {p1, p2, p3} |-> IF p = p2 THEN p3 ELSE p]
MCBatches == {<<p1>>, <<p2, p1>>, <<p3>>}

MCNobodyPrepares ==
  /\ \A c \in Calls : calls[c] = NoCall
  /\ locks = {} /\ raced = {}
MCLists ==
  /\ MCNobodyPrepares /\ apps = <<>> /\ gestures <= 1
  /\ walk # NoWalk => tagged = {} /\ enabled
MCDoors ==
  /\ MCNobodyPrepares /\ walk = NoWalk /\ gestures = 0
  /\ \A a \in DOMAIN apps : apps[a].campaign
MCDesk ==
  /\ walk = NoWalk /\ clock <= 1 /\ tagged = {}
  /\ decided = [j \in Jobs |-> "none"]
  /\ \A j \in DOMAIN rows : rows[j].posting # p1
MCBound == MCLists \/ MCDoors \/ MCDesk
MCSymmetry == Permutations(Calls)
==============================================================================
