--------------------------- MODULE PolicyRegister ---------------------------
(***************************************************************************)
(* What the node promises of the hub's sets of rooms and blocks: one set   *)
(* is in force as a whole, it is replaced only by a later one, and what a  *)
(* restart brings back is a whole set that was in force.                   *)
(***************************************************************************)
EXTENDS Naturals

CONSTANT Content      \* the entries of each set the hub may publish, oldest first

VARIABLES
  inForce,    \* the set in force
  kept        \* the set a restart brings back

NoSet == [version |-> 0, entries |-> {}]

Init == inForce = NoSet /\ kept = NoSet

Apply ==
  /\ \E v \in DOMAIN Content :
       v > inForce.version /\ inForce' = [version |-> v, entries |-> Content[v]]
  /\ UNCHANGED kept

Keep == kept' = inForce /\ UNCHANGED inForce

Restart == inForce' = kept /\ UNCHANGED kept

Next == Apply \/ Keep \/ Restart

Spec == Init /\ [][Next]_<<inForce, kept>>
=============================================================================
