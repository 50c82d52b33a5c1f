---------------------------- MODULE FrameChannel ----------------------------
(***************************************************************************)
(* What the session promises for the frames of the hub, whatever the       *)
(* network does: one that was not sent never arrives, and one that was     *)
(* arrives at most once, in any order or never.                            *)
(***************************************************************************)
EXTENDS Sequences, Naturals

VARIABLES
  sent,     \* the frames sent
  got       \* the frames that arrived, in the order they did

Arrived == {got[i] : i \in 1..Len(got)}

Init == sent = {} /\ got = <<>>

Send == sent \subseteq sent' /\ UNCHANGED got

Deliver == \E f \in sent \ Arrived : got' = Append(got, f) /\ UNCHANGED sent

Next == Send \/ Deliver

Spec == Init /\ [][Next]_<<sent, got>>
=============================================================================
