---------------------------- MODULE ReplayWindow ----------------------------
(***************************************************************************)
(* The replay window of a session (bb_replay_t, bb_replay_check): the      *)
(* highest sequence number accepted, and which of the Width numbers up to  *)
(* it were accepted. The bit mask is the set of its bits, bit i for        *)
(* top - i.                                                                *)
(***************************************************************************)
EXTENDS Integers

CONSTANT Width    \* bits of bb_replay_t.bits

ASSUME WidthAssumption == Width \in Nat \ {0}

Window == [top : Nat, bits : SUBSET (0..Width - 1)]

EmptyWindow == [top |-> 0, bits |-> {}]

\* A window that only knows how far it has come.
AcceptsAnyInside(w, seq) == seq > w.top \/ (seq > 0 /\ w.top - seq < Width)

\* Is the number above the window, or inside it and not seen? 0 is never valid.
Accepts(w, seq) ==
  \/ seq > w.top
  \/ seq > 0 /\ w.top - seq < Width /\ (w.top - seq) \notin w.bits

\* The window once the number is accepted: it moves up to a higher one.
Accepted(w, seq) ==
  IF seq > w.top
  THEN [top |-> seq,
        bits |-> {0} \cup {i \in 0..Width - 1 : i - (seq - w.top) \in w.bits}]
  ELSE [w EXCEPT !.bits = @ \cup {w.top - seq}]
=============================================================================
