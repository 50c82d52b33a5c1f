---------------------------- MODULE SeenWindow ----------------------------
(***************************************************************************)
(* What the dedup ring of the repeater promises its callers, without the   *)
(* ring: a hash is answered "dup" exactly when it is among the last        *)
(* SeenSize hashes recorded, and a hash answered "new" is recorded.        *)
(***************************************************************************)
EXTENDS Naturals, Sequences

CONSTANTS
  SeenSize,   \* how many hashes are remembered (MESH_SEEN_SIZE)
  Hash        \* the packet hashes

VARIABLES
  log,        \* every hash recorded so far, oldest first
  answer      \* what the last call returned: <<hash, "new" or "dup">>, or <<>>

vars == <<log, answer>>

\* The hashes recorded within the last n records of l.
Recent(l, n) == {l[i] : i \in {j \in 1..Len(l) : j + n > Len(l)}}

Init == log = <<>> /\ answer = <<>>

Duplicate(h) ==
  /\ h \in Recent(log, SeenSize)
  /\ answer' = <<h, "dup">>
  /\ UNCHANGED log

Fresh(h) ==
  /\ h \notin Recent(log, SeenSize)
  /\ answer' = <<h, "new">>
  /\ log' = Append(log, h)

Next == \E h \in Hash : Duplicate(h) \/ Fresh(h)

Spec == Init /\ [][Next]_vars
============================================================================
