----------------------------- MODULE SeenRing -----------------------------
(***************************************************************************)
(* The dedup ring as a component of its own: one operation,                *)
(* seen_check_and_add, called with any hash in any order. It implements    *)
(* the window of the last SeenSize distinct hashes (SeenWindow).           *)
(***************************************************************************)
EXTENDS DedupRing

CONSTANTS
  Hash,       \* the packet hashes
  Source,     \* where a recorded packet came from
  MaxLog      \* bound of the runs: records made before the ring is left alone

ASSUME SeenRingAssumption == NoHash \notin Hash /\ MaxLog \in Nat

VARIABLES
  ring,       \* the ring
  answer      \* what the last call returned

vars == <<ring, answer>>

Init == ring = EmptyRing /\ answer = <<>>

\* seen_check_and_add(m, hash), called for a packet that came from src.
CheckAndAdd(h, src) ==
  /\ Len(ring.log) < MaxLog
  /\ answer' = <<h, IF Seen(ring, h) THEN "dup" ELSE "new">>
  /\ ring' = SeenAdd(ring, h, src)

Next == \E h \in Hash, src \in Source : CheckAndAdd(h, src)

Spec == Init /\ [][Next]_vars
----------------------------------------------------------------------------
TypeOK ==
  /\ ring \in RingType(Hash, Source)
  /\ answer \in {<<>>} \cup (Hash \X {"new", "dup"})

\* The ring is correct at every moment: its slots are the tail of the log, and
\* no hash is recorded twice within SeenSize records (seen_check_and_add).
RingInv == RingOK(ring)

\* The hashes of the log, without their source.
HashLog(s) == [i \in 1..Len(s.log) |-> s.log[i].hash]
\* The ring implements the window of the last SeenSize distinct hashes: it
\* answers "dup" for exactly those, whatever the cursor's position.
Window == INSTANCE SeenWindow WITH log <- HashLog(ring)

ImplementsWindow == Window!Spec
============================================================================
