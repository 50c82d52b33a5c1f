----------------------------- MODULE DedupRing -----------------------------
(***************************************************************************)
(* The dedup ring of mesh.c as a value: SeenSize slots, a cursor, a linear *)
(* search. It is a value and not a machine, so that a handler which        *)
(* records several hashes (a received packet, the wake-up advert, a reply) *)
(* applies SeenAdd several times in one step, as the code does. SeenRing   *)
(* makes a machine of it; Mesh keeps one in the repeater's state.          *)
(*                                                                         *)
(* log is a history: every hash recorded, in order, with where it came     *)
(* from. The code keeps only slot (mc_mesh_t.seen) and idx (seen_idx).     *)
(***************************************************************************)
EXTENDS Integers, Sequences

CONSTANTS
  SeenSize,   \* MESH_SEEN_SIZE
  NoHash      \* what a slot holds before its first use

ASSUME SeenAssumption == SeenSize \in Nat \ {0}

Index == 0 .. SeenSize - 1

\* mesh_init: the whole of mc_mesh_t is cleared.
EmptyRing == [slot |-> [i \in Index |-> NoHash], idx |-> 0, log |-> <<>>]

\* A faulty search that stops before the last slot.
SeenButLast(s, h) == \E i \in 0 .. SeenSize - 2 : s.slot[i] = h

\* The linear search: is h in the ring?
Seen(s, h) == \E i \in Index : s.slot[i] = h

\* Two faulty cursors: one wraps a slot early, one never wraps.
NextIdxShort(i) == (i + 1) % (SeenSize - 1)
NextIdxNoWrap(i) == i + 1

\* The cursor after one more record.
NextIdx(i) == (i + 1) % SeenSize

\* seen_check_and_add when the hash is not present: record it at the cursor.
Record(s, h, src) ==
  [slot |-> [s.slot EXCEPT ![s.idx] = h],
   idx  |-> NextIdx(s.idx),
   log  |-> Append(s.log, [hash |-> h, src |-> src])]

\* A faulty ring that records a hash it already holds a second time.
SeenAddTwice(s, h, src) == Record(s, h, src)

\* seen_check_and_add, its effect: a hash already present leaves the ring alone.
SeenAdd(s, h, src) == IF Seen(s, h) THEN s ELSE Record(s, h, src)

----------------------------------------------------------------------------
LogEntry(H, S) == [hash : H, src : S]

RingType(H, S) ==
  [slot : [Index -> H \cup {NoHash}], idx : Index, log : Seq(LogEntry(H, S))]

\* The slot d records behind the cursor.
Behind(s, d) == IF d <= s.idx THEN s.idx - d ELSE s.idx - d + SeenSize

\* The ring is the tail of the log: the slot d behind the cursor holds the
\* d-th latest hash recorded, and the slots beyond the log are unused.
RingIsTail(s) ==
  \A d \in 1..SeenSize :
    s.slot[Behind(s, d)] =
      IF d <= Len(s.log) THEN s.log[Len(s.log) - d + 1].hash ELSE NoHash

\* A hash is recorded again only after SeenSize other records: between two
\* records of one hash the ring has turned over completely, so a packet is
\* acted on at most once while the ring remembers it (seen_check_and_add).
NoEarlyRepeat(s) ==
  \A i, j \in 1..Len(s.log) :
    i < j /\ s.log[i].hash = s.log[j].hash => j - i > SeenSize

RingOK(s) == RingIsTail(s) /\ NoEarlyRepeat(s)
============================================================================
