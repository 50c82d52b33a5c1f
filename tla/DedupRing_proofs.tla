-------------------------- MODULE DedupRing_proofs --------------------------
(***************************************************************************)
(* What the operators of the dedup ring preserve, for every size of ring   *)
(* and every set of hashes: the lemmas the proofs of SeenRing and of Mesh  *)
(* cite.                                                                   *)
(***************************************************************************)
EXTENDS DedupRing, TLAPS

(* The cursor stays in the ring, and wraps to 0 exactly at its end.        *)
LEMMA NextIdxWraps ==
  ASSUME NEW i \in Index
  PROVE  NextIdx(i) = IF i = SeenSize - 1 THEN 0 ELSE i + 1
<1>1. CASE i = SeenSize - 1
  BY <1>1, SeenAssumption DEF NextIdx, Index
<1>2. CASE i # SeenSize - 1
  BY <1>2, SeenAssumption DEF NextIdx, Index
<1>3. QED
  BY <1>1, <1>2

(* Counting back from the cursor never leaves the ring, and two different  *)
(* distances name two different slots.                                     *)
LEMMA BehindInRing ==
  ASSUME NEW s, s.idx \in Index, NEW d \in 1..SeenSize
  PROVE  Behind(s, d) \in Index
BY SeenAssumption DEF Behind, Index

(* Every slot is some distance behind the cursor.                          *)
LEMMA EverySlotIsBehind ==
  ASSUME NEW s, s.idx \in Index, NEW i \in Index
  PROVE  \E d \in 1..SeenSize : Behind(s, d) = i
<1>1. CASE i < s.idx
  <2>1. s.idx - i \in 1..SeenSize /\ Behind(s, s.idx - i) = i
    BY <1>1, SeenAssumption DEF Behind, Index
  <2>2. QED
    BY <2>1
<1>2. CASE i >= s.idx
  <2>1. s.idx - i + SeenSize \in 1..SeenSize /\ Behind(s, s.idx - i + SeenSize) = i
    BY <1>2, SeenAssumption DEF Behind, Index
  <2>2. QED
    BY <2>1
<1>3. QED
  BY <1>1, <1>2, SeenAssumption DEF Index

(* Recording keeps the ring well typed.                                    *)
LEMMA RecordType ==
  ASSUME NEW H, NEW S, NEW s \in RingType(H, S), NEW h \in H, NEW src \in S
  PROVE  Record(s, h, src) \in RingType(H, S)
<1>1. NextIdx(s.idx) \in Index
  BY NextIdxWraps, SeenAssumption DEF RingType, Index
<1>2. [s.slot EXCEPT ![s.idx] = h] \in [Index -> H \cup {NoHash}]
  BY DEF RingType
<1>3. Append(s.log, [hash |-> h, src |-> src]) \in Seq(LogEntry(H, S))
  BY DEF RingType, LogEntry
<1>4. QED
  BY <1>1, <1>2, <1>3 DEF Record, RingType

(* A ring that is the tail of its log holds h exactly when h is among the  *)
(* last SeenSize records.                                                  *)
LEMMA SeenIsRecent ==
  ASSUME NEW H, NEW S, NEW s \in RingType(H, S), RingIsTail(s), NEW h \in H, NoHash \notin H
  PROVE  Seen(s, h) <=>
           \E j \in 1..Len(s.log) : j + SeenSize > Len(s.log) /\ s.log[j].hash = h
<1> s.idx \in Index /\ Len(s.log) \in Nat
  BY DEF RingType
<1>1. ASSUME Seen(s, h)
      PROVE  \E j \in 1..Len(s.log) : j + SeenSize > Len(s.log) /\ s.log[j].hash = h
  <2>1. PICK i \in Index : s.slot[i] = h
    BY <1>1 DEF Seen
  <2>2. PICK d \in 1..SeenSize : Behind(s, d) = i
    BY EverySlotIsBehind
  <2>3. d <= Len(s.log) /\ s.log[Len(s.log) - d + 1].hash = h
    BY <2>1, <2>2, SeenAssumption DEF RingIsTail
  <2>4. /\ Len(s.log) - d + 1 \in 1..Len(s.log)
        /\ Len(s.log) - d + 1 + SeenSize > Len(s.log)
    BY <2>3, SeenAssumption
  <2>5. QED
    BY <2>3, <2>4
<1>2. ASSUME NEW j \in 1..Len(s.log), j + SeenSize > Len(s.log), s.log[j].hash = h
      PROVE  Seen(s, h)
  <2>1. Len(s.log) - j + 1 \in 1..SeenSize /\ Len(s.log) - j + 1 <= Len(s.log)
    BY <1>2, SeenAssumption
  <2>2. Len(s.log) - (Len(s.log) - j + 1) + 1 = j
    OBVIOUS
  <2>3. s.slot[Behind(s, Len(s.log) - j + 1)] = h
    BY <1>2, <2>1, <2>2 DEF RingIsTail
  <2>4. QED
    BY <2>1, <2>3, BehindInRing DEF Seen
<1>3. QED
  BY <1>1, <1>2

(* Recording a hash the ring does not hold keeps the ring the tail of its  *)
(* log.                                                                    *)
LEMMA RecordIsTail ==
  ASSUME NEW H, NEW S, NEW s \in RingType(H, S), RingIsTail(s), NEW h \in H, NEW src \in S
  PROVE  RingIsTail(Record(s, h, src))
<1> DEFINE t == Record(s, h, src)
<1>1. /\ s.idx \in Index
      /\ Len(s.log) \in Nat
      /\ s.log \in Seq(LogEntry(H, S))
      /\ s.slot \in [Index -> H \cup {NoHash}]
  BY DEF RingType
<1>2. /\ t.slot = [s.slot EXCEPT ![s.idx] = h]
      /\ t.idx = IF s.idx = SeenSize - 1 THEN 0 ELSE s.idx + 1
      /\ t.log = Append(s.log, [hash |-> h, src |-> src])
  BY <1>1, NextIdxWraps DEF Record
<1>3. /\ Len(t.log) = Len(s.log) + 1
      /\ t.log[Len(s.log) + 1].hash = h
      /\ \A k \in 1..Len(s.log) : t.log[k] = s.log[k]
  BY <1>1, <1>2 DEF LogEntry
<1> SUFFICES ASSUME NEW d \in 1..SeenSize
             PROVE  t.slot[Behind(t, d)] =
                      IF d <= Len(t.log) THEN t.log[Len(t.log) - d + 1].hash ELSE NoHash
  BY DEF RingIsTail
<1>4. CASE d = 1
  <2>1. Behind(t, d) = s.idx
    BY <1>1, <1>2, <1>4, SeenAssumption DEF Behind, Index
  <2>2. QED
    BY <1>1, <1>2, <1>3, <1>4, <2>1
<1>5. CASE d # 1
  <2>1. d - 1 \in 1..SeenSize /\ d - 1 < SeenSize
    BY <1>5, SeenAssumption
  <2>2. Behind(t, d) = Behind(s, d - 1) /\ Behind(t, d) # s.idx
    BY <1>1, <1>2, <1>5, SeenAssumption DEF Behind, Index
  <2>3. Behind(t, d) \in Index
    BY <1>1, <2>1, <2>2, BehindInRing
  <2>4. t.slot[Behind(t, d)] = s.slot[Behind(s, d - 1)]
    BY <1>1, <1>2, <2>2, <2>3
  <2>5. s.slot[Behind(s, d - 1)] =
          IF d - 1 <= Len(s.log) THEN s.log[Len(s.log) - (d - 1) + 1].hash ELSE NoHash
    BY <2>1 DEF RingIsTail
  <2>6. CASE d - 1 <= Len(s.log)
    <3>1. /\ Len(s.log) - (d - 1) + 1 = Len(t.log) - d + 1
          /\ Len(t.log) - d + 1 \in 1..Len(s.log)
          /\ d <= Len(t.log)
      BY <1>1, <1>3, <1>5, <2>6
    <3>2. QED
      BY <1>3, <2>4, <2>5, <2>6, <3>1
  <2>7. CASE ~(d - 1 <= Len(s.log))
    BY <1>1, <1>3, <2>4, <2>5, <2>7
  <2>8. QED
    BY <2>6, <2>7
<1>6. QED
  BY <1>4, <1>5

(* Recording a hash the ring does not hold repeats nothing too early.      *)
LEMMA RecordNoRepeat ==
  ASSUME NEW H, NEW S, NEW s \in RingType(H, S), RingOK(s), NEW h \in H, NEW src \in S,
         NoHash \notin H, ~Seen(s, h)
  PROVE  NoEarlyRepeat(Record(s, h, src))
<1> DEFINE t == Record(s, h, src)
<1>1. Len(s.log) \in Nat /\ s.log \in Seq(LogEntry(H, S))
  BY DEF RingType
<1>2. /\ Len(t.log) = Len(s.log) + 1
      /\ t.log[Len(s.log) + 1].hash = h
      /\ \A k \in 1..Len(s.log) : t.log[k] = s.log[k]
  BY <1>1 DEF Record, LogEntry
<1>3. \A j \in 1..Len(s.log) : s.log[j].hash = h => j + SeenSize <= Len(s.log)
  BY <1>1, SeenIsRecent, SeenAssumption DEF RingOK
<1> SUFFICES ASSUME NEW i \in 1..Len(t.log), NEW j \in 1..Len(t.log),
                    i < j, t.log[i].hash = t.log[j].hash
             PROVE  j - i > SeenSize
  BY DEF NoEarlyRepeat
<1>4. CASE j = Len(s.log) + 1
  <2>1. i \in 1..Len(s.log) /\ s.log[i].hash = h
    BY <1>1, <1>2, <1>4
  <2>2. QED
    BY <1>1, <1>3, <1>4, <2>1, SeenAssumption
<1>5. CASE j # Len(s.log) + 1
  <2>1. i \in 1..Len(s.log) /\ j \in 1..Len(s.log)
    BY <1>1, <1>2, <1>5
  <2>2. QED
    BY <1>2, <2>1 DEF RingOK, NoEarlyRepeat
<1>6. QED
  BY <1>4, <1>5

(* seen_check_and_add keeps the ring well typed and correct: the lemma the *)
(* handlers that record a hash cite.                                       *)
LEMMA SeenAddOK ==
  ASSUME NEW H, NEW S, NEW s \in RingType(H, S), RingOK(s), NEW h \in H, NEW src \in S,
         NoHash \notin H
  PROVE  SeenAdd(s, h, src) \in RingType(H, S) /\ RingOK(SeenAdd(s, h, src))
BY RecordType, RecordIsTail, RecordNoRepeat DEF SeenAdd, RingOK

(* A cleared ring is well typed and correct.                               *)
LEMMA EmptyRingOK ==
  ASSUME NEW H, NEW S
  PROVE  EmptyRing \in RingType(H, S) /\ RingOK(EmptyRing)
<1>1. EmptyRing \in RingType(H, S)
  BY SeenAssumption DEF EmptyRing, RingType, Index
<1>2. RingIsTail(EmptyRing)
  <2> SUFFICES ASSUME NEW d \in 1..SeenSize
               PROVE  EmptyRing.slot[Behind(EmptyRing, d)] = NoHash
    BY SeenAssumption DEF RingIsTail, EmptyRing
  <2>1. Behind(EmptyRing, d) \in Index
    BY <1>1, BehindInRing DEF RingType
  <2>2. QED
    BY <2>1 DEF EmptyRing
<1>3. NoEarlyRepeat(EmptyRing)
  BY DEF NoEarlyRepeat, EmptyRing
<1>4. QED
  BY <1>1, <1>2, <1>3 DEF RingOK
=============================================================================
