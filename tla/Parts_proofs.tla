---------------------------- MODULE Parts_proofs ----------------------------
(***************************************************************************)
(* The parts of MCParts, each for all values of its constants. The dedup   *)
(* ring is the tail of its log and implements SeenWindow. The ways into a  *)
(* TX node keep their limits: the hub's frames are bounded in any span of  *)
(* time, and a repeated datagram is acted on twice only while it is fresh  *)
(* and only after the ring has turned over. A node comes back with the     *)
(* settings it saved, or none are lost; and a node that only listens, and  *)
(* its identity, stay what they are over crashes. Every monitor gets every *)
(* event it asked for once, and is dropped only when it has closed.        *)
(***************************************************************************)
EXTENDS MCParts, DedupRing_proofs, Sx126x_proofs, Order_proofs, FunctionTheorems, FiniteSetTheorems

(* The inductive invariant of the ring as a component.                     *)
IInv == TypeOK /\ RingInv

LEMMA IInvInit == Init => IInv
BY EmptyRingOK DEF Init, IInv, TypeOK, RingInv

LEMMA IInvNext == IInv /\ [Next]_vars => IInv'
<1> SUFFICES ASSUME IInv, [Next]_vars
             PROVE  IInv'
  OBVIOUS
<1>1. ASSUME NEW h \in Hash, NEW src \in Source, CheckAndAdd(h, src)
      PROVE  IInv'
  <2>1. ring' \in RingType(Hash, Source) /\ RingOK(ring')
    BY <1>1, SeenAddOK, SeenRingAssumption DEF IInv, TypeOK, RingInv, CheckAndAdd
  <2>2. answer' \in {<<>>} \cup (Hash \X {"new", "dup"})
    BY <1>1 DEF CheckAndAdd
  <2>3. QED
    BY <2>1, <2>2 DEF IInv, TypeOK, RingInv
<1>2. CASE UNCHANGED vars
  BY <1>2 DEF vars, IInv, TypeOK, RingInv
<1>3. QED
  BY <1>1, <1>2 DEF Next

(* The ring and the answer keep their types (seen, seen_idx).              *)
THEOREM RingTypeCorrect == Spec => []TypeOK
<1>1. IInv => TypeOK
  BY DEF IInv
<1>2. QED
  BY IInvInit, IInvNext, <1>1, PTL DEF Spec

(* For every ring size: no hash is recorded twice within SeenSize records, *)
(* and the slots are exactly the tail of the log (seen_check_and_add).     *)
THEOREM RingCorrect == Spec => []RingInv
<1>1. IInv => RingInv
  BY DEF IInv
<1>2. QED
  BY IInvInit, IInvNext, <1>1, PTL DEF Spec
----------------------------------------------------------------------------
(* The hashes of a log are a sequence as long as the log.                  *)
LEMMA HashLogIsSeq ==
  ASSUME NEW s, s.log \in Seq(LogEntry(Hash, Source))
  PROVE  HashLog(s) \in Seq(Hash) /\ Len(HashLog(s)) = Len(s.log)
<1>1. Len(s.log) \in Nat
  OBVIOUS
<1>2. \A k \in 1..Len(s.log) : s.log[k].hash \in Hash
  <2> TAKE k \in 1..Len(s.log)
  <2>1. s.log[k] \in LogEntry(Hash, Source)
    BY <1>1, ElementOfSeq
  <2>2. QED
    BY <2>1 DEF LogEntry
<1>3. HashLog(s) \in [1..Len(s.log) -> Hash]
  BY <1>2 DEF HashLog
<1>4. HashLog(s) \in Seq(Hash)
  BY <1>1, <1>3, SeqDef
<1>5. QED
  BY <1>1, <1>3, <1>4, LenProperties

(* The log of hashes the mapping uses, one record longer.                  *)
LEMMA HashLogRecord ==
  ASSUME NEW s \in RingType(Hash, Source), NEW h \in Hash, NEW src \in Source
  PROVE  HashLog(Record(s, h, src)) = Append(HashLog(s), h)
<1> DEFINE t == Record(s, h, src)
<1>1. Len(s.log) \in Nat /\ s.log \in Seq(LogEntry(Hash, Source))
  BY DEF RingType
<1>2. /\ t.log \in Seq(LogEntry(Hash, Source))
      /\ Len(t.log) = Len(s.log) + 1
      /\ t.log[Len(s.log) + 1].hash = h
      /\ \A k \in 1..Len(s.log) : t.log[k] = s.log[k]
  BY <1>1 DEF Record, LogEntry
<1>3. /\ HashLog(s) \in Seq(Hash) /\ Len(HashLog(s)) = Len(s.log)
      /\ HashLog(t) \in Seq(Hash) /\ Len(HashLog(t)) = Len(t.log)
  BY <1>1, <1>2, HashLogIsSeq
<1>4. \A k \in 1..Len(t.log) : HashLog(t)[k] = Append(HashLog(s), h)[k]
  BY <1>1, <1>2, <1>3 DEF HashLog
<1>5. QED
  BY <1>1, <1>2, <1>3, <1>4, SeqEqual

(* The mapped window of recent hashes is what the linear search finds.     *)
LEMMA RecentIsSeen ==
  ASSUME NEW s \in RingType(Hash, Source), RingIsTail(s), NEW h \in Hash
  PROVE  h \in Window!Recent(HashLog(s), SeenSize) <=> Seen(s, h)
<1>1. Len(s.log) \in Nat /\ s.log \in Seq(LogEntry(Hash, Source))
  BY DEF RingType
<1>2. Len(HashLog(s)) = Len(s.log) /\ \A k \in 1..Len(s.log) : HashLog(s)[k] = s.log[k].hash
  BY <1>1 DEF HashLog
<1>3. QED
  BY <1>2, SeenIsRecent, SeenRingAssumption DEF Window!Recent

(* The ring implements the window: the initial ring is an empty window,    *)
(* and each call is a Duplicate or a Fresh step of it.                     *)
THEOREM RingImplementsWindow == Spec => ImplementsWindow
<1>1. Init => Window!Init
  BY DEF Init, EmptyRing, HashLog, Window!Init
<1>2. IInv /\ [Next]_vars => [Window!Next]_(Window!vars)
  <2> SUFFICES ASSUME IInv, [Next]_vars
               PROVE  [Window!Next]_(Window!vars)
    OBVIOUS
  <2>1. ASSUME NEW h \in Hash, NEW src \in Source, CheckAndAdd(h, src)
        PROVE  Window!Next
    <3>1. ring \in RingType(Hash, Source) /\ RingIsTail(ring)
      BY DEF IInv, TypeOK, RingInv, RingOK
    <3>2. CASE Seen(ring, h)
      BY <2>1, <3>1, <3>2, RecentIsSeen
      DEF CheckAndAdd, SeenAdd, Window!Next, Window!Duplicate
    <3>3. CASE ~Seen(ring, h)
      BY <2>1, <3>1, <3>3, RecentIsSeen, HashLogRecord
      DEF CheckAndAdd, SeenAdd, Window!Next, Window!Fresh
    <3>4. QED
      BY <3>2, <3>3
  <2>2. CASE UNCHANGED vars
    BY <2>2 DEF vars, Window!vars, HashLog
  <2>3. QED
    BY <2>1, <2>2 DEF Next
<1>3. Spec => Window!Spec
  BY <1>1, <1>2, IInvInit, IInvNext, PTL DEF Spec, Window!Spec
<1>4. QED
  BY <1>3, PTL DEF ImplementsWindow
----------------------------------------------------------------------------
(***************************************************************************)
(* The token bucket. What each frame let through since the i-th has cost,  *)
(* together with what is left in the bucket, is covered by a full bucket   *)
(* and what the highest rate has earned since the i-th was let through.    *)
(***************************************************************************)
Full == Cap(Top) * Minute
Earned(from, to) == (to - from) * RateOf(Top)

BucketInv ==
  /\ clock \in Nat \ {0} /\ rate \in Rates
  /\ bucket \in [tokens : Nat, at : Nat] /\ bucket.at <= clock /\ bucket.tokens <= Full
  /\ admitted \in Seq(Nat)
  /\ bucket.at = 0 => admitted = <<>>
  /\ \A i \in 1..Len(admitted) :
       /\ admitted[i] <= bucket.at
       /\ (Len(admitted) - i + 1) * Minute + bucket.tokens <= Full + Earned(admitted[i], bucket.at)
  /\ HubRate

(* The first n admissions of a list came no later than now, and what they   *)
(* spent, with what the bucket then holds, was there to be spent.           *)
Covered(list, n, now, left) ==
  \A i \in 1..n : /\ list[i] <= now
                  /\ (n - i + 1) * Minute + left <= Full + Earned(list[i], now)

(* A product distributes over a sum, and grows with its first factor.      *)
LEMMA Distributes ==
  ASSUME NEW a \in Int, NEW b \in Int, NEW c \in Int
  PROVE  (a + b) * c = a * c + b * c
OBVIOUS

LEMMA Grows ==
  ASSUME NEW a \in Nat, NEW b \in Nat, NEW c \in Nat, a <= b
  PROVE  /\ a * c <= b * c /\ c * a <= c * b
         /\ a * c \in Nat
<1>1. PICK d \in Nat : b = a + d
  <2>1. b - a \in Nat /\ b = a + (b - a)
    OBVIOUS
  <2>2. QED
    BY <2>1
<1>2. d * c \in Nat /\ a * c \in Nat /\ c * a = a * c /\ c * b = b * c
  OBVIOUS
<1>3. b * c = a * c + d * c
  BY <1>1, Distributes
<1>4. QED
  BY <1>2, <1>3

(* The highest rate has the largest bucket.                                *)
LEMMA RatesOrdered ==
  ASSUME NEW r \in Rates
  PROVE  /\ RateOf(r) \in Nat /\ RateOf(Top) \in Nat /\ Cap(r) \in Nat /\ Cap(Top) \in Nat
         /\ RateOf(r) <= RateOf(Top) /\ 1 <= Cap(r) /\ Cap(r) <= Cap(Top)
<1>1. r \in Nat /\ Top \in Nat /\ r <= Top
  BY IngressAssumption
<1>2. /\ RateOf(r) \in Nat /\ RateOf(Top) \in Nat /\ RateOf(r) <= RateOf(Top)
  BY <1>1 DEF RateOf
<1>3. RateOf(r) \div 3 \in Nat /\ RateOf(Top) \div 3 \in Nat /\ RateOf(r) \div 3 <= RateOf(Top) \div 3
  BY <1>2
<1>4. QED
  BY <1>2, <1>3 DEF Cap

(* A refill never exceeds the largest bucket, nor what was left and what   *)
(* the highest rate has earned since.                                      *)
LEMMA RefillBounded ==
  ASSUME NEW r \in Rates, NEW b \in [tokens : Nat, at : Nat], NEW t \in Nat, b.at <= t
  PROVE  /\ Refill(b, r, t) \in Nat /\ Refill(b, r, t) <= Full
         /\ b.at # 0 => Refill(b, r, t) <= b.tokens + Earned(b.at, t)
<1> DEFINE full == Cap(r) * Minute
           more == b.tokens + (t - b.at) * RateOf(r)
<1>1. /\ full \in Nat /\ full <= Full
  BY RatesOrdered, Grows, IngressAssumption DEF Full
<1>2. /\ (t - b.at) * RateOf(r) \in Nat
      /\ (t - b.at) * RateOf(r) <= Earned(b.at, t)
  <2>1. t - b.at \in Nat
    OBVIOUS
  <2>2. RateOf(r) \in Nat /\ RateOf(Top) \in Nat /\ RateOf(r) <= RateOf(Top)
    BY RatesOrdered
  <2>3. (t - b.at) * RateOf(r) \in Nat
    BY <2>1, <2>2
  <2>4. QED
    BY <2>1, <2>2, <2>3, Grows DEF Earned
<1>3. more \in Nat
  BY <1>2
<1>4. Full \in Nat /\ Earned(b.at, t) \in Int
  BY RatesOrdered, IngressAssumption DEF Full, Earned
<1>5. Refill(b, r, t) = IF b.at = 0 \/ more > full THEN full ELSE more
  BY DEF Refill
<1> HIDE DEF full, more
<1>6. more <= b.tokens + Earned(b.at, t)
  BY <1>2, <1>4 DEF more
<1>7. QED
  BY <1>1, <1>3, <1>4, <1>5, <1>6

(* What is earned adds up over adjoining spans.                            *)
LEMMA EarnedAdds ==
  ASSUME NEW a \in Nat, NEW b \in Nat, NEW c \in Nat
  PROVE  /\ Earned(a, b) \in Int /\ Earned(b, b) = 0
         /\ Earned(a, c) = Earned(a, b) + Earned(b, c)
<1>1. RateOf(Top) \in Nat
  BY RatesOrdered, IngressAssumption
<1>2. b - a \in Int /\ c - b \in Int /\ c - a = (b - a) + (c - b) /\ b - b = 0
  OBVIOUS
<1>3. (c - a) * RateOf(Top) = (b - a) * RateOf(Top) + (c - b) * RateOf(Top)
  BY <1>1, <1>2, Distributes
<1>4. QED
  BY <1>1, <1>2, <1>3 DEF Earned

(* What covers the costs and the old rest covers the costs and a new rest. *)
LEMMA Covers ==
  ASSUME NEW cost \in Int, NEW left \in Int, NEW rest \in Int, NEW full \in Int,
         NEW old \in Int, NEW new \in Int, cost + left <= full + old, rest <= left + new
  PROVE  cost + rest <= full + (old + new)
OBVIOUS

LEMMA BucketInit == IngressInit => BucketInv
<1> SUFFICES ASSUME IngressInit PROVE BucketInv
  OBVIOUS
<1>1. Full \in Nat
  BY RatesOrdered, IngressAssumption DEF Full
<1>2. QED
  BY <1>1, IngressAssumption DEF IngressInit, BucketInv, HubRate

(* A frame of the hub, let through or not.                                 *)
LEMMA BucketFrame ==
  ASSUME BucketInv, NEW f \in Frame, OnFrame(f)
  PROVE  BucketInv'
<1> DEFINE L == Len(admitted)
           R == Refill(bucket, rate, clock)
<1>1. /\ clock' = clock /\ rate' = rate
      /\ \/ bucket' = [tokens |-> R, at |-> clock] /\ admitted' = admitted
         \/ /\ R >= Minute
            /\ bucket' = [tokens |-> R - Minute, at |-> clock]
            /\ admitted' = Append(admitted, clock)
  <2>1. R \in Int /\ Minute \in Int
    BY RefillBounded, IngressAssumption DEF BucketInv
  <2>2. QED
    BY <2>1 DEF OnFrame
<1>2. /\ clock \in Nat \ {0} /\ rate \in Rates /\ L \in Nat
      /\ bucket \in [tokens : Nat, at : Nat] /\ bucket.at \in Nat /\ bucket.at <= clock
      /\ admitted \in Seq(Nat)
  BY DEF BucketInv
<1>3. /\ Minute \in Nat \ {0} /\ Full \in Nat /\ RateOf(Top) \in Nat
  BY RatesOrdered, IngressAssumption DEF Full
<1>4. /\ R \in Nat /\ R <= Full
      /\ bucket.at # 0 => R <= bucket.tokens + Earned(bucket.at, clock)
  BY <1>2, RefillBounded
<1>5. \A x, y \in Nat : Earned(x, y) \in Int
  BY EarnedAdds
<1>6. ASSUME NEW i \in 1..L
      PROVE  /\ admitted[i] \in Nat /\ admitted[i] <= clock
             /\ (L - i + 1) * Minute + R <= Full + Earned(admitted[i], clock)
  <2>1. /\ admitted[i] \in Nat /\ admitted[i] <= bucket.at /\ bucket.at # 0
        /\ (L - i + 1) * Minute + bucket.tokens <= Full + Earned(admitted[i], bucket.at)
    BY <1>2 DEF BucketInv
  <2>2. /\ Earned(admitted[i], clock) = Earned(admitted[i], bucket.at) + Earned(bucket.at, clock)
        /\ Earned(admitted[i], bucket.at) \in Int /\ Earned(bucket.at, clock) \in Int
    <3>1. PICK x \in Nat, y \in Nat, z \in Nat : x = admitted[i] /\ y = bucket.at /\ z = clock
      BY <1>2, <2>1
    <3>2. Earned(x, z) = Earned(x, y) + Earned(y, z) /\ Earned(x, y) \in Int /\ Earned(y, z) \in Int
      BY EarnedAdds
    <3>3. QED
      BY <3>1, <3>2
  <2>3. (L - i + 1) * Minute \in Int
    BY <1>2, <1>3
  <2>4. R <= bucket.tokens + Earned(bucket.at, clock)
    BY <1>4, <2>1
  <2> HIDE DEF L, R
  <2>5. /\ admitted[i] <= clock
        /\ (L - i + 1) * Minute + R <= Full + Earned(admitted[i], clock)
    <3>1. bucket.tokens \in Nat /\ admitted[i] <= clock
      BY <1>2, <2>1
    <3>2. (L - i + 1) * Minute + R
            <= Full + (Earned(admitted[i], bucket.at) + Earned(bucket.at, clock))
      BY <1>3, <1>4, <2>1, <2>2, <2>3, <2>4, <3>1, Covers
    <3>3. QED
      BY <2>2, <3>1, <3>2
  <2>6. QED
    BY <2>1, <2>5
<1> HIDE DEF R, L
<1>7. CASE bucket' = [tokens |-> R, at |-> clock] /\ admitted' = admitted
  <2>1. HubRate'
    BY <1>7 DEF BucketInv, HubRate
  <2>2. \A i \in 1..Len(admitted') :
          /\ admitted'[i] <= bucket'.at
          /\ (Len(admitted') - i + 1) * Minute + bucket'.tokens <= Full + Earned(admitted'[i], bucket'.at)
    BY <1>6, <1>7 DEF L
  <2>3. QED
    BY <1>1, <1>2, <1>4, <1>7, <2>1, <2>2 DEF BucketInv, Full, Earned
<1>8. CASE /\ R >= Minute
           /\ bucket' = [tokens |-> R - Minute, at |-> clock]
           /\ admitted' = Append(admitted, clock)
  <2>1. /\ admitted' \in Seq(Nat) /\ Len(admitted') = L + 1 /\ admitted'[L + 1] = clock
        /\ \A i \in 1..L : admitted'[i] = admitted[i]
    BY <1>2, <1>8 DEF L
  <2>2. R - Minute \in Nat /\ R - Minute <= Full /\ Earned(clock, clock) = 0 /\ 1 * Minute = Minute
    BY <1>2, <1>3, <1>4, <1>8, EarnedAdds
  <2>3. ASSUME NEW i \in 1..L + 1
        PROVE  /\ admitted'[i] <= clock
               /\ ((L + 1) - i + 1) * Minute + (R - Minute) <= Full + Earned(admitted'[i], clock)
    <3>1. CASE i = L + 1
      BY <1>2, <1>3, <1>4, <2>1, <2>2, <3>1
    <3>2. CASE i \in 1..L
      <4>1. ((L + 1) - i + 1) * Minute = (L - i + 1) * Minute + Minute
        <5>1. (L + 1) - i + 1 = (L - i + 1) + 1 /\ L - i + 1 \in Int
          BY <1>2, <3>2
        <5>2. QED
          BY <1>3, <2>2, <5>1, Distributes
      <4>2. (L - i + 1) * Minute \in Int
        BY <1>2, <1>3, <3>2
      <4>3. /\ admitted[i] \in Nat /\ admitted[i] <= clock
            /\ (L - i + 1) * Minute + R <= Full + Earned(admitted[i], clock)
            /\ Earned(admitted[i], clock) \in Int
        BY <1>2, <1>5, <1>6, <3>2
      <4>4. admitted'[i] = admitted[i]
        BY <2>1, <3>2
      <4>5. (L - i + 1) * Minute + Minute + (R - Minute) <= Full + Earned(admitted[i], clock)
        BY <1>3, <1>4, <4>2, <4>3
      <4>6. QED
        BY <4>1, <4>3, <4>4, <4>5
    <3>3. QED
      BY <1>2, <3>1, <3>2
  <2>4. HubRate'
    <3> SUFFICES ASSUME NEW i \in 1..L + 1, NEW j \in 1..L + 1, i <= j
                 PROVE  (j - i + 1) * Minute <= Full + Earned(admitted'[i], admitted'[j])
      BY <2>1 DEF HubRate, Full, Earned
    <3>1. CASE j = L + 1
      <4>1. ((L + 1) - i + 1) * Minute + (R - Minute) <= Full + Earned(admitted'[i], clock)
        BY <2>3
      <4>2. ((L + 1) - i + 1) * Minute \in Int
        BY <1>2, <1>3
      <4>3. Earned(admitted'[i], clock) \in Int
        <5>1. admitted'[i] \in Nat
          BY <1>2, <2>1
        <5>2. QED
          BY <1>2, <1>5, <5>1
      <4>4. ((L + 1) - i + 1) * Minute <= Full + Earned(admitted'[i], clock)
        BY <1>3, <2>2, <4>1, <4>2, <4>3
      <4>5. admitted'[j] = clock
        BY <2>1, <3>1
      <4>6. j - i + 1 = (L + 1) - i + 1
        BY <1>2, <3>1
      <4>7. QED
        BY <4>4, <4>5, <4>6
    <3>2. CASE j \in 1..L
      <4>1. i \in 1..L
        BY <1>2, <3>2
      <4>2. QED
        BY <2>1, <3>2, <4>1 DEF BucketInv, HubRate, Full, Earned, L
    <3>3. QED
      BY <1>2, <3>1, <3>2
  <2>5. /\ bucket'.tokens = R - Minute /\ bucket'.at = clock /\ clock' = clock
        /\ bucket' \in [tokens : Nat, at : Nat]
    BY <1>1, <1>2, <1>8, <2>2
  <2>6. \A i \in 1..Len(admitted') :
          /\ admitted'[i] <= bucket'.at
          /\ (Len(admitted') - i + 1) * Minute + bucket'.tokens <= Full + Earned(admitted'[i], bucket'.at)
    <3>1. Len(admitted') = L + 1 /\ bucket'.at = clock /\ bucket'.tokens = R - Minute
      BY <2>1, <2>5
    <3>2. Covered(admitted', L + 1, clock, R - Minute)
      BY <2>3 DEF Covered
    <3>3. Covered(admitted', Len(admitted'), bucket'.at, bucket'.tokens)
      BY <3>1, <3>2
    <3>4. QED
      BY ONLY <3>3 DEF Covered
  <2>7. /\ clock' \in Nat \ {0} /\ rate' \in Rates /\ bucket'.at <= clock' /\ bucket'.tokens <= Full
        /\ bucket'.at # 0
    <3>1. clock' = clock /\ rate' = rate /\ clock <= clock /\ clock # 0
      BY <1>1, <1>2
    <3>2. bucket'.tokens <= Full /\ bucket'.at = clock
      BY <2>2, <2>5
    <3>3. QED
      BY <1>2, <3>1, <3>2
  <2>8. QED
    BY <2>1, <2>4, <2>5, <2>6, <2>7 DEF BucketInv
<1>9. QED
  BY <1>1, <1>7, <1>8 DEF R

(* Every other action leaves the bucket and what it let through alone.     *)
LEMMA BucketNext == BucketInv /\ [IngressNext]_ingressVars => BucketInv'
<1> SUFFICES ASSUME BucketInv, [IngressNext]_ingressVars
             PROVE  BucketInv'
  OBVIOUS
<1>1. CASE EarsNext
  BY <1>1 DEF EarsNext, OwnRadio, LinkRelay, Arrive, LinkRecv, hubVars, BucketInv, HubRate, Full, Earned
<1>2. CASE SetRate
  BY <1>2 DEF SetRate, BucketInv, HubRate, Full, Earned
<1>3. ASSUME NEW f \in Frame, OnFrame(f)
      PROVE  BucketInv'
  BY <1>3, BucketFrame
<1>4. CASE LinkDone \/ HubDone
  BY <1>4 DEF LinkDone, HubDone, hubVars, BucketInv, HubRate, Full, Earned
<1>5. CASE Tick
  BY <1>5 DEF Tick, hubVars, BucketInv, HubRate, Full, Earned
<1>6. CASE UNCHANGED ingressVars
  BY <1>6 DEF ingressVars, hubVars, BucketInv, HubRate, Full, Earned
<1>7. QED
  BY <1>1, <1>2, <1>3, <1>4, <1>5, <1>6 DEF IngressNext, HubNext, LoopNext

(* However late the bucket is refilled and however often its rate changes, *)
(* the hub's frames in any span of time are covered by a full bucket and   *)
(* what the highest rate earns in that span (on_frame).                    *)
THEOREM HubRateKept == IngressSpec => []HubRate
<1>1. BucketInv => HubRate
  BY DEF BucketInv
<1>2. QED
  BY BucketInit, BucketNext, <1>1, PTL DEF IngressSpec
----------------------------------------------------------------------------
(***************************************************************************)
(* Repeated datagrams. Each one that was acted on as new is in the log of  *)
(* the ring at the place noted, and its stamp was fresh; the ring does the *)
(* rest: it never records a hash twice within SeenSize records.            *)
(***************************************************************************)
Datagram == [frame : Frame, ts : Int, intact : BOOLEAN]

Deed(x) ==
  /\ x \in [of : Datagram, at : Nat, pos : Nat]
  /\ x.at - x.of.ts <= TsWindow /\ x.of.ts - x.at <= TsWindow
  /\ x.pos \in 1..Len(ring.log) /\ ring.log[x.pos].hash = x.of.frame

ReplayInv ==
  /\ ring \in RingType(Hash, Source) /\ RingOK(ring)
  /\ clock \in Nat \ {0}
  /\ net \subseteq Datagram /\ sock \in Seq(Datagram)
  /\ \A x \in acted : Deed(x)

(* A record extends the log and leaves what it had.                        *)
LEMMA RecordExtends ==
  ASSUME ring \in RingType(Hash, Source), NEW h \in Hash, NEW src \in Source
  PROVE  /\ Len(ring.log) \in Nat
         /\ Len(Record(ring, h, src).log) = Len(ring.log) + 1
         /\ Record(ring, h, src).log[Len(ring.log) + 1].hash = h
         /\ \A k \in 1..Len(ring.log) : Record(ring, h, src).log[k] = ring.log[k]
BY DEF Record, RingType, LogEntry

(* A frame handed to mesh_on_recv leaves the ring correct, its log as it   *)
(* was or longer, and itself in the log if it was new.                     *)
LEMMA OnRecvKeeps ==
  ASSUME ring \in RingType(Hash, Source), RingOK(ring), NEW f \in Frame, OnRecv(f)
  PROVE  /\ ring' \in RingType(Hash, Source) /\ RingOK(ring')
         /\ \A k \in 1..Len(ring.log) : k \in 1..Len(ring'.log) /\ ring'.log[k] = ring.log[k]
         /\ New(f) => /\ Len(ring.log) + 1 \in 1..Len(ring'.log)
                      /\ ring'.log[Len(ring.log) + 1].hash = f
<1>1. CASE f = Garbled
  BY <1>1 DEF OnRecv, New
<1>2. CASE f # Garbled
  <2>1. f \in Hash
    BY <1>2 DEF Frame
  <2>2. PICK src \in Source : CheckAndAdd(f, src)
    BY <1>2 DEF OnRecv
  <2>3. ring' = SeenAdd(ring, f, src)
    BY <2>2 DEF CheckAndAdd
  <2>4. ring' \in RingType(Hash, Source) /\ RingOK(ring')
    BY <2>1, <2>3, SeenAddOK, SeenRingAssumption
  <2>5. CASE Seen(ring, f)
    BY <2>3, <2>4, <2>5 DEF SeenAdd, New
  <2>6. CASE ~Seen(ring, f)
    <3>1. ring' = Record(ring, f, src)
      BY <2>3, <2>6 DEF SeenAdd
    <3>2. QED
      BY <2>1, <2>4, <3>1, RecordExtends
  <2>7. QED
    BY <2>5, <2>6
<1>3. QED
  BY <1>1, <1>2

(* A deed stays one while the log only grows.                              *)
LEMMA DeedsStay ==
  ASSUME \A k \in 1..Len(ring.log) : k \in 1..Len(ring'.log) /\ ring'.log[k] = ring.log[k],
         NEW x, Deed(x)
  PROVE  Deed(x)'
BY DEF Deed

LEMMA ReplayInit == IngressInit => ReplayInv
BY EmptyRingOK DEF IngressInit, Init, ReplayInv

(* link_recv accepts a datagram and hands its frame on.                    *)
LEMMA ReplayRecv == ReplayInv /\ LinkRecv => ReplayInv'
<1> SUFFICES ASSUME ReplayInv, LinkRecv
             PROVE  ReplayInv'
  OBVIOUS
<1> DEFINE d == Head(sock)
           deed == [of |-> d, at |-> clock, pos |-> Len(ring.log) + 1]
<1>1. d \in Datagram /\ Tail(sock) \in Seq(Datagram)
  BY DEF ReplayInv, LinkRecv
<1>2. /\ Fresh(d) /\ OnRecv(d.frame)
      /\ acted' = acted \/ (New(d.frame) /\ acted' = acted \cup {deed})
      /\ sock' = Tail(sock) /\ clock' = clock /\ net' = net
  BY DEF LinkRecv
<1> HIDE DEF d
<1>3. d.frame \in Frame /\ d.ts \in Int
  BY <1>1 DEF Datagram
<1>4. /\ ring \in RingType(Hash, Source) /\ RingOK(ring) /\ clock \in Nat \ {0}
      /\ net \subseteq Datagram /\ \A x \in acted : Deed(x)
  BY DEF ReplayInv
<1>5. /\ ring' \in RingType(Hash, Source) /\ RingOK(ring')
      /\ \A k \in 1..Len(ring.log) : k \in 1..Len(ring'.log) /\ ring'.log[k] = ring.log[k]
      /\ New(d.frame) => /\ Len(ring.log) + 1 \in 1..Len(ring'.log)
                         /\ ring'.log[Len(ring.log) + 1].hash = d.frame
  BY <1>2, <1>3, <1>4, OnRecvKeeps
<1>6. \A x \in acted : Deed(x)'
  BY <1>4, <1>5, DeedsStay
<1>7. ASSUME New(d.frame), NEW x, x = deed
      PROVE  Deed(x)'
  <2>1. clock - d.ts <= TsWindow /\ d.ts - clock <= TsWindow
    BY <1>2, <1>3, <1>4, IngressAssumption DEF Fresh
  <2>2. Len(ring.log) + 1 \in Nat
    BY <1>4 DEF RingType
  <2>3. /\ x \in [of : Datagram, at : Nat, pos : Nat]
        /\ x.of = d /\ x.at = clock /\ x.pos = Len(ring.log) + 1
    BY <1>1, <1>4, <1>7, <2>2
  <2>4. QED
    BY <1>5, <1>7, <2>1, <2>3 DEF Deed
<1>8. \A x \in acted' : Deed(x)'
  BY <1>2, <1>6, <1>7
<1>9. QED
  BY <1>1, <1>2, <1>4, <1>5, <1>8 DEF ReplayInv

LEMMA ReplayNext == ReplayInv /\ [IngressNext]_ingressVars => ReplayInv'
<1> SUFFICES ASSUME ReplayInv, [IngressNext]_ingressVars
             PROVE  ReplayInv'
  OBVIOUS
<1>1. ASSUME NEW f \in Frame, OnRecv(f), UNCHANGED linkVars, clock' = clock
      PROVE  ReplayInv'
  <2>1. /\ ring' \in RingType(Hash, Source) /\ RingOK(ring')
        /\ \A k \in 1..Len(ring.log) : k \in 1..Len(ring'.log) /\ ring'.log[k] = ring.log[k]
    BY <1>1, OnRecvKeeps DEF ReplayInv
  <2>2. \A x \in acted : Deed(x)'
    BY <2>1, DeedsStay DEF ReplayInv
  <2>3. QED
    BY <1>1, <2>1, <2>2 DEF ReplayInv, linkVars
<1>2. ASSUME ring' = ring, acted' = acted, clock' \in {clock, clock + 1},
             net' \subseteq Datagram, sock' \in Seq(Datagram)
      PROVE  ReplayInv'
  BY <1>2 DEF ReplayInv, Deed
<1>3. CASE OwnRadio
  BY <1>1, <1>2, <1>3 DEF OwnRadio, linkVars, ReplayInv
<1>4. CASE LinkRelay
  <2>1. PICK f \in Frame, s \in Skew : net' = net \cup {[frame |-> f, ts |-> clock + s, intact |-> TRUE]}
    BY <1>4 DEF LinkRelay
  <2>2. clock + s \in Int
    BY IngressAssumption DEF ReplayInv
  <2>3. [frame |-> f, ts |-> clock + s, intact |-> TRUE] \in Datagram
    BY <2>2 DEF Datagram
  <2>4. QED
    BY <1>2, <1>4, <2>1, <2>3 DEF LinkRelay, ReplayInv
<1>5. CASE Arrive
  <2>1. PICK d \in net, i \in BOOLEAN : sock' = Append(sock, [d EXCEPT !.intact = i])
    BY <1>5 DEF Arrive
  <2>2. [d EXCEPT !.intact = i] \in Datagram
    BY DEF Datagram, ReplayInv
  <2>3. sock' \in Seq(Datagram)
    BY <2>1, <2>2 DEF ReplayInv
  <2>4. QED
    BY <1>2, <1>5, <2>3 DEF Arrive, ReplayInv
<1>6. CASE LinkRecv
  BY <1>6, ReplayRecv
<1>7. CASE LinkDone
  <2>1. sock' \in Seq(Datagram)
    BY <1>7 DEF LinkDone, ReplayInv
  <2>2. QED
    BY <1>2, <1>7, <2>1 DEF LinkDone, ReplayInv
<1>8. CASE HubDone \/ Tick \/ SetRate \/ UNCHANGED ingressVars
  BY <1>2, <1>8 DEF HubDone, Tick, SetRate, ingressVars, linkVars, ReplayInv
<1>9. ASSUME NEW f \in Frame, OnFrame(f)
      PROVE  ReplayInv'
  <2>1. /\ UNCHANGED linkVars /\ clock' = clock
        /\ OnRecv(f) \/ UNCHANGED <<ring, answer>>
    BY <1>9 DEF OnFrame
  <2>2. QED
    BY <1>1, <1>2, <2>1 DEF linkVars, ReplayInv
<1>10. QED
  BY <1>3, <1>4, <1>5, <1>6, <1>7, <1>8, <1>9 DEF IngressNext, EarsNext, HubNext, LoopNext

(* Whatever the network repeats, delays or reorders and however the clocks *)
(* of the ears differ: a datagram is acted on as new twice only within two *)
(* windows, and only after the ring has turned over (link_recv).           *)
THEOREM ReplaysBounded == IngressSpec => []ReplayBounded
<1>1. ReplayInv => ReplayBounded
  <2> SUFFICES ASSUME ReplayInv, NEW x \in acted, NEW y \in acted, x.of = y.of, x.pos < y.pos
               PROVE  y.at - x.at <= 2 * TsWindow /\ y.pos - x.pos > SeenSize
    BY DEF ReplayBounded
  <2>1. Deed(x) /\ Deed(y) /\ RingOK(ring)
    BY DEF ReplayInv
  <2>2. x.at \in Nat /\ y.at \in Nat /\ x.of.ts \in Int
    BY <2>1 DEF Deed, Datagram
  <2>3. y.at - x.at <= 2 * TsWindow
    BY <2>1, <2>2, IngressAssumption DEF Deed
  <2>4. y.pos - x.pos > SeenSize
    BY <2>1 DEF Deed, RingOK, NoEarlyRepeat
  <2>5. QED
    BY <2>3, <2>4
<1>2. QED
  BY ReplayInit, ReplayNext, <1>1, PTL DEF IngressSpec
----------------------------------------------------------------------------
(***************************************************************************)
(* The types of the ways in: the ring's invariant, the bucket's and that   *)
(* of the datagrams, together.                                             *)
(***************************************************************************)
WaysInv == IInv /\ IngressTypeOK /\ BucketInv /\ ReplayInv

LEMMA WaysInit ==
  ASSUME IngressInit
  PROVE  WaysInv
<1>1. IInv /\ BucketInv /\ ReplayInv
  BY IInvInit, BucketInit, ReplayInit DEF IngressInit
<1>2. IngressTypeOK
  BY <1>1, IngressAssumption DEF IngressInit, IngressTypeOK, IInv
<1>3. QED
  BY <1>1, <1>2 DEF WaysInv

LEMMA OnRecvTyped ==
  ASSUME IInv, NEW f \in Frame, OnRecv(f) \/ UNCHANGED <<ring, answer>>
  PROVE  IInv'
<1>1. CASE UNCHANGED <<ring, answer>>
  BY <1>1, IInvNext DEF vars
<1>2. CASE OnRecv(f) /\ f # Garbled
  <2>1. f \in Hash /\ \E src \in Source : CheckAndAdd(f, src)
    BY <1>2 DEF OnRecv, Frame
  <2>2. Next
    BY <2>1 DEF Next
  <2>3. QED
    BY <2>2, IInvNext
<1>3. QED
  BY <1>1, <1>2 DEF OnRecv

LEMMA WaysNext ==
  ASSUME WaysInv, [IngressNext]_ingressVars
  PROVE  WaysInv'
<1>1. IInv /\ IngressTypeOK /\ BucketInv /\ BucketInv' /\ ReplayInv'
  BY BucketNext, ReplayNext DEF WaysInv
<1>2. ASSUME UNCHANGED <<ring, answer>> \/ \E f \in Frame : OnRecv(f)
      PROVE  IInv'
  <2>1. CASE UNCHANGED <<ring, answer>>
    BY <1>1, <2>1, IInvNext DEF vars
  <2>2. CASE \E f \in Frame : OnRecv(f)
    BY <1>1, <2>2, OnRecvTyped
  <2>3. QED
    BY <1>2, <2>1, <2>2
<1>3. IInv'
  <2>1. UNCHANGED <<ring, answer>> \/ \E f \in Frame : OnRecv(f)
    <3>1. CASE LinkRecv
      <4>1. Head(sock) \in Datagram
        BY <3>1 DEF LinkRecv, WaysInv, ReplayInv
      <4>2. Head(sock).frame \in Frame
        BY <4>1 DEF Datagram
      <4>3. QED
        BY <3>1, <4>2 DEF LinkRecv
    <3>2. CASE \E f \in Frame : OnFrame(f)
      BY <3>2 DEF OnFrame
    <3>3. CASE OwnRadio \/ LinkRelay \/ Arrive \/ SetRate \/ LoopNext \/ UNCHANGED ingressVars
      BY <3>3 DEF OwnRadio, LinkRelay, Arrive, SetRate, LoopNext, LinkDone, HubDone, Tick, ingressVars
    <3>4. QED
      BY <3>1, <3>2, <3>3 DEF IngressNext, EarsNext, HubNext
  <2>2. QED
    BY <1>2, <2>1
<1>4. clock' \in 1..MaxTime /\ loop' \in {"radio", "link", "hub"} /\ rate' \in Rates
  <2>1. clock \in 1..MaxTime /\ loop \in {"radio", "link", "hub"} /\ rate \in Rates
    BY <1>1 DEF IngressTypeOK
  <2>2. CASE EarsNext
    BY <2>1, <2>2 DEF EarsNext, OwnRadio, LinkRelay, Arrive, LinkRecv, hubVars
  <2>3. CASE HubNext
    BY <2>1, <2>3 DEF HubNext, OnFrame, SetRate
  <2>4. CASE LoopNext
    BY <2>1, <2>4, IngressAssumption DEF LoopNext, LinkDone, HubDone, Tick, hubVars
  <2>5. CASE UNCHANGED ingressVars
    BY <2>1, <2>5 DEF ingressVars, hubVars
  <2>6. QED
    BY <2>2, <2>3, <2>4, <2>5 DEF IngressNext
<1>5. bucket' \in [tokens : Nat, at : 0..MaxTime]
  <2>1. /\ bucket' \in [tokens : Nat, at : Nat] /\ bucket'.at <= clock'
    BY <1>1 DEF BucketInv
  <2>2. bucket'.at \in 0..MaxTime
    BY <1>4, <2>1, IngressAssumption
  <2>3. QED
    BY <2>1, <2>2
<1>6. admitted' \in Seq(1..MaxTime)
  <2>1. admitted \in Seq(1..MaxTime) /\ clock \in 1..MaxTime
    BY <1>1 DEF IngressTypeOK
  <2>2. admitted' \in {admitted, Append(admitted, clock)}
    <3>1. CASE \E f \in Frame : OnFrame(f)
      BY <3>1 DEF OnFrame
    <3>2. CASE EarsNext \/ SetRate \/ LoopNext \/ UNCHANGED ingressVars
      BY <3>2 DEF EarsNext, OwnRadio, LinkRelay, Arrive, LinkRecv, SetRate, LoopNext, LinkDone, HubDone, Tick,
                  ingressVars, hubVars
    <3>3. QED
      BY <3>1, <3>2 DEF IngressNext, HubNext
  <2>3. QED
    <3>1. Append(admitted, clock) \in Seq(1..MaxTime)
      BY <2>1, AppendProperties
    <3>2. QED
      BY <2>1, <2>2, <3>1
<1>7. IngressTypeOK'
  BY <1>3, <1>4, <1>5, <1>6 DEF IngressTypeOK, IInv
<1>8. QED
  BY <1>1, <1>3, <1>7 DEF WaysInv

(* A call of the ring by itself.                                           *)
LEMMA RingAlone ==
  ASSUME WaysInv, Next, UNCHANGED <<clock, loop, linkVars, hubVars>>
  PROVE  WaysInv'
<1>1. IInv'
  BY IInvNext DEF WaysInv
<1>2. IngressTypeOK' /\ BucketInv'
  BY <1>1 DEF WaysInv, IngressTypeOK, BucketInv, IInv, HubRate, hubVars, Full, Earned
<1>3. ReplayInv'
  <2>1. ring' \in RingType(Hash, Source) /\ RingOK(ring')
    BY <1>1 DEF IInv, TypeOK, RingInv
  <2>2. \A k \in 1..Len(ring.log) : k \in 1..Len(ring'.log) /\ ring'.log[k] = ring.log[k]
    <3>1. PICK h \in Hash, src \in Source : ring' = SeenAdd(ring, h, src)
      BY DEF Next, CheckAndAdd
    <3>2. ring' = ring \/ ring' = Record(ring, h, src)
      BY <3>1 DEF SeenAdd
    <3>3. QED
      BY <3>2, RecordExtends DEF WaysInv, ReplayInv, RingType
  <2>3. \A x \in acted : Deed(x)'
    BY <2>2, DeedsStay DEF WaysInv, ReplayInv
  <2>4. QED
    BY <2>1, <2>3 DEF WaysInv, ReplayInv, linkVars
<1>4. QED
  BY <1>1, <1>2, <1>3 DEF WaysInv

----------------------------------------------------------------------------
(* The settings of a node, and the lines of its file.                      *)
Keys == {"tx_power", "key_file", "location", "latitude", "aprs_comment", "link_mode", "link_key",
         "blacklist"}
Single == Keys \ {"blacklist"}

\* Lists as config_blacklist_add makes them.
NameList ==
  {l \in Seq(Legal("blacklist")) :
     Len(l) <= MaxBlacklist /\ \A i, j \in 1..Len(l) : l[i] = l[j] => i = j}

Conf ==
  [tx_power : Legal("tx_power"), key_file : Legal("key_file"), location : Legal("location"),
   latitude : Legal("latitude"), aprs_comment : Legal("aprs_comment"),
   link_mode : Legal("link_mode"), link_key : Legal("link_key"), blacklist : NameList]

AnyValue == UNION {Legal(k) : k \in Keys}
Line == Keys \X AnyValue

LEMMA ValueLegal == \A k \in Keys : Legal(k) \subseteq AnyValue
BY DEF AnyValue

LEMMA ConfLegal ==
  ASSUME NEW c \in Conf
  PROVE  /\ \A q \in Single : c[q] \in Legal(q)
         /\ c.blacklist \in NameList
BY DEF Conf, Single, Keys

\* Settings are the same if every one of them is.
LEMMA SameConf ==
  ASSUME NEW c \in Conf, NEW d \in Conf, \A q \in Keys : c[q] = d[q]
  PROVE  c = d
BY DEF Conf, Keys

LEMMA EmptyList == <<>> \in NameList
BY SettingsAssumption DEF NameList

LEMMA DefaultsIsConf == Defaults \in Conf
<1>1. Defaults.blacklist = <<>>
  BY DEF Defaults
<1>2. QED
  BY <1>1, EmptyList DEF Defaults, Conf, Legal, Path

LEMMA AddKeepsList ==
  ASSUME NEW l \in NameList, NEW v \in Legal("blacklist")
  PROVE  BlacklistAdd(l, v) \in NameList
<1>1. CASE Listed(l, v) \/ Len(l) >= MaxBlacklist
  BY <1>1 DEF BlacklistAdd
<1>2. CASE ~Listed(l, v) /\ Len(l) < MaxBlacklist
  <2>1. PICK n \in Nat : n = Len(l)
    BY DEF NameList
  <2>2. l \in Seq(Legal("blacklist"))
    BY DEF NameList
  <2>3. PICK r : r = Append(l, v)
    OBVIOUS
  <2>4. /\ r \in Seq(Legal("blacklist")) /\ Len(r) = n + 1 /\ r[n + 1] = v
        /\ \A i \in 1..n : r[i] = l[i]
    BY <2>1, <2>2, <2>3, AppendProperties
  <2>5. \A i \in 1..n : l[i] # v
    BY <1>2, <2>1 DEF Listed
  <2>6. \A i, j \in 1..n : l[i] = l[j] => i = j
    BY <2>1 DEF NameList
  <2>7. \A i, j \in 1..n + 1 : r[i] = r[j] => i = j
    <3>1. ASSUME NEW i \in 1..n + 1, NEW j \in 1..n + 1, r[i] = r[j]
          PROVE  i = j
      <4>1. CASE i \in 1..n /\ j \in 1..n
        BY <3>1, <4>1, <2>4, <2>6
      <4>2. CASE i = n + 1 /\ j \in 1..n
        BY <3>1, <4>2, <2>4, <2>5
      <4>3. CASE i \in 1..n /\ j = n + 1
        BY <3>1, <4>3, <2>4, <2>5
      <4>4. QED
        BY <4>1, <4>2, <4>3
    <3>2. QED
      BY <3>1
  <2>8. n + 1 <= MaxBlacklist
    BY <1>2, <2>1, SettingsAssumption
  <2>9. r \in NameList
    BY <2>4, <2>7, <2>8 DEF NameList
  <2>10. QED
    BY <1>2, <2>3, <2>9, SettingsAssumption, <2>1 DEF BlacklistAdd
<1>3. Len(l) \in Nat /\ MaxBlacklist \in Nat
  BY SettingsAssumption DEF NameList
<1>4. QED
  BY <1>1, <1>2, <1>3

LEMMA RemoveKeepsList ==
  ASSUME NEW l \in NameList, NEW v
  PROVE  BlacklistRemove(l, v) \in NameList
<1>1. CASE ~Listed(l, v)
  BY <1>1 DEF BlacklistRemove
<1>2. CASE Listed(l, v)
  <2>1. PICK n \in Nat : n = Len(l)
    BY DEF NameList
  <2>2. PICK p \in 1..n : p = CHOOSE i \in 1..Len(l) : l[i] = v
    BY <1>2, <2>1 DEF Listed
  <2>3. l \in Seq(Legal("blacklist")) /\ n <= MaxBlacklist
    BY <2>1 DEF NameList
  <2>4. PICK a : a = SubSeq(l, 1, p - 1)
    OBVIOUS
  <2>5. PICK b : b = SubSeq(l, p + 1, n)
    OBVIOUS
  <2>6. /\ a \in Seq(Legal("blacklist")) /\ Len(a) = p - 1
        /\ \A i \in 1..p - 1 : a[i] = l[i]
    <3>1. PICK q \in 0..n : q = p - 1
      OBVIOUS
    <3>2. 1 \in 1..Len(l) + 1 /\ q \in 1 - 1..Len(l)
      BY <2>1
    <3>3. /\ a \in Seq(Legal("blacklist")) /\ Len(a) = (q - 1) + 1
          /\ \A i \in 1..(q - 1) + 1 : a[i] = l[(1 + i) - 1]
      BY <2>1, <2>3, <2>4, <3>1, <3>2, SubSeqProperties
    <3>4. (q - 1) + 1 = p - 1 /\ \A i \in 1..p - 1 : (1 + i) - 1 = i
      BY <3>1
    <3>5. QED
      BY <3>3, <3>4
  <2>7. /\ b \in Seq(Legal("blacklist")) /\ Len(b) = n - p
        /\ \A i \in 1..n - p : b[i] = l[p + i]
    <3>1. PICK q \in 2..n + 1 : q = p + 1
      OBVIOUS
    <3>2. q \in 1..Len(l) + 1 /\ n \in q - 1..Len(l)
      BY <2>1
    <3>3. /\ b \in Seq(Legal("blacklist")) /\ Len(b) = (n - q) + 1
          /\ \A i \in 1..(n - q) + 1 : b[i] = l[(q + i) - 1]
      BY <2>1, <2>3, <2>5, <3>1, <3>2, SubSeqProperties
    <3>4. (n - q) + 1 = n - p /\ \A i \in 1..n - p : (q + i) - 1 = p + i
      BY <3>1
    <3>5. QED
      BY <3>3, <3>4
  <2>8. PICK r : r = a \o b
    OBVIOUS
  <2>9. /\ r \in Seq(Legal("blacklist")) /\ Len(r) = n - 1
        /\ \A i \in 1..n - 1 : r[i] = IF i <= p - 1 THEN l[i] ELSE l[i + 1]
    <3>1. /\ r \in Seq(Legal("blacklist")) /\ Len(r) = Len(a) + Len(b)
          /\ \A i \in 1..Len(a) + Len(b) : r[i] = IF i <= Len(a) THEN a[i] ELSE b[i - Len(a)]
      BY <2>6, <2>7, <2>8, ConcatProperties
    <3>2. Len(a) + Len(b) = n - 1
      BY <2>1, <2>2, <2>6, <2>7
    <3>3. ASSUME NEW i \in 1..n - 1
          PROVE  r[i] = IF i <= p - 1 THEN l[i] ELSE l[i + 1]
      <4>1. CASE i <= p - 1
        BY <4>1, <3>1, <3>2, <2>6
      <4>2. CASE i > p - 1
        <5>1. i - Len(a) \in 1..n - p /\ p + (i - Len(a)) = i + 1
          BY <4>2, <2>6
        <5>2. b[i - Len(a)] = l[i + 1]
          BY <5>1, <2>7
        <5>3. r[i] = b[i - Len(a)]
          BY <4>2, <3>1, <3>2, <2>6
        <5>4. QED
          BY <4>2, <5>2, <5>3
      <4>3. QED
        BY <4>1, <4>2
    <3>4. QED
      BY <3>1, <3>2, <3>3
  <2>10. \A i, j \in 1..n : l[i] = l[j] => i = j
    BY <2>1 DEF NameList
  <2>11. \A i, j \in 1..n - 1 : r[i] = r[j] => i = j
    <3>1. ASSUME NEW i \in 1..n - 1, NEW j \in 1..n - 1, r[i] = r[j]
          PROVE  i = j
      <4> DEFINE from(x) == IF x <= p - 1 THEN x ELSE x + 1
      <4>1. from(i) \in 1..n /\ from(j) \in 1..n /\ r[i] = l[from(i)] /\ r[j] = l[from(j)]
        BY <2>9
      <4>2. from(i) = from(j)
        BY <3>1, <4>1, <2>10
      <4>3. QED
        BY <4>2
    <3>2. QED
      BY <3>1
  <2>12. n - 1 <= MaxBlacklist
    BY <2>2, <2>3, SettingsAssumption
  <2>13. r \in NameList
    BY <2>9, <2>11, <2>12 DEF NameList
  <2>14. QED
    BY <1>2, <2>1, <2>2, <2>4, <2>5, <2>8, <2>13 DEF BlacklistRemove, RemoveAt
<1>3. QED
  BY <1>1, <1>2

(* What a line does: it sets its key, and a coordinate the location too, if *)
(* its value is one the key accepts (config_set, config_load).              *)
Touches(l, q) == l[1] = q \/ (q = "location" /\ l[1] = "latitude")
Accepted(l) == Uncommented(l[1], l[2]) \in Legal(l[1])
Gives(l, q) == IF l[1] = q THEN Uncommented(q, l[2]) ELSE TRUE

LEMMA SetKeepsConf ==
  ASSUME NEW c \in Conf, NEW k \in Keys, NEW v
  PROVE  ConfigSet(c, k, v) \in Conf
<1>1. CASE v \notin Legal(k)
  BY <1>1 DEF ConfigSet
<1>2. CASE v \in Legal(k) /\ k = "blacklist"
  <2>1. PICK l \in NameList : l = BlacklistAdd(c.blacklist, v)
    BY <1>2, AddKeepsList, ConfLegal
  <2>2. ConfigSet(c, k, v) = [c EXCEPT !.blacklist = l]
    BY <1>2, <2>1 DEF ConfigSet
  <2>3. [c EXCEPT !.blacklist = l] \in Conf
    BY DEF Conf
  <2>4. QED
    BY <2>2, <2>3
<1>3. CASE v \in Legal(k) /\ k = "latitude"
  <2>1. ConfigSet(c, k, v) = [c EXCEPT !.latitude = v, !.location = TRUE]
    BY <1>3 DEF ConfigSet
  <2>2. v \in Legal("latitude") /\ TRUE \in Legal("location")
    BY <1>3 DEF Legal
  <2>3. QED
    BY <2>1, <2>2 DEF Conf
<1>4. CASE v \in Legal(k) /\ k \in Single \ {"latitude"}
  <2>1. ConfigSet(c, k, v) = [c EXCEPT ![k] = v]
    BY <1>4 DEF ConfigSet, Single
  <2>2. k \in {"tx_power", "key_file", "location", "aprs_comment", "link_mode", "link_key"}
    BY <1>4 DEF Single, Keys
  <2>3. QED
    BY <1>4, <2>1, <2>2 DEF Conf
<1>5. QED
  BY <1>1, <1>2, <1>3, <1>4 DEF Single

LEMMA SetSingle ==
  ASSUME NEW c \in Conf, NEW l \in Line, NEW q \in Single
  PROVE  ReadLine(c, l)[q] = IF Accepted(l) /\ Touches(l, q) THEN Gives(l, q) ELSE c[q]
<1> DEFINE k == l[1]
           v == Uncommented(l[1], l[2])
<1>1. k \in Keys /\ ReadLine(c, l) = ConfigSet(c, k, v)
  BY DEF Line, ReadLine
<1>2. Accepted(l) <=> v \in Legal(k)
  BY DEF Accepted
<1>3. k = q => Gives(l, q) = v
  BY DEF Gives
<1>4. k # q => Gives(l, q) = TRUE
  BY DEF Gives
<1>5. Touches(l, q) <=> k = q \/ (q = "location" /\ k = "latitude")
  BY DEF Touches
<1> HIDE DEF k, v
<1>6. CASE v \notin Legal(k)
  BY <1>1, <1>2, <1>6 DEF ConfigSet
<1>7. CASE v \in Legal(k) /\ k = "blacklist"
  <2>1. ConfigSet(c, k, v) = [c EXCEPT !.blacklist = BlacklistAdd(c.blacklist, v)]
    BY <1>7 DEF ConfigSet
  <2>2. q # "blacklist" /\ ~Touches(l, q)
    BY <1>5, <1>7 DEF Single
  <2>3. QED
    BY <1>1, <2>1, <2>2 DEF Conf, Single, Keys
<1>8. CASE v \in Legal(k) /\ k = "latitude"
  <2>1. ConfigSet(c, k, v) = [c EXCEPT !.latitude = v, !.location = TRUE]
    BY <1>8 DEF ConfigSet
  <2>2. QED
    BY <1>1, <1>2, <1>3, <1>4, <1>5, <1>8, <2>1 DEF Conf, Single, Keys
<1>9. CASE v \in Legal(k) /\ k \in Single \ {"latitude"}
  <2>1. ConfigSet(c, k, v) = [c EXCEPT ![k] = v]
    BY <1>9 DEF ConfigSet, Single
  <2>2. k \in {"tx_power", "key_file", "location", "aprs_comment", "link_mode", "link_key"}
    BY <1>9 DEF Single, Keys
  <2>3. Touches(l, q) <=> k = q
    BY <1>5, <1>9
  <2>4. ConfigSet(c, k, v)[q] = IF k = q THEN v ELSE c[q]
    BY <1>9, <2>1, <2>2 DEF Conf, Single, Keys
  <2>5. QED
    BY <1>1, <1>2, <1>3, <1>9, <2>3, <2>4
<1>10. QED
  BY <1>1, <1>6, <1>7, <1>8, <1>9 DEF Single

LEMMA SetList ==
  ASSUME NEW c \in Conf, NEW l \in Line
  PROVE  ReadLine(c, l).blacklist =
           IF l[1] = "blacklist" /\ l[2] \in Legal("blacklist")
             THEN BlacklistAdd(c.blacklist, l[2]) ELSE c.blacklist
<1> DEFINE k == l[1]
           v == Uncommented(l[1], l[2])
<1>1. k \in Keys /\ ReadLine(c, l) = ConfigSet(c, k, v)
  BY DEF Line, ReadLine
<1>2. k = "blacklist" => v = l[2]
  BY DEF Uncommented
<1> HIDE DEF v
<1>3. CASE k = "blacklist"
  <2>1. CASE v \in Legal("blacklist")
    <3>1. ConfigSet(c, k, v) = [c EXCEPT !.blacklist = BlacklistAdd(c.blacklist, v)]
      BY <1>3, <2>1 DEF ConfigSet
    <3>2. QED
      BY <1>1, <1>2, <1>3, <2>1, <3>1 DEF Conf
  <2>2. CASE v \notin Legal("blacklist")
    BY <1>1, <1>2, <1>3, <2>2 DEF ConfigSet
  <2>3. QED
    BY <2>1, <2>2
<1>4. CASE k # "blacklist" /\ v \notin Legal(k)
  BY <1>1, <1>4 DEF ConfigSet
<1>5. CASE k = "latitude" /\ v \in Legal(k)
  BY <1>1, <1>5 DEF ConfigSet, Conf
<1>6. CASE k \in Single \ {"latitude"} /\ v \in Legal(k)
  <2>1. ConfigSet(c, k, v) = [c EXCEPT ![k] = v]
    BY <1>6 DEF ConfigSet, Single
  <2>2. k \in {"tx_power", "key_file", "location", "aprs_comment", "link_mode", "link_key"}
    BY <1>6 DEF Single, Keys
  <2>3. QED
    BY <1>1, <1>6, <2>1, <2>2 DEF Conf
<1>7. QED
  BY <1>1, <1>3, <1>4, <1>5, <1>6 DEF Single

LEMMA ReadKeepsConf ==
  ASSUME NEW c \in Conf, NEW l \in Line
  PROVE  ReadLine(c, l) \in Conf
BY SetKeepsConf DEF ReadLine, Line

----------------------------------------------------------------------------
(* Reading a file.                                                         *)
Unlisted(c) == [c EXCEPT !.blacklist = <<>>]

\* f[k] is what the first k lines of s make of c.
Reading(f, c, s) ==
  f[0] = Unlisted(c) /\ f[Len(s)] = Load(c, s) /\ \A k \in 1..Len(s) : f[k] = ReadLine(f[k - 1], s[k])

(* A file is read line by line, in a set D of settings (config_load).       *)
LEMMA ReadFold ==
  ASSUME NEW P, NEW s \in Seq(P), NEW D, NEW c, Unlisted(c) \in D, \A d \in D, p \in P : ReadLine(d, p) \in D
  PROVE  \E f \in [0..Len(s) -> D] : Reading(f, c, s)
<1>a. PICK n \in Nat : n = Len(s) /\ DOMAIN s = 1..n /\ \A k \in 1..n : s[k] \in P
  OBVIOUS
<1>b. \A d \in D, k \in 1..n : ReadLine(d, s[k]) \in D
  BY <1>a
<1> DEFINE E(it) == it = [S \in SUBSET (DOMAIN s) |->
                            IF S = {} THEN Unlisted(c) ELSE ReadLine(it[S \ {Max(S)}], s[Max(S)])]
           iter == CHOOSE it : E(it)
           g == [p \in D \X (1..n) |-> ReadLine(p[1], s[p[2]])]
<1>1. Load(c, s) = iter[DOMAIN s]
  BY DEF Load, Unlisted, FoldLeft, MapThenFoldSet
<1>2. \E it : E(it)
  <2>1. g \in [D \X (1..n) -> D]
    BY <1>b
  <2>2. \A d \in D, k \in 1..n : g[<<d, k>>] = ReadLine(d, s[k])
    OBVIOUS
  <2> HIDE DEF g
  <2>3. PICK h \in [SUBSET (1..n) -> D] : IsFold(h, g, Unlisted(c), n)
    BY <2>1, FoldExists
  <2>4. ASSUME NEW S \in SUBSET (1..n)
        PROVE  h[S] = IF S = {} THEN Unlisted(c) ELSE ReadLine(h[S \ {Max(S)}], s[Max(S)])
    <3>1. CASE S = {}
      BY <3>1, <2>3 DEF IsFold
    <3>2. CASE S # {}
      <4>1. Max(S) \in 1..n /\ h[S \ {Max(S)}] \in D
        BY <3>2, MaxIn
      <4>2. h[S] = g[<<h[S \ {Max(S)}], Max(S)>>]
        BY <3>2, <2>3 DEF IsFold
      <4>3. QED
        BY <4>1, <4>2, <2>2, <3>2
    <3>3. QED
      BY <3>1, <3>2
  <2>5. E(h)
    BY <2>4, <1>a
  <2>6. QED
    BY <2>5
<1>3. E(iter)
  BY <1>2
<1> DEFINE f == [k \in 0..n |-> iter[1..k]]
<1> HIDE DEF iter
<1>4. f[0] = Unlisted(c)
  <2>1. 1..0 = {} /\ {} \in SUBSET (DOMAIN s)
    OBVIOUS
  <2>2. iter[{}] = Unlisted(c)
    BY <1>a, <1>3, <2>1
  <2>3. QED
    BY <2>1, <2>2
<1>5. ASSUME NEW k \in 1..n
      PROVE  f[k] = ReadLine(f[k - 1], s[k])
  <2>1. 1..k \in SUBSET (DOMAIN s) /\ 1..k # {}
    <3>1. k \in 1..k /\ \A i \in 1..k : i \in 1..n
      OBVIOUS
    <3>2. QED
      BY <3>1, <1>a
  <2>2. iter[1..k] = ReadLine(iter[(1..k) \ {Max(1..k)}], s[Max(1..k)])
    BY <1>a, <1>3, <2>1
  <2>3. Max(1..k) = k /\ (1..k) \ {k} = 1..k - 1
    BY MaxUpTo
  <2>4. f[k] = iter[1..k] /\ f[k - 1] = iter[1..k - 1]
    <3>1. k \in 0..n /\ k - 1 \in 0..n
      OBVIOUS
    <3>2. QED
      BY <3>1
  <2>5. QED
    BY <2>2, <2>3, <2>4
<1>6. f[n] = Load(c, s)
  BY <1>1, <1>a
<1>7. f \in [0..n -> D]
  <2> HIDE DEF f
  <2> DEFINE T == {k \in 0..n : f[k] \in D}
  <2>1. 0 \in T
    BY <1>4
  <2>2. \A k \in 0..n - 1 : k \in T => k + 1 \in T
    <3>1. ASSUME NEW k \in 0..n - 1, k \in T
          PROVE  k + 1 \in T
      <4>1. k + 1 \in 1..n /\ (k + 1) - 1 = k /\ k + 1 \in 0..n
        OBVIOUS
      <4>2. f[k + 1] = ReadLine(f[k], s[k + 1])
        BY <4>1, <1>5
      <4>3. f[k + 1] \in D
        BY <3>1, <4>1, <4>2, <1>b
      <4>4. QED
        BY <4>1, <4>3
    <3>2. QED
      BY <3>1
  <2>3. \A k \in 0..n : k \in T
    <3> HIDE DEF T
    <3>1. QED
      BY <2>1, <2>2, UpTo
  <2>4. \A k \in 0..n : f[k] \in D
    BY <2>3
  <2>5. DOMAIN f = 0..n /\ f = [k \in 0..n |-> f[k]]
    BY DEF f
  <2>6. QED
    BY <2>4, <2>5
<1> HIDE DEF f
<1>8. Reading(f, c, s)
  BY <1>a, <1>4, <1>5, <1>6 DEF Reading
<1>9. QED
  BY <1>a, <1>7, <1>8

LEMMA ConfFold ==
  ASSUME NEW s \in Seq(Line), NEW c \in Conf
  PROVE  \E f \in [0..Len(s) -> Conf] : Reading(f, c, s)
<1>1. Unlisted(c) \in Conf
  BY EmptyList DEF Unlisted, Conf
<1>2. QED
  BY <1>1, ReadFold, ReadKeepsConf

LEMMA LoadIsConf ==
  ASSUME NEW s \in Seq(Line), NEW c \in Conf
  PROVE  Load(c, s) \in Conf
BY ConfFold DEF Reading

(* A setting stays as it is while no line touches it.                      *)
LEMMA Untouched ==
  ASSUME NEW s \in Seq(Line), NEW c \in Conf, NEW f \in [0..Len(s) -> Conf], Reading(f, c, s),
         NEW q \in Single, NEW i \in 0..Len(s), \A j \in i + 1..Len(s) : ~Touches(s[j], q)
  PROVE  Load(c, s)[q] = f[i][q]
<1>1. PICK n \in Nat : n = Len(s) /\ \A k \in 1..n : s[k] \in Line
  OBVIOUS
<1> DEFINE T == {k \in 0..n : k >= i => f[k][q] = f[i][q]}
<1>2. 0 \in T
  BY <1>1
<1>3. ASSUME NEW k \in 0..n - 1, k \in T
      PROVE  k + 1 \in T
  <2>1. CASE k + 1 <= i
    BY <1>1, <2>1
  <2>2. CASE k >= i
    <3>1. k + 1 \in i + 1..n /\ k + 1 \in 1..n /\ (k + 1) - 1 = k
      BY <1>1, <2>2
    <3>2. f[k + 1] = ReadLine(f[k], s[k + 1]) /\ f[k] \in Conf /\ s[k + 1] \in Line
      BY <1>1, <3>1 DEF Reading
    <3>3. f[k + 1][q] = f[k][q]
      BY <1>1, <3>1, <3>2, SetSingle
    <3>4. QED
      BY <1>3, <2>2, <3>1, <3>3
  <2>3. QED
    BY <1>1, <2>1, <2>2
<1>4. \A k \in 0..n : k \in T
  <2> HIDE DEF T
  <2>1. QED
    BY <1>2, <1>3, UpTo
<1>5. f[n][q] = f[i][q]
  BY <1>1, <1>4
<1>6. QED
  BY <1>1, <1>5 DEF Reading

(* The last line that touches a setting decides it.                        *)
LEMMA LastLine ==
  ASSUME NEW s \in Seq(Line), NEW c \in Conf, NEW q \in Single, NEW i \in 1..Len(s),
         Touches(s[i], q), Accepted(s[i]), \A j \in i + 1..Len(s) : ~Touches(s[j], q)
  PROVE  Load(c, s)[q] = Gives(s[i], q)
<1>1. PICK f \in [0..Len(s) -> Conf] : Reading(f, c, s)
  BY ConfFold
<1>2. i \in 0..Len(s) /\ i - 1 \in 0..Len(s)
  OBVIOUS
<1>3. Load(c, s)[q] = f[i][q]
  BY <1>1, <1>2, Untouched
<1>4. f[i] = ReadLine(f[i - 1], s[i]) /\ f[i - 1] \in Conf /\ s[i] \in Line
  BY <1>1, <1>2 DEF Reading
<1>5. QED
  BY <1>3, <1>4, SetSingle

(* No line touches it: it keeps its value.                                 *)
LEMMA NoLine ==
  ASSUME NEW s \in Seq(Line), NEW c \in Conf, NEW q \in Single,
         \A j \in 1..Len(s) : ~Touches(s[j], q)
  PROVE  Load(c, s)[q] = c[q]
<1>1. PICK f \in [0..Len(s) -> Conf] : Reading(f, c, s)
  BY ConfFold
<1>2. 0 \in 0..Len(s) /\ 0 + 1 = 1
  OBVIOUS
<1>3. Load(c, s)[q] = f[0][q]
  BY <1>1, <1>2, Untouched
<1>4. f[0][q] = c[q]
  BY <1>1 DEF Reading, Unlisted, Conf, Single, Keys
<1>5. QED
  BY <1>3, <1>4

(* A setting is what it was or what some line makes it.                    *)
LEMMA SomeLine ==
  ASSUME NEW s \in Seq(Line), NEW c \in Conf, NEW q \in Single
  PROVE  \/ Load(c, s)[q] = c[q]
         \/ \E i \in 1..Len(s) : Touches(s[i], q) /\ Load(c, s)[q] = Gives(s[i], q)
<1>1. PICK f \in [0..Len(s) -> Conf] : Reading(f, c, s)
  BY ConfFold
<1>2. PICK n \in Nat : n = Len(s) /\ \A k \in 1..n : s[k] \in Line
  OBVIOUS
<1> DEFINE Known(v) == v = c[q] \/ \E i \in 1..n : Touches(s[i], q) /\ v = Gives(s[i], q)
           T == {k \in 0..n : Known(f[k][q])}
<1>3. 0 \in T
  <2>1. f[0][q] = c[q]
    BY <1>1 DEF Reading, Unlisted, Conf, Single, Keys
  <2>2. QED
    BY <2>1
<1>4. ASSUME NEW k \in 0..n - 1, k \in T
      PROVE  k + 1 \in T
  <2>1. k + 1 \in 1..n /\ (k + 1) - 1 = k /\ k \in 0..n /\ k + 1 \in 0..n
    BY <1>2
  <2>2. f[k + 1] = ReadLine(f[k], s[k + 1]) /\ f[k] \in Conf /\ s[k + 1] \in Line
    BY <1>1, <1>2, <2>1 DEF Reading
  <2>3. f[k + 1][q] = f[k][q] \/ (Touches(s[k + 1], q) /\ f[k + 1][q] = Gives(s[k + 1], q))
    BY <2>2, SetSingle
  <2>4. Known(f[k + 1][q])
    BY <1>4, <2>1, <2>3
  <2>5. QED
    BY <2>1, <2>4
<1>5. \A k \in 0..n : k \in T
  <2> HIDE DEF T
  <2>1. QED
    BY <1>2, <1>3, <1>4, UpTo
<1>6. Known(f[n][q])
  BY <1>2, <1>5
<1>7. QED
  BY <1>1, <1>2, <1>6 DEF Reading
----------------------------------------------------------------------------
(* What config_save writes.                                                *)
LEMMA Ordering ==
  /\ Len(Ordered) = 6
  /\ Ordered[1] = "tx_power" /\ Ordered[2] = "key_file" /\ Ordered[3] = "location"
  /\ Ordered[4] = "latitude" /\ Ordered[5] = "aprs_comment" /\ Ordered[6] = "link_mode"
BY DEF Ordered

LEMMA OrderedSingle == \A i \in 1..6 : Ordered[i] \in Single
<1>1. ASSUME NEW i \in 1..6
      PROVE  Ordered[i] \in Single
  <2>1. i = 1 \/ i = 2 \/ i = 3 \/ i = 4 \/ i = 5 \/ i = 6
    OBVIOUS
  <2>2. QED
    BY <2>1, Ordering DEF Single, Keys
<1>2. QED
  BY <1>1

LEMMA PrintedLegal ==
  ASSUME NEW c \in Conf, NEW q \in Single
  PROVE  /\ Printed(q, c[q]) \in Legal(q)
         /\ Uncommented(q, Printed(q, c[q])) \in Legal(q)
<1>1. c[q] \in Legal(q)
  BY ConfLegal
<1>2. CASE q = "latitude"
  BY <1>1, <1>2 DEF Printed, Uncommented, Legal
<1>3. CASE q = "aprs_comment"
  BY <1>1, <1>3 DEF Printed, Uncommented, Legal
<1>4. CASE q \notin {"latitude", "aprs_comment"}
  BY <1>1, <1>4 DEF Printed, Uncommented
<1>5. QED
  BY <1>2, <1>3, <1>4

\* The line of a setting, and of an entry of the list.
LineOf(c, q) == <<q, Printed(q, c[q])>>
ListLine(c, i) == <<"blacklist", c.blacklist[i]>>

\* There is no secret to write.
Keyless(c) == c.link_key = ""

\* A file of settings c, h of its lines before those of the list.
File(c, lines, h) ==
  /\ h = IF Keyless(c) THEN 6 ELSE 7
  /\ lines \in Seq(Line) /\ Len(lines) = h + Len(c.blacklist)
  /\ \A i \in 1..6 : lines[i] = LineOf(c, Ordered[i])
  /\ ~Keyless(c) => lines[7] = LineOf(c, "link_key")
  /\ \A i \in 1..Len(c.blacklist) : lines[h + i] = ListLine(c, i)

LEMMA LineOfIsLine ==
  ASSUME NEW c \in Conf, NEW q \in Single
  PROVE  LineOf(c, q) \in Line
<1>1. Printed(q, c[q]) \in AnyValue /\ q \in Keys
  BY PrintedLegal, ValueLegal DEF Single
<1>2. QED
  BY <1>1 DEF Line, LineOf

LEMMA ListLineIsLine ==
  ASSUME NEW c \in Conf, NEW i \in 1..Len(c.blacklist)
  PROVE  ListLine(c, i) \in Line
<1>1. c.blacklist \in Seq(Legal("blacklist"))
  BY ConfLegal DEF NameList
<1>2. c.blacklist[i] \in Legal("blacklist")
  BY <1>1
<1>3. "blacklist" \in Keys
  BY DEF Keys
<1>4. c.blacklist[i] \in AnyValue
  BY <1>2, <1>3, ValueLegal
<1>5. QED
  BY <1>3, <1>4 DEF Line, ListLine

LEMMA LinesAre ==
  ASSUME NEW c \in Conf
  PROVE  \E h \in 6..7 : File(c, Lines(c), h)
<1>1. PICK b \in Nat : b = Len(c.blacklist)
  BY ConfLegal DEF NameList
<1>2. PICK x : x = [i \in 1..Len(Ordered) |-> <<Ordered[i], Printed(Ordered[i], c[Ordered[i]])>>]
  OBVIOUS
<1>3. x \in Seq(Line) /\ Len(x) = 6 /\ \A i \in 1..6 : x[i] = LineOf(c, Ordered[i])
  <2>1. x = [i \in 1..6 |-> LineOf(c, Ordered[i])]
    BY <1>2, Ordering DEF LineOf
  <2>2. \A i \in 1..6 : LineOf(c, Ordered[i]) \in Line
    BY OrderedSingle, LineOfIsLine
  <2>3. QED
    BY <2>1, <2>2
<1>4. PICK y : y = Secret(c)
  OBVIOUS
<1>5. PICK e \in 0..1 :
        /\ y \in Seq(Line) /\ Len(y) = e /\ e = IF Keyless(c) THEN 0 ELSE 1
        /\ ~Keyless(c) => y[1] = LineOf(c, "link_key")
  <2>1. LineOf(c, "link_key") = <<"link_key", c.link_key>>
    BY DEF LineOf, Printed
  <2>2. LineOf(c, "link_key") \in Line
    BY LineOfIsLine DEF Single, Keys
  <2>3. CASE Keyless(c)
    <3>1. y = <<>>
      BY <1>4, <2>3 DEF Secret, Keyless
    <3>2. y \in Seq(Line) /\ Len(y) = 0
      BY <3>1
    <3>3. QED
      BY <2>3, <3>2
  <2>4. CASE ~Keyless(c)
    <3>1. y = <<LineOf(c, "link_key")>>
      BY <1>4, <2>1, <2>4 DEF Secret, Keyless
    <3>2. QED
      BY <2>2, <2>4, <3>1
  <2>5. QED
    BY <2>3, <2>4
<1>6. PICK z : z = [i \in 1..Len(c.blacklist) |-> <<"blacklist", c.blacklist[i]>>]
  OBVIOUS
<1>7. z \in Seq(Line) /\ Len(z) = b /\ \A i \in 1..b : z[i] = ListLine(c, i)
  <2>1. z = [i \in 1..b |-> ListLine(c, i)]
    BY <1>1, <1>6 DEF ListLine
  <2>2. \A i \in 1..b : ListLine(c, i) \in Line
    BY <1>1, ListLineIsLine
  <2>3. QED
    BY <2>1, <2>2
<1>8. PICK w : w = x \o y
  OBVIOUS
<1>9. /\ w \in Seq(Line) /\ Len(w) = 6 + e
      /\ \A i \in 1..6 + e : w[i] = IF i <= 6 THEN x[i] ELSE y[i - 6]
  <2>1. /\ w \in Seq(Line) /\ Len(w) = Len(x) + Len(y)
        /\ \A i \in 1..Len(x) + Len(y) : w[i] = IF i <= Len(x) THEN x[i] ELSE y[i - Len(x)]
    <3>1. x \in Seq(Line) /\ y \in Seq(Line)
      BY <1>3, <1>5
    <3>2. QED
      BY <1>8, <3>1, ConcatProperties
  <2>2. Len(x) = 6 /\ Len(y) = e
    BY <1>3, <1>5
  <2>3. QED
    BY <2>1, <2>2
<1>10. PICK h \in 6..7 : h = 6 + e
  OBVIOUS
<1>11. PICK v : v = w \o z
  OBVIOUS
<1>12. /\ v \in Seq(Line) /\ Len(v) = h + b
       /\ \A i \in 1..h + b : v[i] = IF i <= h THEN w[i] ELSE z[i - h]
  BY <1>7, <1>9, <1>10, <1>11, ConcatProperties
<1>13. \A i \in 1..6 : v[i] = LineOf(c, Ordered[i])
  <2>1. ASSUME NEW i \in 1..6
        PROVE  v[i] = LineOf(c, Ordered[i])
    <3>1. i \in 1..h + b /\ i <= h /\ i \in 1..6 + e
      OBVIOUS
    <3>2. v[i] = w[i] /\ w[i] = x[i]
      BY <3>1, <1>9, <1>12
    <3>3. QED
      BY <3>2, <1>3
  <2>2. QED
    BY <2>1
<1>14. ASSUME ~Keyless(c)
       PROVE  v[7] = LineOf(c, "link_key")
  <2>1. e = 1 /\ h = 7
    BY <1>5, <1>10, <1>14
  <2>2. 7 \in 1..h + b /\ 7 <= h /\ 7 \in 1..6 + e /\ ~(7 <= 6) /\ 7 - 6 = 1
    BY <2>1
  <2>3. v[7] = w[7] /\ w[7] = y[1]
    BY <2>2, <1>9, <1>12
  <2>4. QED
    BY <2>3, <1>5, <1>14
<1>15. \A i \in 1..b : v[h + i] = ListLine(c, i)
  <2>1. ASSUME NEW i \in 1..b
        PROVE  v[h + i] = ListLine(c, i)
    <3>1. h + i \in 1..h + b /\ ~(h + i <= h) /\ (h + i) - h = i
      OBVIOUS
    <3>2. v[h + i] = z[i]
      BY <1>12, <3>1
    <3>3. QED
      BY <3>2, <1>7
  <2>2. QED
    BY <2>1
<1>16. v = Lines(c)
  BY <1>2, <1>4, <1>6, <1>8, <1>11 DEF Lines
<1>17. h = IF Keyless(c) THEN 6 ELSE 7
  BY <1>5, <1>10
<1>18. File(c, v, h)
  BY <1>1, <1>12, <1>13, <1>14, <1>15, <1>17 DEF File
<1>19. QED
  BY <1>16, <1>18

(* Where the lines are, and what they hold.                                *)
LEMMA FilePlaces ==
  ASSUME NEW c \in Conf, NEW lines, NEW h \in 6..7, File(c, lines, h), NEW i \in 1..Len(lines)
  PROVE  /\ i \in 1..6 => lines[i] = LineOf(c, Ordered[i])
         /\ i = 7 /\ h = 7 => lines[i] = LineOf(c, "link_key")
         /\ i > h => \E j \in 1..Len(c.blacklist) : i = h + j /\ lines[i] = ListLine(c, j)
<1>1. PICK b \in Nat : b = Len(c.blacklist)
  BY ConfLegal DEF NameList
<1>2. i \in 1..h + b
  BY <1>1 DEF File
<1>3. ASSUME i > h
      PROVE  \E j \in 1..Len(c.blacklist) : i = h + j /\ lines[i] = ListLine(c, j)
  <2>1. i - h \in 1..b /\ h + (i - h) = i
    BY <1>2, <1>3
  <2>2. lines[h + (i - h)] = ListLine(c, i - h)
    BY <1>1, <2>1 DEF File
  <2>3. QED
    BY <1>1, <2>1, <2>2
<1>4. ASSUME i = 7, h = 7
      PROVE  lines[i] = LineOf(c, "link_key")
  BY <1>4 DEF File
<1>5. QED
  BY <1>3, <1>4 DEF File

LEMMA FileHolds ==
  ASSUME NEW c \in Conf, NEW lines, NEW h \in 6..7, File(c, lines, h), NEW i \in 1..Len(lines)
  PROVE  \/ lines[i][1] \in Single /\ lines[i] = LineOf(c, lines[i][1])
         \/ lines[i][1] = "blacklist"
<1>1. i \in 1..6 \/ (i = 7 /\ h = 7) \/ i > h
  <2>1. Len(lines) \in Nat
    BY LenProperties DEF File
  <2>2. QED
    BY <2>1
<1>2. \A q : LineOf(c, q)[1] = q
  BY DEF LineOf
<1>3. CASE i \in 1..6
  <2>1. lines[i] = LineOf(c, Ordered[i]) /\ Ordered[i] \in Single
    BY <1>3, FilePlaces, OrderedSingle
  <2>2. QED
    BY <1>2, <2>1
<1>4. CASE i = 7 /\ h = 7
  <2>1. lines[i] = LineOf(c, "link_key") /\ "link_key" \in Single
    BY <1>4, FilePlaces DEF Single, Keys
  <2>2. QED
    BY <1>2, <2>1
<1>5. CASE i > h
  <2>1. PICK j \in 1..Len(c.blacklist) : lines[i] = ListLine(c, j)
    BY <1>5, FilePlaces
  <2>2. QED
    BY <2>1 DEF ListLine
<1>6. QED
  BY <1>1, <1>3, <1>4, <1>5
----------------------------------------------------------------------------
(* What a write cut short leaves of a file.                                *)
LEMMA StubLegal ==
  ASSUME NEW k \in Keys, NEW v, NEW x \in Stubs(k, v)
  PROVE  x \in Legal(k)
BY DEF Keys, Stubs, Legal, Path

\* d is what is left of lines when the n first of them were written.
Cut(d, lines, n) ==
  /\ d \in Seq(Line) /\ Len(d) \in n..Len(lines)
  /\ n = Len(lines) => d = lines
  /\ \A i \in 1..Len(d) :
       \/ d[i] = lines[i]
       \/ i > n /\ \E v \in Stubs(lines[i][1], lines[i][2]) : d[i] = <<lines[i][1], v>>

LEMMA CutIs ==
  ASSUME NEW lines \in Seq(Line), NEW n \in 0..Len(lines), NEW d \in CutAt(lines, n)
  PROVE  Cut(d, lines, n)
<1>1. PICK z \in Nat : z = Len(lines) /\ \A i \in 1..z : lines[i] \in Line
  OBVIOUS
<1>2. PICK w : w = SubSeq(lines, 1, n)
  OBVIOUS
<1>3. w \in Seq(Line) /\ Len(w) = n /\ \A i \in 1..n : w[i] = lines[i]
  <2>1. /\ SubSeq(lines, 1, n) \in Seq(Line)
        /\ Len(SubSeq(lines, 1, n)) = IF 1 <= n THEN (n - 1) + 1 ELSE 0
        /\ \A i \in 1..(n - 1) + 1 : SubSeq(lines, 1, n)[i] = lines[(1 + i) - 1]
    <3>1. \A i \in 1..n : lines[i] \in Line
      BY <1>1
    <3>2. 1 \in Int /\ n \in Int
      BY <1>1
    <3>3. QED
      BY <3>1, <3>2, SubSeqProperties
  <2>2. QED
    BY <1>1, <1>2, <2>1
<1>4. CASE d = w
  <2>1. n = z => w = lines
    <3>1. ASSUME n = z
          PROVE  w = lines
      <4>1. w = [i \in 1..n |-> w[i]] /\ lines = [i \in 1..n |-> lines[i]]
        BY <1>1, <1>3, <3>1, SeqDef
      <4>2. QED
        BY <1>3, <4>1
    <3>2. QED
      BY <3>1
  <2>2. QED
    BY <1>1, <1>3, <1>4, <2>1 DEF Cut
<1>5. CASE n # z /\ \E v \in Stubs(lines[n + 1][1], lines[n + 1][2]) :
                      d = Append(w, <<lines[n + 1][1], v>>)
  <2>1. PICK l \in Line : l = lines[n + 1]
    BY <1>1, <1>5
  <2>2. PICK v \in Stubs(l[1], l[2]) : d = Append(w, <<l[1], v>>)
    BY <1>5, <2>1
  <2>3. <<l[1], v>> \in Line
    <3>1. l[1] \in Keys
      BY DEF Line
    <3>2. v \in AnyValue
      BY <3>1, StubLegal, ValueLegal
    <3>3. QED
      BY <3>1, <3>2 DEF Line
  <2>4. PICK p \in Line : p = <<l[1], v>>
    BY <2>3
  <2>5. d \in Seq(Line) /\ Len(d) = n + 1 /\ d[n + 1] = p /\ \A i \in 1..n : d[i] = w[i]
    <3>1. d = Append(w, p)
      BY <2>2, <2>4
    <3>2. QED
      BY <3>1, <1>3, AppendProperties
  <2>6. ASSUME NEW i \in 1..n + 1
        PROVE  \/ d[i] = lines[i]
               \/ i > n /\ \E x \in Stubs(lines[i][1], lines[i][2]) : d[i] = <<lines[i][1], x>>
    <3>1. CASE i \in 1..n
      BY <1>3, <2>5, <3>1
    <3>2. CASE i = n + 1
      <4>1. d[i] = <<l[1], v>> /\ lines[i] = l
        BY <2>1, <2>4, <2>5, <3>2
      <4>2. QED
        BY <3>2, <4>1, <1>1
    <3>3. QED
      BY <1>1, <3>1, <3>2
  <2>7. n + 1 \in n..z
    BY <1>1, <1>5
  <2>8. QED
    BY <1>1, <1>5, <2>5, <2>6, <2>7 DEF Cut
<1>6. d = w \/ (n # z /\ \E v \in Stubs(lines[n + 1][1], lines[n + 1][2]) :
                           d = Append(w, <<lines[n + 1][1], v>>))
  BY <1>1, <1>2 DEF CutAt
<1>7. QED
  BY <1>4, <1>5, <1>6

(* What a setting may be after a save, cut or not, and a start: its value, *)
(* as it reads back, a piece of it, or the default.                        *)
LEMMA CutSurvives ==
  ASSUME NEW c \in Conf, NEW n \in 0..Len(Lines(c)), NEW d \in CutAt(Lines(c), n), NEW q \in Single
  PROVE  Load(Defaults, d)[q] \in {c[q], RoundTrip(c)[q], Defaults[q]} \cup Stubs(q, c[q])
<1>1. PICK lines : lines = Lines(c)
  OBVIOUS
<1>2. PICK h \in 6..7 : File(c, lines, h)
  BY <1>1, LinesAre
<1>3. Cut(d, lines, n)
  BY <1>1, <1>2, CutIs DEF File
<1>4. d \in Seq(Line) /\ Defaults \in Conf
  BY <1>3, DefaultsIsConf DEF Cut
<1>5. CASE Load(Defaults, d)[q] = Defaults[q]
  BY <1>5
<1>6. ASSUME NEW i \in 1..Len(d), Touches(d[i], q), Load(Defaults, d)[q] = Gives(d[i], q)
      PROVE  Load(Defaults, d)[q] \in {c[q], RoundTrip(c)[q], Defaults[q]} \cup Stubs(q, c[q])
  <2>1. i \in 1..Len(lines)
    <3>1. PICK z \in Nat : z = Len(lines) /\ n \in 0..z
      BY <1>1, <1>2, LenProperties DEF File
    <3>2. PICK y \in n..z : y = Len(d)
      BY <1>3, <3>1 DEF Cut
    <3>3. QED
      BY <3>1, <3>2
  <2>2. CASE d[i][1] # q
    <3>1. q = "location" /\ Load(Defaults, d)[q] = TRUE
      BY <1>6, <2>2 DEF Touches, Gives
    <3>2. RoundTrip(c)[q] = TRUE
      BY <3>1 DEF RoundTrip, Conf
    <3>3. QED
      BY <3>1, <3>2
  <2>3. CASE d[i][1] = q
    <3>1. lines[i][1] = q
      BY <1>3, <2>3 DEF Cut
    <3>2. lines[i] = LineOf(c, q)
      BY <1>2, <2>1, <3>1, FileHolds DEF Single
    <3>3. Load(Defaults, d)[q] = Uncommented(q, d[i][2])
      BY <1>6, <2>3 DEF Gives
    <3>4. CASE d[i] = lines[i]
      <4>1. d[i][2] = Printed(q, c[q])
        BY <3>2, <3>4 DEF LineOf
      <4>2. Uncommented(q, Printed(q, c[q])) \in {c[q], RoundTrip(c)[q]}
        BY DEF RoundTrip, Conf, Printed, Uncommented
      <4>3. QED
        BY <3>3, <4>1, <4>2
    <3>5. ASSUME NEW v \in Stubs(q, Printed(q, c[q])), d[i] = <<q, v>>
          PROVE  Load(Defaults, d)[q] \in {c[q], RoundTrip(c)[q], Defaults[q]} \cup Stubs(q, c[q])
      <4>1. Stubs(q, Printed(q, c[q])) = Stubs(q, c[q])
        BY DEF Printed, Stubs
      <4>2. Uncommented(q, v) = v
        BY <3>5 DEF Uncommented, Stubs, Printed
      <4>3. d[i][2] = v
        BY <3>5
      <4>4. QED
        BY <3>3, <3>5, <4>1, <4>2, <4>3
    <3>6. d[i] = lines[i] \/ \E v \in Stubs(lines[i][1], lines[i][2]) : d[i] = <<lines[i][1], v>>
      BY <1>3 DEF Cut
    <3>7. lines[i][2] = Printed(q, c[q])
      BY <3>2 DEF LineOf
    <3>8. QED
      BY <3>1, <3>4, <3>5, <3>6, <3>7
  <2>4. QED
    BY <2>2, <2>3
<1>7. QED
  BY <1>4, <1>5, <1>6, SomeLine

(* The entries of the list are read back in their order.                   *)
LEMMA AddsNext ==
  ASSUME NEW l \in NameList, NEW b \in Nat, b = Len(l), NEW j \in 0..b - 1
  PROVE  BlacklistAdd([i \in 1..j |-> l[i]], l[j + 1]) = [i \in 1..j + 1 |-> l[i]]
<1>1. /\ l \in Seq(Legal("blacklist")) /\ b <= MaxBlacklist
      /\ \A i, k \in 1..b : l[i] = l[k] => i = k
  BY DEF NameList
<1>2. PICK p : p = [i \in 1..j |-> l[i]]
  OBVIOUS
<1>3. p \in Seq(Legal("blacklist")) /\ Len(p) = j /\ \A i \in 1..j : p[i] = l[i]
  BY <1>1, <1>2
<1>4. ~Listed(p, l[j + 1])
  <2>1. \A i \in 1..j : i \in 1..b /\ j + 1 \in 1..b /\ i # j + 1
    OBVIOUS
  <2>2. QED
    BY <1>1, <1>3, <2>1 DEF Listed
<1>5. ~(Len(p) >= MaxBlacklist)
  BY <1>1, <1>3, SettingsAssumption
<1>6. PICK v \in Legal("blacklist") : v = l[j + 1]
  BY <1>1
<1>7. PICK r : r = Append(p, v)
  OBVIOUS
<1>8. r \in Seq(Legal("blacklist")) /\ Len(r) = j + 1 /\ r[j + 1] = v /\ \A i \in 1..j : r[i] = p[i]
  BY <1>3, <1>7, AppendProperties
<1>9. r = [i \in 1..j + 1 |-> l[i]]
  <2>1. r = [i \in 1..j + 1 |-> r[i]]
    BY <1>8, SeqDef
  <2>2. \A i \in 1..j + 1 : r[i] = l[i]
    <3>1. \A i \in 1..j + 1 : i \in 1..j \/ i = j + 1
      OBVIOUS
    <3>2. QED
      BY <1>3, <1>6, <1>8, <3>1
  <2>3. QED
    BY <2>1, <2>2
<1>10. QED
  BY <1>2, <1>4, <1>5, <1>6, <1>7, <1>9 DEF BlacklistAdd

LEMMA ListSurvives ==
  ASSUME NEW c \in Conf, NEW lines, NEW h \in 6..7, File(c, lines, h)
  PROVE  Load(Defaults, lines).blacklist = c.blacklist
<1>1. PICK b \in Nat : b = Len(c.blacklist) /\ c.blacklist \in NameList
  BY ConfLegal DEF NameList
<1>2. lines \in Seq(Line) /\ Len(lines) = h + b
  BY <1>1 DEF File
<1>3. PICK f \in [0..h + b -> Conf] : Reading(f, Defaults, lines)
  BY <1>2, ConfFold, DefaultsIsConf
<1>4. \A k \in 1..h + b : f[k] = ReadLine(f[k - 1], lines[k]) /\ f[k - 1] \in Conf /\ lines[k] \in Line
  <2>1. \A k \in 1..h + b : k - 1 \in 0..h + b
    OBVIOUS
  <2>2. \A k \in 1..h + b : lines[k] \in Line
    BY <1>2
  <2>3. QED
    BY <1>2, <1>3, <2>1, <2>2 DEF Reading
<1>5. ASSUME NEW k \in 1..h
      PROVE  lines[k][1] # "blacklist"
  <2>1. k \in 1..Len(lines) /\ (k \in 1..6 \/ (k = 7 /\ h = 7))
    BY <1>2
  <2>2. \A q : LineOf(c, q)[1] = q
    BY DEF LineOf
  <2>3. CASE k \in 1..6
    <3>1. lines[k] = LineOf(c, Ordered[k]) /\ Ordered[k] \in Single
      BY <2>1, <2>3, FilePlaces, OrderedSingle
    <3>2. QED
      BY <2>2, <3>1 DEF Single
  <2>4. CASE k = 7 /\ h = 7
    <3>1. lines[k] = LineOf(c, "link_key")
      BY <2>1, <2>4, FilePlaces
    <3>2. QED
      BY <2>2, <3>1
  <2>5. QED
    BY <2>1, <2>3, <2>4
<1> DEFINE L(j) == [i \in 1..j |-> c.blacklist[i]]
           T == {k \in 0..h + b : f[k].blacklist = IF k <= h THEN <<>> ELSE L(k - h)}
<1>6. 0 \in T
  <2>1. Unlisted(Defaults).blacklist = <<>>
    BY DEF Unlisted, Defaults
  <2>2. f[0].blacklist = <<>> /\ 0 <= h /\ 0 \in 0..h + b
    BY <1>3, <2>1 DEF Reading
  <2>3. QED
    BY <2>2
<1>7. L(0) = <<>>
  OBVIOUS
<1>8. ASSUME NEW k \in 0..(h + b) - 1, k \in T
      PROVE  k + 1 \in T
  <2>1. k + 1 \in 1..h + b /\ (k + 1) - 1 = k /\ k + 1 \in 0..h + b
    OBVIOUS
  <2>2. PICK d \in Conf : d = f[k]
    BY <2>1, <1>4
  <2>3. PICK l \in Line : l = lines[k + 1]
    BY <2>1, <1>4
  <2>4. f[k + 1] = ReadLine(d, l)
    BY <2>1, <2>2, <2>3, <1>4
  <2>5. CASE k + 1 <= h
    <3>1. l[1] # "blacklist"
      BY <1>5, <2>3, <2>5
    <3>2. ReadLine(d, l).blacklist = d.blacklist
      BY <3>1, SetList
    <3>3. d.blacklist = <<>>
      BY <1>8, <2>2, <2>5
    <3>4. QED
      BY <2>1, <2>4, <2>5, <3>2, <3>3
  <2>6. CASE k + 1 > h
    <3>1. PICK j \in 0..b - 1 : k = h + j
      <4>1. k - h \in 0..b - 1 /\ k = h + (k - h)
        BY <2>6
      <4>2. QED
        BY <4>1
    <3>2. l = ListLine(c, j + 1)
      <4>1. j + 1 \in 1..Len(c.blacklist) /\ k + 1 = h + (j + 1)
        BY <1>1, <3>1
      <4>2. lines[h + (j + 1)] = ListLine(c, j + 1)
        BY <4>1 DEF File
      <4>3. QED
        BY <2>3, <4>1, <4>2
    <3>3. d.blacklist = L(j)
      <4>1. k - h = j
        BY <3>1
      <4>2. CASE k <= h
        <5>1. j = 0
          BY <3>1, <4>2
        <5>2. QED
          BY <1>7, <1>8, <2>2, <4>2, <5>1
      <4>3. CASE ~(k <= h)
        BY <1>8, <2>2, <4>1, <4>3
      <4>4. QED
        BY <4>2, <4>3
    <3>4. c.blacklist[j + 1] \in Legal("blacklist")
      BY <1>1 DEF NameList
    <3>5. l[1] = "blacklist" /\ l[2] = c.blacklist[j + 1]
      BY <3>2 DEF ListLine
    <3>6. f[k + 1].blacklist = BlacklistAdd(L(j), c.blacklist[j + 1])
      <4>1. ReadLine(d, l).blacklist = BlacklistAdd(d.blacklist, l[2])
        BY <3>4, <3>5, SetList
      <4> HIDE DEF L
      <4>2. QED
        BY <2>4, <3>3, <3>5, <4>1
    <3>7. BlacklistAdd(L(j), c.blacklist[j + 1]) = L(j + 1)
      BY <1>1, AddsNext
    <3>8. (k + 1) - h = j + 1 /\ ~(k + 1 <= h)
      BY <3>1
    <3>9. f[k + 1].blacklist = L((k + 1) - h)
      <4> HIDE DEF L
      <4>1. QED
        BY <3>6, <3>7, <3>8
    <3>10. QED
      <4> HIDE DEF L
      <4>1. QED
        BY <2>1, <3>8, <3>9
  <2>7. QED
    BY <2>5, <2>6
<1>9. \A k \in 0..h + b : k \in T
  <2> HIDE DEF T
  <2>1. QED
    BY <1>6, <1>8, UpTo
<1>10. f[h + b].blacklist = L(b)
  <2>1. h + b \in 0..h + b /\ (h + b <= h => b = 0) /\ (h + b) - h = b
    OBVIOUS
  <2>2. QED
    BY <1>7, <1>9, <2>1
<1>11. L(b) = c.blacklist
  BY <1>1, SeqDef DEF NameList
<1>12. f[h + b] = Load(Defaults, lines)
  BY <1>2, <1>3 DEF Reading
<1>13. QED
  BY <1>10, <1>11, <1>12

(* A file in whole reads back as the settings do.                          *)
LEMMA WholeSurvives ==
  ASSUME NEW c \in Conf
  PROVE  Load(Defaults, Lines(c)) = RoundTrip(c)
<1>1. PICK lines : lines = Lines(c)
  OBVIOUS
<1>2. PICK h \in 6..7 : File(c, lines, h)
  BY <1>1, LinesAre
<1>3. PICK b \in Nat : b = Len(c.blacklist)
  BY ConfLegal DEF NameList
<1>4. lines \in Seq(Line) /\ Len(lines) = h + b /\ h = IF Keyless(c) THEN 6 ELSE 7
  BY <1>2, <1>3 DEF File
<1>5. Defaults \in Conf
  BY DefaultsIsConf
<1>6. PICK u \in Conf : u = Load(Defaults, lines)
  BY <1>4, <1>5, LoadIsConf
<1>7. RoundTrip(c) \in Conf
  BY DEF RoundTrip, Conf, Printed, Uncommented, Legal
<1>8. ASSUME NEW i \in 1..h + b
      PROVE  /\ i \in 1..6 => lines[i][1] = Ordered[i] /\ lines[i] = LineOf(c, Ordered[i])
             /\ i = 7 /\ h = 7 => lines[i][1] = "link_key"
             /\ i > h => lines[i][1] = "blacklist"
  <2>1. \A q : LineOf(c, q)[1] = q
    BY DEF LineOf
  <2>2. \A j : ListLine(c, j)[1] = "blacklist"
    BY DEF ListLine
  <2>3. i \in 1..Len(lines)
    BY <1>4
  <2>4. QED
    BY <1>2, <2>1, <2>2, <2>3, FilePlaces
\* Setting i of the order is decided by line i, if no later line touches it.
<1>9. ASSUME NEW i \in 1..6, NEW q \in Single, NEW p \in Single, p = Ordered[i],
             p = q \/ (q = "location" /\ p = "latitude"),
             \A j \in i + 1..h + b : ~Touches(lines[j], q)
      PROVE  u[q] = IF p = q THEN Uncommented(q, Printed(q, c[q])) ELSE TRUE
  <2>1. lines[i] = LineOf(c, p) /\ i \in 1..Len(lines)
    BY <1>4, <1>8, <1>9
  <2>2. lines[i][1] = p /\ lines[i][2] = Printed(p, c[p])
    BY <2>1 DEF LineOf
  <2>3. Accepted(lines[i])
    BY <2>2, PrintedLegal DEF Accepted
  <2>4. Touches(lines[i], q)
    BY <1>9, <2>2 DEF Touches
  <2>5. u[q] = Gives(lines[i], q)
    BY <1>4, <1>5, <1>6, <1>9, <2>1, <2>3, <2>4, LastLine
  <2>6. QED
    BY <1>9, <2>2, <2>5 DEF Gives
<1>10. ASSUME NEW j \in 1..h + b
       PROVE  /\ j = 1 => lines[j][1] = "tx_power"
              /\ j = 2 => lines[j][1] = "key_file"
              /\ j = 3 => lines[j][1] = "location"
              /\ j = 4 => lines[j][1] = "latitude"
              /\ j = 5 => lines[j][1] = "aprs_comment"
              /\ j = 6 => lines[j][1] = "link_mode"
              /\ j > 6 => lines[j][1] \in {"link_key", "blacklist"}
  BY <1>8, Ordering
<1>11. ASSUME NEW j \in 1..h + b
       PROVE  /\ Touches(lines[j], "tx_power") => j <= 1
              /\ Touches(lines[j], "key_file") => j <= 2
              /\ Touches(lines[j], "location") => j <= 4
              /\ Touches(lines[j], "latitude") => j <= 4
              /\ Touches(lines[j], "aprs_comment") => j <= 5
              /\ Touches(lines[j], "link_mode") => j <= 6
              /\ Touches(lines[j], "link_key") => j = 7 /\ h = 7
  <2>1. j = 1 \/ j = 2 \/ j = 3 \/ j = 4 \/ j = 5 \/ j = 6 \/ j > 6
    OBVIOUS
  <2>2. lines[j][1] = "link_key" => j = 7 /\ h = 7
    <3>1. j > h => lines[j][1] = "blacklist"
      BY <1>8
    <3>2. j <= h /\ j > 6 => j = 7 /\ h = 7
      OBVIOUS
    <3>3. QED
      BY <1>10, <2>1, <3>1, <3>2
  <2>3. QED
    BY <1>10, <2>1, <2>2 DEF Touches
<1>12. \A i \in 1..6 : \A j \in i + 1..h + b : j \in 1..h + b /\ ~(j <= i)
  OBVIOUS
<1>13. u.tx_power = c.tx_power
  <2>1. 1 \in 1..6 /\ "tx_power" \in Single /\ \A j \in 1 + 1..h + b : ~Touches(lines[j], "tx_power")
    BY <1>11, <1>12 DEF Single, Keys
  <2>2. u["tx_power"] = Uncommented("tx_power", Printed("tx_power", c["tx_power"]))
    BY <1>9, <2>1, Ordering
  <2>3. QED
    BY <2>2 DEF Uncommented, Printed
<1>14. u.key_file = c.key_file
  <2>1. 2 \in 1..6 /\ "key_file" \in Single /\ \A j \in 2 + 1..h + b : ~Touches(lines[j], "key_file")
    BY <1>11, <1>12 DEF Single, Keys
  <2>2. u["key_file"] = Uncommented("key_file", Printed("key_file", c["key_file"]))
    BY <1>9, <2>1, Ordering
  <2>3. QED
    BY <2>2 DEF Uncommented, Printed
<1>15. u.location = TRUE /\ u.latitude = Printed("latitude", c.latitude)
  <2>1. /\ 4 \in 1..6 /\ "latitude" \in Single /\ "location" \in Single
        /\ \A j \in 4 + 1..h + b : ~Touches(lines[j], "location") /\ ~Touches(lines[j], "latitude")
    BY <1>11, <1>12 DEF Single, Keys
  <2>2. u["location"] = TRUE
    BY <1>9, <2>1, Ordering
  <2>3. u["latitude"] = Uncommented("latitude", Printed("latitude", c["latitude"]))
    BY <1>9, <2>1, Ordering
  <2>4. QED
    BY <2>2, <2>3 DEF Uncommented
<1>16. u.aprs_comment = Uncommented("aprs_comment", c.aprs_comment)
  <2>1. /\ 5 \in 1..6 /\ "aprs_comment" \in Single
        /\ \A j \in 5 + 1..h + b : ~Touches(lines[j], "aprs_comment")
    BY <1>11, <1>12 DEF Single, Keys
  <2>2. u["aprs_comment"] = Uncommented("aprs_comment", Printed("aprs_comment", c["aprs_comment"]))
    BY <1>9, <2>1, Ordering
  <2>3. QED
    BY <2>2 DEF Printed
<1>17. u.link_mode = c.link_mode
  <2>1. 6 \in 1..6 /\ "link_mode" \in Single /\ \A j \in 6 + 1..h + b : ~Touches(lines[j], "link_mode")
    BY <1>11, <1>12 DEF Single, Keys
  <2>2. u["link_mode"] = Uncommented("link_mode", Printed("link_mode", c["link_mode"]))
    BY <1>9, <2>1, Ordering
  <2>3. QED
    BY <2>2 DEF Uncommented, Printed
<1>18. u.link_key = c.link_key
  <2>1. "link_key" \in Single
    BY DEF Single, Keys
  <2>2. CASE Keyless(c)
    <3>1. \A j \in 1..Len(lines) : ~Touches(lines[j], "link_key")
      BY <1>4, <1>11, <2>2
    <3>2. u["link_key"] = Defaults["link_key"]
      BY <1>4, <1>5, <1>6, <2>1, <3>1, NoLine
    <3>3. QED
      BY <2>2, <3>2 DEF Defaults, Keyless
  <2>3. CASE ~Keyless(c)
    <3>1. h = 7 /\ 7 \in 1..h + b
      BY <1>4, <2>3
    <3>2. lines[7] = LineOf(c, "link_key")
      BY <1>2, <2>3 DEF File
    <3>3. lines[7][1] = "link_key" /\ lines[7][2] = Printed("link_key", c["link_key"])
      BY <3>2 DEF LineOf
    <3>4. Accepted(lines[7])
      BY <2>1, <3>3, PrintedLegal DEF Accepted
    <3>5. Touches(lines[7], "link_key") /\ \A j \in 7 + 1..Len(lines) : ~Touches(lines[j], "link_key")
      <4>1. \A j \in 7 + 1..h + b : j \in 1..h + b /\ j # 7
        OBVIOUS
      <4>2. QED
        BY <1>4, <1>11, <3>3, <4>1 DEF Touches
    <3>6. u["link_key"] = Gives(lines[7], "link_key")
      BY <1>4, <1>5, <1>6, <2>1, <3>1, <3>4, <3>5, LastLine
    <3>7. QED
      BY <3>3, <3>6 DEF Gives, Uncommented, Printed
  <2>4. QED
    BY <2>2, <2>3
<1>19. u.blacklist = c.blacklist
  BY <1>1, <1>2, <1>6, ListSurvives
<1>20. \A q \in Keys : u[q] = RoundTrip(c)[q]
  BY <1>13, <1>14, <1>15, <1>16, <1>17, <1>18, <1>19 DEF Keys, RoundTrip, Conf
<1>21. QED
  BY <1>1, <1>6, <1>7, <1>20, SameConf
----------------------------------------------------------------------------
(* The node and its files.                                                 *)
\* d is what is left of the save w.
Saved(w, d) ==
  w.conf \in Conf /\ w.lines \in 0..Len(Lines(w.conf)) /\ d \in CutAt(Lines(w.conf), w.lines)

\* A process that read what was left of the save w started with the settings c.
Started(w, c) == \E d : Saved(w, d) /\ c = Load(Defaults, d)

InWhole(w) == w.lines = Len(Lines(w.conf))

LEMMA SavedIsSeq ==
  ASSUME NEW w, NEW d, Saved(w, d)
  PROVE  /\ d \in Seq(Line) /\ Cut(d, Lines(w.conf), w.lines)
         /\ InWhole(w) => d = Lines(w.conf)
<1>1. PICK c \in Conf : c = w.conf
  BY DEF Saved
<1>2. PICK h \in 6..7 : File(c, Lines(c), h)
  BY LinesAre
<1>3. PICK n : n = w.lines
  OBVIOUS
<1>4. Lines(c) \in Seq(Line) /\ n \in 0..Len(Lines(c)) /\ d \in CutAt(Lines(c), n)
  BY <1>1, <1>2, <1>3 DEF Saved, File
<1>5. Cut(d, Lines(c), n)
  BY <1>4, CutIs
<1>6. QED
  BY <1>1, <1>3, <1>5 DEF Cut, InWhole

LEMMA StartedIsConf ==
  ASSUME NEW w, NEW c, Started(w, c)
  PROVE  c \in Conf
BY SavedIsSeq, DefaultsIsConf, LoadIsConf DEF Started

LEMMA StartedWhole ==
  ASSUME NEW w, NEW c, Started(w, c), InWhole(w)
  PROVE  w.conf \in Conf /\ c = RoundTrip(w.conf) /\ c.key_file = w.conf.key_file
<1>1. PICK d : Saved(w, d) /\ c = Load(Defaults, d)
  BY DEF Started
<1>2. w.conf \in Conf /\ d = Lines(w.conf)
  BY <1>1, SavedIsSeq DEF Saved
<1>3. c = RoundTrip(w.conf)
  BY <1>1, <1>2, WholeSurvives
<1>4. QED
  BY <1>2, <1>3 DEF RoundTrip, Conf

(* The line that makes the node an ear was written whole: it is one.       *)
LEMMA EarIsEar ==
  ASSUME NEW w, NEW c, Started(w, c), w.conf.link_mode = "rx", w.lines >= 6
  PROVE  c.link_mode = "rx"
<1>1. PICK d : Saved(w, d) /\ c = Load(Defaults, d)
  BY DEF Started
<1>2. PICK s \in Conf : s = w.conf
  BY <1>1 DEF Saved
<1>3. PICK lines, n : lines = Lines(s) /\ n = w.lines
  OBVIOUS
<1>4. PICK h \in 6..7 : File(s, lines, h)
  BY <1>3, LinesAre
<1>5. d \in Seq(Line) /\ Cut(d, lines, n)
  BY <1>1, <1>2, <1>3, SavedIsSeq
<1>6. PICK z \in Nat : z = Len(lines) /\ n \in 0..z
  <2>1. Len(lines) \in Nat
    BY <1>4, LenProperties DEF File
  <2>2. QED
    BY <1>1, <1>2, <1>3, <2>1 DEF Saved
<1>7. PICK y \in n..z : y = Len(d)
  BY <1>5, <1>6 DEF Cut
<1>8. n >= 6 /\ 6 \in 1..y /\ 6 \in 1..z /\ ~(6 > n)
  BY <1>3, <1>6, <1>7
<1>9. d[6] = lines[6] /\ lines[6] = LineOf(s, "link_mode")
  <2>1. d[6] = lines[6]
    BY <1>5, <1>7, <1>8 DEF Cut
  <2>2. 6 \in 1..6
    OBVIOUS
  <2>3. lines[6] = LineOf(s, Ordered[6])
    BY <1>4, <2>2 DEF File
  <2>4. QED
    BY <2>1, <2>3, Ordering
<1>10. d[6][1] = "link_mode" /\ d[6][2] = "rx"
  BY <1>2, <1>9 DEF LineOf, Printed
<1>11. ASSUME NEW j \in 7..y
       PROVE  ~Touches(d[j], "link_mode")
  <2>1. j \in 1..y /\ j \in 1..z /\ ((j = 7 /\ h = 7) \/ j > h)
    OBVIOUS
  <2>2. d[j][1] = lines[j][1]
    BY <1>5, <1>7, <2>1 DEF Cut
  <2>3. lines[j][1] \in {"link_key", "blacklist"}
    BY <1>4, <1>6, <2>1, FilePlaces DEF LineOf, ListLine
  <2>4. QED
    BY <2>2, <2>3 DEF Touches
<1>12. Touches(d[6], "link_mode") /\ Accepted(d[6]) /\ Gives(d[6], "link_mode") = "rx"
  BY <1>10 DEF Touches, Accepted, Gives, Uncommented, Legal
<1>13. Load(Defaults, d)["link_mode"] = Gives(d[6], "link_mode")
  <2>1. "link_mode" \in Single /\ 6 \in 1..Len(d) /\ \A j \in 6 + 1..Len(d) : ~Touches(d[j], "link_mode")
    BY <1>7, <1>8, <1>11 DEF Single, Keys
  <2>2. QED
    BY <1>5, <1>12, <2>1, DefaultsIsConf, LastLine
<1>14. QED
  BY <1>1, <1>12, <1>13

\* The types of what the node is.
NodeInv ==
  /\ conf \in Conf /\ keyfile \in [Path -> Nat]
  /\ node \in [at : {"down", "identity", "new", "hardware", "up"}, id : Nat, rx : BOOLEAN]
  /\ hurt \in BOOLEAN
  /\ spent \in [sets : Nat, saves : Nat, starts : Nat]

\* The file is what is left of the last save.
FileInv == Saved(want, disk) /\ (~hurt => InWhole(want))

\* A process that runs started with what was left of a save; it is an ear if it
\* read so, and while it starts it has the settings it read.
StartInv ==
  /\ node.at # "down" => /\ Started(start.want, start.conf) /\ spent.starts > 0
                         /\ ~hurt => InWhole(start.want)
  /\ node.at \in {"identity", "new", "hardware"} => conf = start.conf
  /\ node.at = "up" /\ ~node.rx => start.conf.link_mode # "rx"

\* The key files hold the identities used on air, and the one that is about to be.
IdInv ==
  ~hurt =>
    /\ \A x \in onair : x.file \in Path /\ x.id # NoKey /\ keyfile[x.file] = x.id
    /\ node.at = "new" => node.id # NoKey /\ keyfile[conf.key_file] = NoKey
    /\ node.at = "hardware" => node.id # NoKey /\ keyfile[conf.key_file] = node.id

FilesInv == NodeInv /\ FileInv /\ StartInv /\ IdInv

LEMMA FilesInit == SettingsInit => FilesInv
<1> SUFFICES ASSUME SettingsInit
             PROVE  FilesInv
  OBVIOUS
<1>1. node.at = "down"
  BY DEF SettingsInit, Stopped
<1>2. NodeInv
  <2>1. conf \in Conf
    BY DefaultsIsConf DEF SettingsInit
  <2>2. QED
    BY <2>1 DEF NodeInv, SettingsInit, Stopped, NoKey
<1>3. FileInv
  <2>1. PICK c \in Installed : disk = Lines(c) /\ want = [conf |-> c, lines |-> Len(Lines(c))]
    BY DEF SettingsInit
  <2>2. c \in Conf
    <3>1. PICK l \in {"off", "rx"} :
              c = [Defaults EXCEPT !.key_file = "own.key", !.link_mode = l, !.link_key = "secret"]
      BY <2>1 DEF Installed
    <3>2. "own.key" \in Legal("key_file") /\ l \in Legal("link_mode") /\ "secret" \in Legal("link_key")
      BY DEF Legal, Path
    <3>3. QED
      BY <3>1, <3>2, DefaultsIsConf DEF Conf
  <2>3. Lines(c) \in Seq(Line)
    BY <2>2, LinesAre DEF File
  <2>4. PICK n \in Nat : n = Len(Lines(c))
    BY <2>3, LenProperties
  <2>5. want.conf = c /\ want.lines = n
    BY <2>1, <2>4
  <2>6. Lines(c) \in CutAt(Lines(c), n)
    <3>1. PICK s \in Seq(Line) : s = Lines(c)
      BY <2>3
    <3>2. SubSeq(s, 1, Len(s)) = s
      BY SubSeqFull
    <3>3. QED
      BY <2>4, <3>1, <3>2 DEF CutAt
  <2>7. QED
    BY <2>1, <2>2, <2>4, <2>5, <2>6 DEF FileInv, Saved, InWhole
<1>4. QED
  BY <1>1, <1>2, <1>3 DEF FilesInv, StartInv, IdInv, SettingsInit

(* A save, done, cut or refused.                                           *)
LEMMA SaveKeeps ==
  ASSUME NEW c \in Conf, Save(c), FileInv, NodeInv, hurt' = hurt \/ hurt' = TRUE
  PROVE  FileInv' /\ spent'.starts = spent.starts /\ spent' \in [sets : Nat, saves : Nat, starts : Nat]
<1>1. spent' = [spent EXCEPT !.saves = spent.saves + 1]
  BY DEF Save, Written
<1>2. CASE UNCHANGED <<disk, want, hurt>>
  BY <1>1, <1>2 DEF FileInv, Saved, InWhole, NodeInv
<1>3. ASSUME NEW n \in 0..Len(Lines(c)), Written(c, n)
      PROVE  FileInv'
  <2>1. want'.conf = c /\ want'.lines = n /\ disk' \in CutAt(Lines(c), n)
    BY <1>3 DEF Written
  <2>2. Saved(want', disk')
    BY <2>1 DEF Saved
  <2>3. ASSUME ~hurt'
        PROVE  InWhole(want')
    <3>1. ~(n < Len(Lines(c)))
      BY <1>3, <2>3 DEF Written
    <3>2. Len(Lines(c)) \in Nat
      BY LinesAre, LenProperties DEF File
    <3>3. n = Len(Lines(c))
      BY <3>1, <3>2
    <3>4. QED
      BY <2>1, <3>3 DEF InWhole
  <2>4. FileInv' = (Saved(want', disk') /\ (~hurt' => InWhole(want')))
    BY DEF FileInv
  <2>5. QED
    BY <2>2, <2>3, <2>4
<1>4. FileInv'
  BY <1>2, <1>3 DEF Save
<1>5. QED
  BY <1>1, <1>4 DEF NodeInv

(* The process stays up while settings change.                             *)
LEMMA UpKeeps ==
  ASSUME FilesInv, Up, Fixed, conf' \in Conf, FileInv', hurt' \in BOOLEAN, ~hurt' => ~hurt,
         spent'.starts = spent.starts, spent' \in [sets : Nat, saves : Nat, starts : Nat]
  PROVE  FilesInv'
<1>1. node.at = "up" /\ node' = node /\ start' = start /\ keyfile' = keyfile /\ onair' = onair
  BY DEF Up, Fixed
<1>2. NodeInv'
  BY <1>1 DEF FilesInv, NodeInv
<1>3. StartInv'
  BY <1>1 DEF FilesInv, StartInv
<1>4. IdInv'
  BY <1>1 DEF FilesInv, IdInv
<1>5. QED
  BY <1>2, <1>3, <1>4 DEF FilesInv

(* The process ends, and what it leaves is as it was.                      *)
LEMMA EndKeeps ==
  ASSUME FilesInv, Ends, UNCHANGED <<disk, keyfile, want, start, onair, spent>>,
         hurt' \in BOOLEAN, ~hurt' => ~hurt
  PROVE  FilesInv'
<1>1. node' = Stopped /\ conf' = Defaults /\ node'.at = "down"
  BY DEF Ends, Stopped
<1>2. NodeInv'
  BY <1>1, DefaultsIsConf DEF FilesInv, NodeInv, Stopped, NoKey
<1>3. FileInv'
  BY DEF FilesInv, FileInv, Saved, InWhole
<1>4. StartInv' /\ IdInv'
  BY <1>1 DEF FilesInv, StartInv, IdInv
<1>5. QED
  BY <1>2, <1>3, <1>4 DEF FilesInv

LEMMA StartConfigKeeps == FilesInv /\ StartConfig => FilesInv'
<1> SUFFICES ASSUME FilesInv, StartConfig
             PROVE  FilesInv'
  OBVIOUS
<1>1. /\ node.at = "down" /\ conf' = Load(Defaults, disk) /\ start'.conf = conf' /\ start'.want = want
      /\ node' = [node EXCEPT !.at = "identity"] /\ spent' = [spent EXCEPT !.starts = spent.starts + 1]
      /\ UNCHANGED <<disk, keyfile, want, onair, hurt>>
  BY DEF StartConfig
<1>2. Started(want, conf') /\ conf' \in Conf
  BY <1>1, StartedIsConf DEF FilesInv, FileInv, Started
<1>3. node'.at = "identity" /\ spent'.starts = spent.starts + 1
  BY <1>1 DEF FilesInv, NodeInv
<1>4. NodeInv'
  BY <1>1, <1>2 DEF FilesInv, NodeInv
<1>5. FileInv'
  BY <1>1 DEF FilesInv, FileInv, Saved, InWhole
<1>6. StartInv'
  <2>1. spent'.starts > 0
    BY <1>3 DEF FilesInv, NodeInv
  <2>2. Started(start'.want, start'.conf) /\ (~hurt' => InWhole(start'.want))
    BY <1>1, <1>2 DEF FilesInv, FileInv
  <2>3. QED
    BY <1>1, <1>3, <2>1, <2>2 DEF StartInv
<1>7. IdInv'
  BY <1>1, <1>3 DEF FilesInv, IdInv
<1>8. QED
  BY <1>4, <1>5, <1>6, <1>7 DEF FilesInv

LEMMA StartIdentityKeeps == FilesInv /\ StartIdentity => FilesInv'
<1> SUFFICES ASSUME FilesInv, StartIdentity
             PROVE  FilesInv'
  OBVIOUS
<1>1. node.at = "identity" /\ UNCHANGED <<conf, disk, keyfile, want, start, onair, hurt, spent>>
  BY DEF StartIdentity
<1>2. FileInv'
  BY <1>1 DEF FilesInv, FileInv, Saved, InWhole
<1>3. PICK k \in Nat : k = keyfile[conf.key_file]
  <2>1. conf.key_file \in Path
    BY DEF FilesInv, NodeInv, Conf, Legal
  <2>2. QED
    BY <2>1 DEF FilesInv, NodeInv
<1>4. CASE k # NoKey /\ node' = [node EXCEPT !.at = "hardware", !.id = k]
  <2>1. node'.at = "hardware" /\ node'.id = k
    BY <1>4 DEF FilesInv, NodeInv
  <2>2. NodeInv'
    BY <1>1, <1>4 DEF FilesInv, NodeInv
  <2>3. StartInv'
    BY <1>1, <2>1 DEF FilesInv, StartInv
  <2>4. IdInv'
    BY <1>1, <1>3, <1>4, <2>1 DEF FilesInv, IdInv
  <2>5. QED
    BY <1>2, <2>2, <2>3, <2>4 DEF FilesInv
<1>5. CASE k = NoKey /\ node' = [node EXCEPT !.at = "new", !.id = spent.starts]
  <2>1. node'.at = "new" /\ node'.id = spent.starts /\ spent.starts \in Nat
    BY <1>5 DEF FilesInv, NodeInv
  <2>2. NodeInv'
    BY <1>1, <1>5, <2>1 DEF FilesInv, NodeInv
  <2>3. StartInv'
    BY <1>1, <2>1 DEF FilesInv, StartInv
  <2>4. node'.id # NoKey
    BY <1>1, <2>1 DEF FilesInv, StartInv, NoKey
  <2>5. IdInv'
    BY <1>1, <1>3, <1>5, <2>1, <2>4 DEF FilesInv, IdInv
  <2>6. QED
    BY <1>2, <2>2, <2>3, <2>5 DEF FilesInv
<1>6. QED
  BY <1>3, <1>4, <1>5 DEF StartIdentity

LEMMA SaveIdentityKeeps == FilesInv /\ SaveIdentity => FilesInv'
<1> SUFFICES ASSUME FilesInv, SaveIdentity
             PROVE  FilesInv'
  OBVIOUS
<1>1. node.at = "new" /\ UNCHANGED <<disk, want, start, onair, spent>>
  BY DEF SaveIdentity
<1>2. conf.key_file \in Path /\ node.id \in Nat
  BY DEF FilesInv, NodeInv, Conf, Legal
<1>3. CASE /\ keyfile' = [keyfile EXCEPT ![conf.key_file] = node.id]
           /\ node' = [node EXCEPT !.at = "hardware"] /\ UNCHANGED <<conf, hurt>>
  <2>1. node'.at = "hardware" /\ node'.id = node.id
    BY <1>3 DEF FilesInv, NodeInv
  <2>2. NodeInv'
    BY <1>1, <1>2, <1>3 DEF FilesInv, NodeInv
  <2>3. FileInv'
    BY <1>1, <1>3 DEF FilesInv, FileInv, Saved, InWhole
  <2>4. StartInv'
    BY <1>1, <1>3, <2>1 DEF FilesInv, StartInv
  <2>5. keyfile'[conf.key_file] = node.id /\ \A p \in Path \ {conf.key_file} : keyfile'[p] = keyfile[p]
    BY <1>2, <1>3 DEF FilesInv, NodeInv
  <2>6. ASSUME ~hurt', NEW x \in onair
        PROVE  x.file \in Path /\ x.id # NoKey /\ keyfile'[x.file] = x.id
    <3>1. x.file \in Path /\ x.id # NoKey /\ keyfile[x.file] = x.id /\ keyfile[conf.key_file] = NoKey
      BY <1>1, <1>3, <2>6 DEF FilesInv, IdInv
    <3>2. x.file # conf.key_file
      BY <3>1
    <3>3. QED
      BY <2>5, <3>1, <3>2
  <2>7. ~hurt' => node'.id # NoKey /\ keyfile'[conf'.key_file] = node'.id
    BY <1>1, <1>3, <2>1, <2>5 DEF FilesInv, IdInv
  <2>8. IdInv'
    BY <1>1, <2>1, <2>6, <2>7 DEF IdInv
  <2>9. QED
    BY <2>2, <2>3, <2>4, <2>8 DEF FilesInv
<1>4. CASE hurt' = TRUE /\ UNCHANGED keyfile /\ Ends
  BY <1>1, <1>4, EndKeeps
<1>5. CASE /\ hurt' = TRUE /\ UNCHANGED keyfile
           /\ node' = [node EXCEPT !.at = "hardware"] /\ UNCHANGED conf
  <2>1. node'.at = "hardware"
    BY <1>5 DEF FilesInv, NodeInv
  <2>2. NodeInv'
    BY <1>1, <1>5 DEF FilesInv, NodeInv
  <2>3. FileInv'
    BY <1>1, <1>5 DEF FilesInv, FileInv, Saved, InWhole
  <2>4. StartInv'
    BY <1>1, <1>5, <2>1 DEF FilesInv, StartInv
  <2>5. IdInv'
    BY <1>5 DEF IdInv
  <2>6. QED
    BY <2>2, <2>3, <2>4, <2>5 DEF FilesInv
<1>6. QED
  BY <1>3, <1>4, <1>5 DEF SaveIdentity

LEMMA StartHardwareKeeps == FilesInv /\ StartHardware => FilesInv'
<1> SUFFICES ASSUME FilesInv, StartHardware
             PROVE  FilesInv'
  OBVIOUS
<1>1. node.at = "hardware" /\ UNCHANGED <<disk, keyfile, want, start, hurt, spent>>
  BY DEF StartHardware
<1>2. CASE Ends /\ UNCHANGED onair
  BY <1>1, <1>2, EndKeeps DEF FilesInv, NodeInv
<1>3. CASE /\ node' = [node EXCEPT !.at = "up", !.rx = conf.link_mode = "rx"]
           /\ onair' \in {onair, onair \cup {[file |-> start.want.conf.key_file, id |-> node.id]}}
           /\ UNCHANGED conf
  <2>1. node'.at = "up" /\ node'.rx = (conf.link_mode = "rx") /\ node'.id = node.id
    BY <1>3 DEF FilesInv, NodeInv
  <2>2. NodeInv'
    BY <1>1, <1>3 DEF FilesInv, NodeInv
  <2>3. FileInv'
    BY <1>1 DEF FilesInv, FileInv, Saved, InWhole
  <2>4. conf = start.conf /\ Started(start.want, start.conf)
    BY <1>1 DEF FilesInv, StartInv
  <2>5. StartInv'
    <3>1. node'.rx = FALSE => start.conf.link_mode # "rx"
      BY <2>1, <2>4
    <3>2. ~node'.rx => node'.rx = FALSE
      BY <2>1
    <3>3. QED
      BY <1>1, <2>1, <3>1, <3>2 DEF FilesInv, StartInv
  <2>6. ASSUME ~hurt
        PROVE  \A x \in onair' : x.file \in Path /\ x.id # NoKey /\ keyfile[x.file] = x.id
    <3>1. conf.key_file = start.want.conf.key_file
      BY <1>1, <2>4, <2>6, StartedWhole DEF FilesInv, StartInv
    <3>2. conf.key_file \in Path
      BY DEF FilesInv, NodeInv, Conf, Legal
    <3>3. node.id # NoKey /\ keyfile[conf.key_file] = node.id
      BY <1>1, <2>6 DEF FilesInv, IdInv
    <3>4. \A x \in onair : x.file \in Path /\ x.id # NoKey /\ keyfile[x.file] = x.id
      BY <2>6 DEF FilesInv, IdInv
    <3>5. QED
      BY <1>3, <3>1, <3>2, <3>3, <3>4
  <2>7. IdInv'
    BY <1>1, <2>1, <2>6 DEF IdInv
  <2>8. QED
    BY <2>2, <2>3, <2>5, <2>7 DEF FilesInv
<1>4. QED
  BY <1>2, <1>3 DEF StartHardware

LEMMA FilesNext == FilesInv /\ [SettingsNext]_settingsVars => FilesInv'
<1> SUFFICES ASSUME FilesInv, [SettingsNext]_settingsVars
             PROVE  FilesInv'
  OBVIOUS
<1>1. conf \in Conf /\ hurt \in BOOLEAN /\ NodeInv /\ FileInv
  BY DEF FilesInv, NodeInv
<1>2. CASE CliSet
  <2>1. PICK k \in DOMAIN Defaults : \E v \in Typed(k) : conf' = ConfigSet(conf, k, v)
    BY <1>2 DEF CliSet
  <2>2. k \in Keys
    BY DEF Defaults, Keys
  <2>3. conf' \in Conf
    BY <1>1, <2>1, <2>2, SetKeepsConf
  <2>4. Up /\ Fixed /\ UNCHANGED <<disk, want, hurt>> /\ spent' = [spent EXCEPT !.sets = spent.sets + 1]
    BY <1>2 DEF CliSet
  <2>5. FileInv'
    BY <1>1, <2>4 DEF FileInv, Saved, InWhole
  <2>6. spent'.starts = spent.starts /\ spent' \in [sets : Nat, saves : Nat, starts : Nat]
    BY <1>1, <2>4 DEF NodeInv
  <2>7. QED
    BY <1>1, <2>3, <2>4, <2>5, <2>6, UpKeeps
<1>3. ASSUME Up, Fixed, conf' \in Conf, Save(conf')
      PROVE  FilesInv'
  <2>1. hurt' \in BOOLEAN /\ (~hurt' => ~hurt)
    <3>1. CASE hurt' = hurt
      BY <1>1, <3>1
    <3>2. ASSUME NEW n \in 0..Len(Lines(conf')), Written(conf', n)
          PROVE  hurt' \in BOOLEAN /\ (~hurt' => ~hurt)
      <4>1. hurt' = (hurt \/ n < Len(Lines(conf')))
        BY <3>2 DEF Written
      <4>2. QED
        BY <1>1, <4>1, Zenon
    <3>3. hurt' = hurt \/ \E n \in 0..Len(Lines(conf')) : Written(conf', n)
      BY <1>3 DEF Save
    <3>4. QED
      BY <3>1, <3>2, <3>3
  <2>2. hurt' = hurt \/ hurt' = TRUE
    BY <1>1, <2>1
  <2>3. PICK c \in Conf : c = conf'
    BY <1>3
  <2>4. Save(c)
    BY <1>3, <2>3
  <2>5. FileInv' /\ spent'.starts = spent.starts /\ spent' \in [sets : Nat, saves : Nat, starts : Nat]
    BY <1>1, <2>2, <2>4, SaveKeeps
  <2>6. QED
    BY <1>3, <2>1, <2>5, UpKeeps
<1>4. CASE CliSave
  <2>1. Up /\ Fixed /\ Save(conf) /\ conf' = conf
    BY <1>4 DEF CliSave
  <2>2. Save(conf')
    BY <2>1
  <2>3. QED
    BY <1>1, <1>3, <2>1, <2>2
<1>5. CASE CliBlacklist
  <2>1. PICK v \in Banned : \E l \in {BlacklistAdd(conf.blacklist, v), BlacklistRemove(conf.blacklist, v)} :
                              conf' = [conf EXCEPT !.blacklist = l]
    BY <1>5 DEF CliBlacklist
  <2>2. conf.blacklist \in NameList /\ v \in Legal("blacklist")
    BY <1>1 DEF Conf, Legal
  <2>3. {BlacklistAdd(conf.blacklist, v), BlacklistRemove(conf.blacklist, v)} \subseteq NameList
    BY <2>2, AddKeepsList, RemoveKeepsList
  <2>4. conf' \in Conf
    BY <1>1, <2>1, <2>3 DEF Conf
  <2>5. Up /\ Fixed /\ Save(conf')
    BY <1>5 DEF CliBlacklist
  <2>6. QED
    BY <1>3, <2>4, <2>5
<1>6. CASE CliReload
  <2>1. Up /\ Fixed /\ conf' = Load(conf, disk) /\ UNCHANGED <<disk, want, hurt, spent>>
    BY <1>6 DEF CliReload
  <2>2. disk \in Seq(Line)
    BY <1>1, SavedIsSeq DEF FileInv
  <2>3. conf' \in Conf
    BY <1>1, <2>1, <2>2, LoadIsConf
  <2>4. FileInv'
    BY <1>1, <2>1 DEF FileInv, Saved, InWhole
  <2>5. spent'.starts = spent.starts /\ spent' \in [sets : Nat, saves : Nat, starts : Nat]
    BY <1>1, <2>1 DEF NodeInv
  <2>6. QED
    BY <1>1, <2>1, <2>3, <2>4, <2>5, UpKeeps
<1>7. CASE Crash
  BY <1>1, <1>7, EndKeeps DEF Crash
<1>8. CASE UNCHANGED settingsVars
  <2>1. UNCHANGED <<conf, disk, keyfile, node, want, start, onair, hurt, spent>>
    BY <1>8 DEF settingsVars
  <2>2. NodeInv' /\ FileInv'
    BY <1>1, <2>1 DEF NodeInv, FileInv, Saved, InWhole
  <2>3. StartInv' /\ IdInv'
    BY <2>1 DEF FilesInv, StartInv, IdInv
  <2>4. QED
    BY <2>2, <2>3 DEF FilesInv
<1>9. QED
  BY <1>2, <1>4, <1>5, <1>6, <1>7, <1>8, StartConfigKeeps, StartIdentityKeeps, SaveIdentityKeeps,
     StartHardwareKeeps DEF SettingsNext

LEMMA FilesTyped == FilesInv => SettingsTypeOK
<1>1. ASSUME conf \in Conf
      PROVE  (\A k \in DOMAIN Defaults \ {"blacklist"} : conf[k] \in Legal(k))
             /\ Len(conf.blacklist) <= MaxBlacklist
  <2>1. DOMAIN Defaults \ {"blacklist"} = Single
    BY DEF Defaults, Single, Keys
  <2>2. QED
    BY <1>1, <2>1, ConfLegal DEF NameList
<1>2. QED
  BY <1>1 DEF FilesInv, NodeInv, SettingsTypeOK

(* A process starts with the settings last saved, as they read back, and   *)
(* if that save was cut, with a value, a piece of it or the default of     *)
(* each (config_save, config_load), for every file and every cut.          *)
THEOREM SettingsAlwaysSurvive == SettingsSpec => []SettingsSurvive
<1>1. ASSUME FilesInv
      PROVE  SettingsSurvive
  <2> SUFFICES ASSUME node.at # "down"
               PROVE  /\ start.want.lines = Len(Lines(start.want.conf)) =>
                           start.conf = RoundTrip(start.want.conf)
                      /\ \A k \in DOMAIN Defaults \ {"blacklist"} :
                           start.conf[k] \in {start.want.conf[k], RoundTrip(start.want.conf)[k], Defaults[k]}
                                                \cup Stubs(k, start.want.conf[k])
    BY DEF SettingsSurvive
  <2>1. Started(start.want, start.conf)
    BY <1>1 DEF FilesInv, StartInv
  <2>2. PICK d : Saved(start.want, d) /\ start.conf = Load(Defaults, d)
    BY <2>1 DEF Started
  <2>3. PICK c, n : c = start.want.conf /\ n = start.want.lines
    OBVIOUS
  <2>4. c \in Conf /\ n \in 0..Len(Lines(c)) /\ d \in CutAt(Lines(c), n)
    BY <2>2, <2>3 DEF Saved
  <2>5. n = Len(Lines(c)) => start.conf = RoundTrip(c)
    BY <2>1, <2>3, StartedWhole DEF InWhole
  <2>6. DOMAIN Defaults \ {"blacklist"} = Single
    BY DEF Defaults, Single, Keys
  <2>7. \A k \in Single : start.conf[k] \in {c[k], RoundTrip(c)[k], Defaults[k]} \cup Stubs(k, c[k])
    BY <2>2, <2>4, CutSurvives
  <2>8. QED
    BY <2>3, <2>5, <2>6, <2>7
<1>2. QED
  BY FilesInit, FilesNext, <1>1, PTL DEF SettingsSpec

(* A node saved as an ear transmits only if the line that says so was lost *)
(* (rx_node, link_init, the order of config_save), for every cut.          *)
THEOREM EarsNeverTransmit == SettingsSpec => []RxNeverTransmits
<1>1. (CHOOSE i \in 1..Len(Ordered) : Ordered[i] = "link_mode") = 6
  <2>1. 6 \in 1..6 /\ \A i \in 1..6 : Ordered[i] = "link_mode" => i = 6
    <3>1. ASSUME NEW i \in 1..6, Ordered[i] = "link_mode"
          PROVE  i = 6
      <4>1. i = 1 \/ i = 2 \/ i = 3 \/ i = 4 \/ i = 5 \/ i = 6
        OBVIOUS
      <4>2. QED
        BY <3>1, <4>1, Ordering
    <3>2. QED
      BY <3>1
  <2>2. QED
    BY <2>1, Ordering
<1>2. ASSUME FilesInv
      PROVE  RxNeverTransmits
  <2> SUFFICES ASSUME Up, ~node.rx, start.want.conf.link_mode = "rx"
               PROVE  start.want.lines < 6
    BY <1>1 DEF RxNeverTransmits
  <2>1. Started(start.want, start.conf) /\ start.conf.link_mode # "rx"
    BY <1>2 DEF FilesInv, StartInv, Up
  <2>2. start.want.lines \in Nat
    <3>1. PICK d : Saved(start.want, d)
      BY <2>1 DEF Started
    <3>2. start.want.conf \in Conf /\ start.want.lines \in 0..Len(Lines(start.want.conf))
      BY <3>1 DEF Saved
    <3>3. Len(Lines(start.want.conf)) \in Nat
      BY <3>2, LinesAre, LenProperties DEF File
    <3>4. QED
      BY <3>2, <3>3
  <2>3. ~(start.want.lines >= 6)
    BY <2>1, EarIsEar
  <2>4. QED
    BY <2>2, <2>3
<1>3. QED
  BY FilesInit, FilesNext, <1>2, PTL DEF SettingsSpec

(* A node keeps one identity on air for each key file, unless a write of   *)
(* one of its files failed or was cut (mc_identity_load, mc_identity_save).*)
THEOREM IdentityAlwaysKept == SettingsSpec => []IdentityKept
<1>1. FilesInv => IdentityKept
  <2> SUFFICES ASSUME FilesInv, ~hurt, NEW x \in onair, NEW y \in onair, x.file = y.file
               PROVE  x.id = y.id
    BY DEF IdentityKept
  <2>1. keyfile[x.file] = x.id /\ keyfile[y.file] = y.id
    BY DEF FilesInv, IdInv
  <2>2. QED
    BY <2>1
<1>2. QED
  BY FilesInit, FilesNext, <1>1, PTL DEF SettingsSpec

----------------------------------------------------------------------------
(* The table of the monitors.                                              *)
Entry == [fd : Client, kind : {t.kind : t \in Target}, name : {t.name : t \in Target}]
Distinct(s) == \A i, j \in 1..Len(s) : s[i].fd = s[j].fd => i = j
Entries(s) == {s[i] : i \in 1..Len(s)}
Tables == {s \in Seq(Entry) : Distinct(s)}

\* f[k] is what is left of table c after the first k of the places s.
Reaping(f, c, s) ==
  f[0] = c /\ f[Len(s)] = ReapAll(c, s) /\ \A k \in 1..Len(s) : f[k] = ReapEntry(f[k - 1], s[k])

(* The table is reaped entry by entry (monitor_reap).                       *)
LEMMA ReapFold ==
  ASSUME NEW P, NEW s \in Seq(P), NEW D, NEW c, c \in D, \A d \in D, p \in P : ReapEntry(d, p) \in D
  PROVE  \E f \in [0..Len(s) -> D] : Reaping(f, c, s)
<1>a. PICK n \in Nat : n = Len(s) /\ DOMAIN s = 1..n /\ \A k \in 1..n : s[k] \in P
  OBVIOUS
<1>b. \A d \in D, k \in 1..n : ReapEntry(d, s[k]) \in D
  BY <1>a
<1> DEFINE E(it) == it = [S \in SUBSET (DOMAIN s) |->
                            IF S = {} THEN c ELSE ReapEntry(it[S \ {Max(S)}], s[Max(S)])]
           iter == CHOOSE it : E(it)
           g == [p \in D \X (1..n) |-> ReapEntry(p[1], s[p[2]])]
<1>1. ReapAll(c, s) = iter[DOMAIN s]
  BY DEF ReapAll, FoldLeft, MapThenFoldSet
<1>2. \E it : E(it)
  <2>1. g \in [D \X (1..n) -> D]
    BY <1>b
  <2>2. \A d \in D, k \in 1..n : g[<<d, k>>] = ReapEntry(d, s[k])
    OBVIOUS
  <2> HIDE DEF g
  <2>3. PICK h \in [SUBSET (1..n) -> D] : IsFold(h, g, c, n)
    BY <2>1, FoldExists
  <2>4. ASSUME NEW S \in SUBSET (1..n)
        PROVE  h[S] = IF S = {} THEN c ELSE ReapEntry(h[S \ {Max(S)}], s[Max(S)])
    <3>1. CASE S = {}
      BY <3>1, <2>3 DEF IsFold
    <3>2. CASE S # {}
      <4>1. Max(S) \in 1..n /\ h[S \ {Max(S)}] \in D
        BY <3>2, MaxIn
      <4>2. h[S] = g[<<h[S \ {Max(S)}], Max(S)>>]
        BY <3>2, <2>3 DEF IsFold
      <4>3. QED
        BY <4>1, <4>2, <2>2, <3>2
    <3>3. QED
      BY <3>1, <3>2
  <2>5. E(h)
    BY <2>4, <1>a
  <2>6. QED
    BY <2>5
<1>3. E(iter)
  BY <1>2
<1> DEFINE f == [k \in 0..n |-> iter[1..k]]
<1> HIDE DEF iter
<1>4. f[0] = c
  <2>1. 1..0 = {} /\ {} \in SUBSET (DOMAIN s)
    OBVIOUS
  <2>2. iter[{}] = c
    BY <1>a, <1>3, <2>1
  <2>3. QED
    BY <2>1, <2>2
<1>5. ASSUME NEW k \in 1..n
      PROVE  f[k] = ReapEntry(f[k - 1], s[k])
  <2>1. 1..k \in SUBSET (DOMAIN s) /\ 1..k # {}
    <3>1. k \in 1..k /\ \A i \in 1..k : i \in 1..n
      OBVIOUS
    <3>2. QED
      BY <3>1, <1>a
  <2>2. iter[1..k] = ReapEntry(iter[(1..k) \ {Max(1..k)}], s[Max(1..k)])
    BY <1>a, <1>3, <2>1
  <2>3. Max(1..k) = k /\ (1..k) \ {k} = 1..k - 1
    BY MaxUpTo
  <2>4. f[k] = iter[1..k] /\ f[k - 1] = iter[1..k - 1]
    <3>1. k \in 0..n /\ k - 1 \in 0..n
      OBVIOUS
    <3>2. QED
      BY <3>1
  <2>5. QED
    BY <2>2, <2>3, <2>4
<1>6. f[n] = ReapAll(c, s)
  BY <1>1, <1>a
<1>7. f \in [0..n -> D]
  <2> HIDE DEF f
  <2> DEFINE T == {k \in 0..n : f[k] \in D}
  <2>1. 0 \in T
    BY <1>4
  <2>2. \A k \in 0..n - 1 : k \in T => k + 1 \in T
    <3>1. ASSUME NEW k \in 0..n - 1, k \in T
          PROVE  k + 1 \in T
      <4>1. k + 1 \in 1..n /\ (k + 1) - 1 = k /\ k + 1 \in 0..n
        OBVIOUS
      <4>2. f[k + 1] = ReapEntry(f[k], s[k + 1])
        BY <4>1, <1>5
      <4>3. f[k + 1] \in D
        BY <3>1, <4>1, <4>2, <1>b
      <4>4. QED
        BY <4>1, <4>3
    <3>2. QED
      BY <3>1
  <2>3. \A k \in 0..n : k \in T
    <3> HIDE DEF T
    <3>1. QED
      BY <2>1, <2>2, UpTo
  <2>4. \A k \in 0..n : f[k] \in D
    BY <2>3
  <2>5. DOMAIN f = 0..n /\ f = [k \in 0..n |-> f[k]]
    BY DEF f
  <2>6. QED
    BY <2>4, <2>5
<1> HIDE DEF f
<1>8. Reaping(f, c, s)
  BY <1>a, <1>4, <1>5, <1>6 DEF Reaping
<1>9. QED
  BY <1>a, <1>7, <1>8

Unwritten(table) == [conn |-> table, wrote |-> <<>>]

\* f[k] is what becomes of table c at the first k of the places s.
Writing(f, c, s, e, broken) ==
  /\ f[0] = Unwritten(c) /\ f[Len(s)] = WriteAll(c, s, e, broken)
  /\ \A k \in 1..Len(s) : f[k] = Write(f[k - 1], s[k], e, broken)

(* An event is written entry by entry (mon_write).                          *)
LEMMA WriteFold ==
  ASSUME NEW P, NEW s \in Seq(P), NEW D, NEW c, NEW e, NEW broken,
         Unwritten(c) \in D, \A d \in D, p \in P : Write(d, p, e, broken) \in D
  PROVE  \E f \in [0..Len(s) -> D] : Writing(f, c, s, e, broken)
<1>a. PICK n \in Nat : n = Len(s) /\ DOMAIN s = 1..n /\ \A k \in 1..n : s[k] \in P
  OBVIOUS
<1>b. \A d \in D, k \in 1..n : Write(d, s[k], e, broken) \in D
  BY <1>a
<1> DEFINE E(it) == it = [S \in SUBSET (DOMAIN s) |->
                            IF S = {} THEN Unwritten(c) ELSE Write(it[S \ {Max(S)}], s[Max(S)], e, broken)]
           iter == CHOOSE it : E(it)
           g == [p \in D \X (1..n) |-> Write(p[1], s[p[2]], e, broken)]
<1>1. WriteAll(c, s, e, broken) = iter[DOMAIN s]
  BY DEF WriteAll, Unwritten, FoldLeft, MapThenFoldSet
<1>2. \E it : E(it)
  <2>1. g \in [D \X (1..n) -> D]
    BY <1>b
  <2>2. \A d \in D, k \in 1..n : g[<<d, k>>] = Write(d, s[k], e, broken)
    OBVIOUS
  <2> HIDE DEF g
  <2>3. PICK h \in [SUBSET (1..n) -> D] : IsFold(h, g, Unwritten(c), n)
    BY <2>1, FoldExists
  <2>4. ASSUME NEW S \in SUBSET (1..n)
        PROVE  h[S] = IF S = {} THEN Unwritten(c) ELSE Write(h[S \ {Max(S)}], s[Max(S)], e, broken)
    <3>1. CASE S = {}
      BY <3>1, <2>3 DEF IsFold
    <3>2. CASE S # {}
      <4>1. Max(S) \in 1..n /\ h[S \ {Max(S)}] \in D
        BY <3>2, MaxIn
      <4>2. h[S] = g[<<h[S \ {Max(S)}], Max(S)>>]
        BY <3>2, <2>3 DEF IsFold
      <4>3. QED
        BY <4>1, <4>2, <2>2, <3>2
    <3>3. QED
      BY <3>1, <3>2
  <2>5. E(h)
    BY <2>4, <1>a
  <2>6. QED
    BY <2>5
<1>3. E(iter)
  BY <1>2
<1> DEFINE f == [k \in 0..n |-> iter[1..k]]
<1> HIDE DEF iter
<1>4. f[0] = Unwritten(c)
  <2>1. 1..0 = {} /\ {} \in SUBSET (DOMAIN s)
    OBVIOUS
  <2>2. iter[{}] = Unwritten(c)
    BY <1>a, <1>3, <2>1
  <2>3. QED
    BY <2>1, <2>2
<1>5. ASSUME NEW k \in 1..n
      PROVE  f[k] = Write(f[k - 1], s[k], e, broken)
  <2>1. 1..k \in SUBSET (DOMAIN s) /\ 1..k # {}
    <3>1. k \in 1..k /\ \A i \in 1..k : i \in 1..n
      OBVIOUS
    <3>2. QED
      BY <3>1, <1>a
  <2>2. iter[1..k] = Write(iter[(1..k) \ {Max(1..k)}], s[Max(1..k)], e, broken)
    BY <1>a, <1>3, <2>1
  <2>3. Max(1..k) = k /\ (1..k) \ {k} = 1..k - 1
    BY MaxUpTo
  <2>4. f[k] = iter[1..k] /\ f[k - 1] = iter[1..k - 1]
    <3>1. k \in 0..n /\ k - 1 \in 0..n
      OBVIOUS
    <3>2. QED
      BY <3>1
  <2>5. QED
    BY <2>2, <2>3, <2>4
<1>6. f[n] = WriteAll(c, s, e, broken)
  BY <1>1, <1>a
<1>7. f \in [0..n -> D]
  <2> HIDE DEF f
  <2> DEFINE T == {k \in 0..n : f[k] \in D}
  <2>1. 0 \in T
    BY <1>4
  <2>2. \A k \in 0..n - 1 : k \in T => k + 1 \in T
    <3>1. ASSUME NEW k \in 0..n - 1, k \in T
          PROVE  k + 1 \in T
      <4>1. k + 1 \in 1..n /\ (k + 1) - 1 = k /\ k + 1 \in 0..n
        OBVIOUS
      <4>2. f[k + 1] = Write(f[k], s[k + 1], e, broken)
        BY <4>1, <1>5
      <4>3. f[k + 1] \in D
        BY <3>1, <4>1, <4>2, <1>b
      <4>4. QED
        BY <4>1, <4>3
    <3>2. QED
      BY <3>1
  <2>3. \A k \in 0..n : k \in T
    <3> HIDE DEF T
    <3>1. QED
      BY <2>1, <2>2, UpTo
  <2>4. \A k \in 0..n : f[k] \in D
    BY <2>3
  <2>5. DOMAIN f = 0..n /\ f = [k \in 0..n |-> f[k]]
    BY DEF f
  <2>6. QED
    BY <2>4, <2>5
<1> HIDE DEF f
<1>8. Writing(f, c, s, e, broken)
  BY <1>a, <1>4, <1>5, <1>6 DEF Writing
<1>9. QED
  BY <1>a, <1>7, <1>8

(* mon_drop takes out one entry; those before it stay where they are.      *)
LEMMA DropIs ==
  ASSUME NEW s \in Tables, NEW i \in 1..Len(s)
  PROVE  /\ Drop(s, i) \in Tables /\ Len(Drop(s, i)) = Len(s) - 1
         /\ \A k \in 1..i - 1 : Drop(s, i)[k] = s[k]
         /\ Entries(Drop(s, i)) = Entries(s) \ {s[i]}
<1>1. PICK n \in Nat : n = Len(s) /\ \A k \in 1..n : s[k] \in Entry
  BY DEF Tables
<1>2. \A j, k \in 1..n : s[j].fd = s[k].fd => j = k
  BY <1>1 DEF Tables, Distinct
<1>3. i \in 1..n /\ n - 1 \in Nat /\ n \in 1..n
  BY <1>1
<1> DEFINE from(k) == IF k = i THEN n ELSE k
<1>4. PICK d : d = Drop(s, i)
  OBVIOUS
<1>5. d = [k \in 1..n - 1 |-> s[from(k)]]
  BY <1>1, <1>4 DEF Drop
<1>6. \A k \in 1..n - 1 : from(k) \in 1..n /\ from(k) # i
  BY <1>3
<1>7. \A j \in 1..n - 1, k \in 1..n - 1 : from(j) = from(k) => j = k
  BY <1>3
<1>8. d \in Seq(Entry) /\ Len(d) = n - 1 /\ \A k \in 1..n - 1 : d[k] = s[from(k)]
  BY <1>1, <1>3, <1>5, <1>6
<1>9. \A m \in 1..n : m # i => \E k \in 1..n - 1 : from(k) = m
  <2>1. ASSUME NEW m \in 1..n, m # i
        PROVE  \E k \in 1..n - 1 : from(k) = m
    <3>1. CASE m = n
      <4>1. i \in 1..n - 1 /\ from(i) = m
        BY <1>3, <2>1, <3>1
      <4>2. QED
        BY <4>1
    <3>2. CASE m # n
      <4>1. m \in 1..n - 1 /\ from(m) = m
        BY <2>1, <3>2
      <4>2. QED
        BY <4>1
    <3>3. QED
      BY <3>1, <3>2
  <2>2. QED
    BY <2>1
<1>10. \A k \in 1..i - 1 : d[k] = s[k]
  <2>1. \A k \in 1..i - 1 : k \in 1..n - 1 /\ from(k) = k
    BY <1>3
  <2>2. QED
    BY <1>8, <2>1
<1> HIDE DEF from
<1>11. \A j, k \in 1..n - 1 : d[j].fd = d[k].fd => j = k
  <2>1. ASSUME NEW j \in 1..n - 1, NEW k \in 1..n - 1, d[j].fd = d[k].fd
        PROVE  j = k
    <3>1. s[from(j)].fd = s[from(k)].fd /\ from(j) \in 1..n /\ from(k) \in 1..n
      BY <1>6, <1>8, <2>1
    <3>2. from(j) = from(k)
      BY <1>2, <3>1
    <3>3. QED
      BY <1>7, <3>2
  <2>2. QED
    BY <2>1
<1>12. d \in Tables
  BY <1>8, <1>11 DEF Tables, Distinct
<1>13. Entries(d) = Entries(s) \ {s[i]}
  <2>1. ASSUME NEW x \in Entries(d)
        PROVE  x \in Entries(s) \ {s[i]}
    <3>1. PICK k \in 1..n - 1 : x = d[k]
      BY <1>8, <2>1 DEF Entries
    <3>2. x = s[from(k)] /\ from(k) \in 1..n /\ from(k) # i
      BY <1>6, <1>8, <3>1
    <3>3. x # s[i]
      BY <1>2, <1>3, <3>2
    <3>4. QED
      BY <1>1, <3>2, <3>3 DEF Entries
  <2>2. ASSUME NEW x \in Entries(s) \ {s[i]}
        PROVE  x \in Entries(d)
    <3>1. PICK m \in 1..n : x = s[m] /\ m # i
      BY <1>1, <2>2 DEF Entries
    <3>2. PICK k \in 1..n - 1 : from(k) = m
      BY <1>9, <3>1
    <3>3. x = d[k]
      BY <1>8, <3>1, <3>2
    <3>4. QED
      BY <1>8, <3>3 DEF Entries
  <2>3. QED
    BY <2>1, <2>2
<1>14. QED
  BY <1>1, <1>4, <1>8, <1>10, <1>12, <1>13

LEMMA BackwardsIs ==
  ASSUME NEW n \in Nat
  PROVE  Backwards(n) \in Seq(1..n) /\ Len(Backwards(n)) = n /\ \A k \in 1..n : Backwards(n)[k] = (n + 1) - k
<1>1. \A k \in 1..n : (n + 1) - k \in 1..n
  OBVIOUS
<1>2. Backwards(n) = [k \in 1..n |-> (n + 1) - k]
  BY DEF Backwards
<1>3. QED
  BY <1>1, <1>2

\* s is what a walk down to place j makes of t: what is before j is untouched,
\* and of the rest the entries at the places in out are missing.
Walked(t, s, j, out) ==
  /\ s \in Tables /\ Len(s) <= Len(t) /\ j <= Len(s)
  /\ \A k \in 1..j : s[k] = t[k]
  /\ Entries(s) = Entries(t) \ {t[i] : i \in out}

(* A place is passed: its entry is dropped, or not.                        *)
LEMMA WalkOn ==
  ASSUME NEW t \in Tables, NEW s, NEW j \in Nat \ {0}, NEW out \in SUBSET Nat, Walked(t, s, j, out)
  PROVE  /\ Walked(t, s, j - 1, out)
         /\ Walked(t, Drop(s, j), j - 1, out \cup {j})
<1>1. s \in Tables /\ Len(s) <= Len(t) /\ j <= Len(s) /\ \A k \in 1..j : s[k] = t[k]
  BY DEF Walked
<1>2. PICK n \in Nat : n = Len(s)
  BY <1>1, LenProperties DEF Tables
<1>3. PICK m \in Nat : m = Len(t)
  BY LenProperties DEF Tables
<1>4. j \in 1..n /\ n <= m
  BY <1>1, <1>2, <1>3
<1>5. Walked(t, s, j - 1, out)
  BY <1>1, <1>2, <1>4 DEF Walked
<1>6. PICK d : d = Drop(s, j)
  OBVIOUS
<1>7. d \in Tables /\ Len(d) = n - 1 /\ (\A k \in 1..j - 1 : d[k] = s[k]) /\ Entries(d) = Entries(s) \ {s[j]}
  BY <1>1, <1>2, <1>4, <1>6, DropIs
<1>8. s[j] = t[j]
  BY <1>1, <1>4
<1>9. Entries(d) = Entries(t) \ {t[i] : i \in out \cup {j}}
  BY <1>7, <1>8 DEF Walked
<1>10. \A k \in 1..j - 1 : d[k] = t[k]
  BY <1>1, <1>4, <1>7
<1>11. Len(d) <= m /\ j - 1 <= Len(d)
  BY <1>4, <1>7
<1>12. Walked(t, d, j - 1, out \cup {j})
  BY <1>3, <1>7, <1>9, <1>10, <1>11 DEF Walked
<1>13. QED
  BY <1>5, <1>6, <1>12

(* monitor_reap: the entries polled and found gone are dropped, no others. *)
LEMMA ReapAllIs ==
  ASSUME NEW t \in Tables, NEW n \in 0..Len(t)
  PROVE  \E out : /\ out = {i \in 1..n : Gone(i, t[i].fd)}
                  /\ Walked(t, ReapAll(t, Backwards(n)), 0, out)
<1>1. PICK m \in Nat : m = Len(t) /\ n \in 0..m
  BY LenProperties DEF Tables
<1>2. PICK order \in Seq(1..n) :
        order = Backwards(n) /\ Len(order) = n /\ \A k \in 1..n : order[k] = (n + 1) - k
  BY <1>1, BackwardsIs
<1>3. \A d \in Tables, p \in 1..n : ReapEntry(d, p) \in Tables
  <2>1. ASSUME NEW d \in Tables, NEW p \in 1..n
        PROVE  ReapEntry(d, p) \in Tables
    <3>1. PICK y \in Nat : y = Len(d)
      BY LenProperties DEF Tables
    <3>2. CASE p <= y
      BY <1>1, <3>1, <3>2, DropIs DEF ReapEntry
    <3>3. CASE ~(p <= y)
      BY <3>1, <3>3 DEF ReapEntry
    <3>4. QED
      BY <3>2, <3>3
  <2>2. QED
    BY <2>1
<1>4. PICK f \in [0..n -> Tables] : Reaping(f, t, order)
  BY <1>2, <1>3, ReapFold
<1> DEFINE out(j) == {i \in j + 1..n : Gone(i, t[i].fd)}
           T == {k \in 0..n : Walked(t, f[k], n - k, out(n - k))}
<1>5. 0 \in T
  <2>1. out(n) = {} /\ f[0] = t /\ n - 0 = n
    <3>1. n + 1..n = {}
      BY <1>1
    <3>2. QED
      BY <3>1, <1>4 DEF Reaping
  <2>2. Walked(t, t, n, {})
    BY <1>1 DEF Walked
  <2>3. Walked(t, f[0], n - 0, out(n - 0))
    <3> HIDE DEF out
    <3>1. QED
      BY <2>1, <2>2
  <2>4. 0 \in 0..n
    BY <1>1
  <2>5. QED
    BY <2>3, <2>4
<1>6. ASSUME NEW k \in 0..n - 1, k \in T
      PROVE  k + 1 \in T
  <2>1. PICK j \in 1..n : j = n - k
    BY <1>1
  <2>2. k + 1 \in 1..n /\ (k + 1) - 1 = k /\ (n + 1) - (k + 1) = j /\ n - (k + 1) = j - 1 /\ k + 1 \in 0..n
    BY <1>1, <2>1
  <2>3. PICK s \in Tables : s = f[k]
    <3>1. k \in 0..n
      BY <1>1
    <3>2. QED
      BY <1>4, <3>1
  <2>4. PICK o \in SUBSET Nat : o = out(j)
    <3>1. \A i \in j + 1..n : i \in Nat
      BY <1>1, <2>1
    <3>2. out(j) \in SUBSET Nat
      BY <3>1
    <3>3. QED
      BY <3>2
  <2>5. Walked(t, s, j, o)
    BY <1>6, <2>1, <2>3, <2>4
  <2>6. f[k + 1] = ReapEntry(s, j)
    BY <1>2, <1>4, <2>2, <2>3 DEF Reaping
  <2>7. j \in Nat \ {0} /\ j <= Len(s) /\ s[j] = t[j]
    <3>1. j \in Nat \ {0} /\ j \in 1..j
      BY <1>1
    <3>2. QED
      BY <2>5, <3>1 DEF Walked
  <2>8. Walked(t, s, j - 1, o) /\ Walked(t, Drop(s, j), j - 1, o \cup {j})
    BY <2>5, <2>7, WalkOn
  <2>9. out(j - 1) = IF Gone(j, t[j].fd) THEN o \cup {j} ELSE o
    <3>1. (j - 1) + 1 = j /\ \A i \in j..n : i = j \/ i \in j + 1..n
      BY <1>1, <2>1
    <3>2. j \in j..n /\ \A i \in j + 1..n : i \in j..n
      BY <1>1, <2>1
    <3>3. QED
      BY <2>4, <3>1, <3>2
  <2> HIDE DEF out
  <2>10. Walked(t, f[k + 1], j - 1, out(j - 1))
    <3>1. CASE Gone(j, t[j].fd)
      BY <2>6, <2>7, <2>8, <2>9, <3>1 DEF ReapEntry
    <3>2. CASE ~Gone(j, t[j].fd)
      BY <2>6, <2>7, <2>8, <2>9, <3>2 DEF ReapEntry
    <3>3. QED
      BY <3>1, <3>2
  <2>11. QED
    BY <2>2, <2>10
<1>7. \A k \in 0..n : k \in T
  <2> HIDE DEF T
  <2>1. n \in Nat
    BY <1>1
  <2>2. QED
    BY <1>5, <1>6, <2>1, UpTo
<1>8. Walked(t, f[n], 0, out(0))
  <2>1. n \in 0..n /\ n - n = 0
    BY <1>1
  <2>2. QED
    BY <1>7, <2>1
<1>9. f[n] = ReapAll(t, Backwards(n))
  BY <1>2, <1>4 DEF Reaping
<1>10. QED
  BY <1>8, <1>9

LEMMA EntryIs ==
  ASSUME NEW t \in Tables, NEW i \in 1..Len(t)
  PROVE  t[i] \in Entry /\ t[i].fd \in Client
<1>1. t[i] \in Entry
  BY DEF Tables
<1>2. QED
  BY <1>1 DEF Entry

\* w names every client of S, once.
Once(w, S) ==
  /\ w \in Seq(Client) /\ {w[i] : i \in 1..Len(w)} = S
  /\ \A i, j \in 1..Len(w) : w[i] = w[j] => i = j

LEMMA OnceMore ==
  ASSUME NEW w, NEW S, NEW c \in Client, Once(w, S), c \notin S
  PROVE  Once(Append(w, c), S \cup {c})
<1>1. PICK n \in Nat : n = Len(w)
  BY LenProperties DEF Once
<1>2. PICK v \in Seq(Client) : v = Append(w, c)
  BY AppendProperties DEF Once
<1>3. Len(v) = n + 1 /\ v[n + 1] = c /\ \A i \in 1..n : v[i] = w[i]
  BY <1>1, <1>2, AppendProperties DEF Once
<1>4. \A i \in 1..n + 1 : i = n + 1 \/ i \in 1..n
  OBVIOUS
<1>5. {v[i] : i \in 1..n + 1} = {w[i] : i \in 1..n} \cup {c}
  <2>1. \A i \in 1..n : i \in 1..n + 1
    OBVIOUS
  <2>2. n + 1 \in 1..n + 1
    OBVIOUS
  <2>3. QED
    BY <1>3, <1>4, <2>1, <2>2
<1>6. \A i \in 1..n : w[i] # c
  BY <1>1 DEF Once
<1>7. \A i, j \in 1..n + 1 : v[i] = v[j] => i = j
  <2>1. \A i, j \in 1..n : w[i] = w[j] => i = j
    BY <1>1 DEF Once
  <2>2. QED
    BY <1>3, <1>4, <1>6, <2>1
<1>8. QED
  BY <1>1, <1>2, <1>3, <1>5, <1>7 DEF Once

LEMMA OnceTimes ==
  ASSUME NEW w, NEW S, NEW c, Once(w, S)
  PROVE  Times(w, c) = IF c \in S THEN 1 ELSE 0
<1>1. PICK n \in Nat : n = Len(w)
  BY LenProperties DEF Once
<1>2. CASE c \in S
  <2>1. PICK k \in 1..n : w[k] = c
    BY <1>1, <1>2 DEF Once
  <2>2. {i \in 1..n : w[i] = c} = {k}
    BY <1>1, <2>1 DEF Once
  <2>3. QED
    BY <1>1, <1>2, <2>2, FS_Singleton DEF Times
<1>3. CASE c \notin S
  <2>1. {i \in 1..n : w[i] = c} = {}
    BY <1>1, <1>3 DEF Once
  <2>2. QED
    BY <1>1, <1>3, <2>1, FS_EmptySet DEF Times
<1>4. QED
  BY <1>2, <1>3

\* The places of t, after j, that event e is for.
For(t, e, j) == {i \in j + 1..Len(t) : Wants(t[i], e)}
Fds(t, places) == {t[i].fd : i \in places}
Broken(t, places, broken) == {i \in places : t[i].fd \in broken}

LEMMA ForNext ==
  ASSUME NEW t \in Tables, NEW e, NEW j \in 1..Len(t)
  PROVE  /\ For(t, e, j - 1) = IF Wants(t[j], e) THEN For(t, e, j) \cup {j} ELSE For(t, e, j)
         /\ t[j].fd \notin Fds(t, For(t, e, j)) /\ For(t, e, j) \in SUBSET Nat
<1>1. PICK n \in Nat : n = Len(t) /\ j \in 1..n
  BY LenProperties DEF Tables
<1>2. (j - 1) + 1 = j /\ (\A i \in j..n : i = j \/ i \in j + 1..n) /\ j \in j..n
  BY <1>1
<1>3. \A i \in j + 1..n : i \in j..n /\ i # j /\ i \in 1..n /\ i \in Nat
  BY <1>1
<1>4. \A i \in j + 1..n : t[i].fd # t[j].fd
  BY <1>1, <1>3 DEF Tables, Distinct
<1>5. QED
  BY <1>1, <1>2, <1>3, <1>4 DEF For, Fds

Told(t, d, j, e, broken) ==
  /\ Walked(t, d.conn, j, Broken(t, For(t, e, j), broken))
  /\ Once(d.wrote, Fds(t, For(t, e, j)))
  /\ d = [wrote |-> d.wrote, conn |-> d.conn]

(* One entry is written.                                                   *)
LEMMA WriteOn ==
  ASSUME NEW t \in Tables, NEW e, NEW broken, NEW j \in 1..Len(t), NEW d, Told(t, d, j, e, broken)
  PROVE  Told(t, Write(d, j, e, broken), j - 1, e, broken)
<1> DEFINE out(i) == Broken(t, For(t, e, i), broken)
<1>1. PICK n \in Nat : n = Len(t) /\ j \in 1..n /\ j \in Nat \ {0}
  BY LenProperties DEF Tables
<1>2. PICK s : s = d.conn
  OBVIOUS
<1>3. Walked(t, s, j, out(j)) /\ j <= Len(s) /\ s[j] = t[j]
  <2>1. j \in 1..j
    BY <1>1
  <2>2. QED
    BY <1>2, <2>1 DEF Told, Walked
<1>4. PICK w : w = d.wrote
  OBVIOUS
<1>5. Once(w, Fds(t, For(t, e, j)))
  BY <1>4 DEF Told
<1>6. For(t, e, j) \in SUBSET Nat /\ out(j) \in SUBSET Nat
  BY ForNext DEF Broken
<1>7. PICK o \in SUBSET Nat : o = out(j)
  BY <1>6
<1>8. Walked(t, s, j - 1, o) /\ Walked(t, Drop(s, j), j - 1, o \cup {j})
  BY <1>1, <1>3, <1>7, WalkOn
<1>9. t[j].fd \in Client
  BY <1>1, EntryIs
<1>10. ~(j > Len(s))
  BY <1>1, <1>3, LenProperties DEF Walked, Tables
<1>11. Write(d, j, e, broken) = IF ~Wants(t[j], e) THEN d
                               ELSE [wrote |-> Append(w, t[j].fd),
                                     conn |-> IF t[j].fd \in broken THEN Drop(s, j) ELSE s]
  BY <1>2, <1>3, <1>4, <1>10 DEF Write
<1>12. CASE ~Wants(t[j], e)
  <2>1. For(t, e, j - 1) = For(t, e, j)
    BY <1>12, ForNext
  <2>2. QED
    BY <1>2, <1>4, <1>5, <1>7, <1>8, <1>11, <1>12, <2>1 DEF Told
<1>13. CASE Wants(t[j], e)
  <2>1. For(t, e, j - 1) = For(t, e, j) \cup {j} /\ t[j].fd \notin Fds(t, For(t, e, j))
    BY <1>13, ForNext
  <2>2. Fds(t, For(t, e, j - 1)) = Fds(t, For(t, e, j)) \cup {t[j].fd}
    BY <2>1 DEF Fds
  <2>3. Once(Append(w, t[j].fd), Fds(t, For(t, e, j - 1)))
    BY <1>5, <1>9, <2>1, <2>2, OnceMore
  <2>4. CASE t[j].fd \in broken
    <3>1. out(j - 1) = o \cup {j}
      BY <1>7, <2>1, <2>4 DEF Broken
    <3>2. PICK r : r = Drop(s, j)
      OBVIOUS
    <3>3. Write(d, j, e, broken) = [wrote |-> Append(w, t[j].fd), conn |-> r]
      BY <1>11, <1>13, <2>4, <3>2
    <3>4. Walked(t, r, j - 1, out(j - 1))
      BY <1>8, <3>1, <3>2
    <3>5. QED
      BY <2>3, <3>3, <3>4 DEF Told
  <2>5. CASE t[j].fd \notin broken
    <3>1. out(j - 1) = o
      BY <1>7, <2>1, <2>5 DEF Broken
    <3>2. Write(d, j, e, broken) = [wrote |-> Append(w, t[j].fd), conn |-> s]
      BY <1>11, <1>13, <2>5
    <3>3. Walked(t, s, j - 1, out(j - 1))
      BY <1>8, <3>1
    <3>4. QED
      BY <2>3, <3>2, <3>3 DEF Told
  <2>6. QED
    BY <2>4, <2>5
<1>14. QED
  BY <1>12, <1>13

(* monitor_public and its like: every entry the event is for is written    *)
(* once, and of those the ones whose connection failed are dropped.        *)
LEMMA WriteAllIs ==
  ASSUME NEW t \in Tables, NEW e, NEW broken
  PROVE  Told(t, WriteAll(t, Backwards(Len(t)), e, broken), 0, e, broken)
<1>1. PICK n \in Nat : n = Len(t)
  BY LenProperties DEF Tables
<1>2. PICK order \in Seq(1..n) :
        order = Backwards(n) /\ Len(order) = n /\ \A k \in 1..n : order[k] = (n + 1) - k
  BY BackwardsIs
<1> DEFINE D == {[wrote |-> w, conn |-> s] : w \in Seq(Client), s \in Tables}
<1>3. \A d \in D, p \in 1..n : Write(d, p, e, broken) \in D
  <2>1. ASSUME NEW s \in Tables, NEW w \in Seq(Client), NEW p \in 1..n, NEW d, d = [wrote |-> w, conn |-> s]
        PROVE  Write(d, p, e, broken) \in D
    <3>1. PICK y \in Nat : y = Len(s)
      BY LenProperties DEF Tables
    <3>2. CASE p > y \/ ~Wants(s[p], e)
      BY <2>1, <3>1, <3>2 DEF Write
    <3>3. CASE ~(p > y) /\ Wants(s[p], e)
      <4>1. p \in 1..Len(s)
        BY <3>1, <3>3
      <4>2. Drop(s, p) \in Tables /\ s[p].fd \in Client
        BY <4>1, DropIs, EntryIs
      <4>3. PICK r \in Tables : r = IF s[p].fd \in broken THEN Drop(s, p) ELSE s
        BY <4>2
      <4>4. PICK v \in Seq(Client) : v = Append(w, s[p].fd)
        BY <4>2, AppendProperties
      <4>5. Write(d, p, e, broken) = [wrote |-> v, conn |-> r]
        BY <2>1, <3>1, <3>3, <4>3, <4>4 DEF Write
      <4>6. QED
        BY <4>5
    <3>4. QED
      BY <3>2, <3>3
  <2>2. QED
    BY <2>1
<1>4. Unwritten(t) \in D
  <2>1. PICK w \in Seq(Client) : w = <<>>
    <3>1. <<>> \in Seq(Client)
      OBVIOUS
    <3>2. QED
      BY <3>1
  <2>2. Unwritten(t) = [wrote |-> w, conn |-> t]
    BY <2>1 DEF Unwritten
  <2>3. [wrote |-> w, conn |-> t] \in D
    OBVIOUS
  <2>4. QED
    BY <2>2, <2>3
<1> HIDE DEF D
<1>5. PICK f \in [0..n -> D] : Writing(f, t, order, e, broken)
  BY <1>2, <1>3, <1>4, WriteFold
<1> DEFINE T == {k \in 0..n : Told(t, f[k], n - k, e, broken)}
<1>6. 0 \in T
  <2>1. For(t, e, n) = {}
    <3>1. n + 1..n = {}
      BY <1>1
    <3>2. QED
      BY <1>1, <3>1 DEF For
  <2>2. f[0] = Unwritten(t) /\ n - 0 = n /\ 0 \in 0..n
    BY <1>5 DEF Writing
  <2>3. Walked(t, t, n, {})
    BY <1>1 DEF Walked
  <2>4. Once(<<>>, {})
    BY DEF Once
  <2>5. Broken(t, {}, broken) = {} /\ Fds(t, {}) = {}
    BY DEF Broken, Fds
  <2>6. Told(t, Unwritten(t), n, e, broken)
    <3>1. PICK d : d = Unwritten(t)
      OBVIOUS
    <3>2. d = [wrote |-> <<>>, conn |-> t] /\ d.wrote = <<>> /\ d.conn = t
      BY <3>1 DEF Unwritten
    <3>3. Walked(t, d.conn, n, Broken(t, For(t, e, n), broken)) /\ Once(d.wrote, Fds(t, For(t, e, n)))
      <4>1. Walked(t, t, n, Broken(t, For(t, e, n), broken))
        BY <2>1, <2>3, <2>5
      <4>2. Once(<<>>, Fds(t, For(t, e, n)))
        BY <2>1, <2>4, <2>5
      <4>3. QED
        BY <3>2, <4>1, <4>2
    <3>4. Told(t, d, n, e, broken)
      BY <3>2, <3>3 DEF Told
    <3>5. QED
      BY <3>1, <3>4
  <2>7. Told(t, f[0], n - 0, e, broken)
    BY <2>2, <2>6
  <2>8. QED
    BY <2>2, <2>7
<1>7. ASSUME NEW k \in 0..n - 1, k \in T
      PROVE  k + 1 \in T
  <2>1. PICK j \in 1..n : j = n - k
    OBVIOUS
  <2>2. k + 1 \in 1..n /\ (k + 1) - 1 = k /\ (n + 1) - (k + 1) = j /\ n - (k + 1) = j - 1 /\ k + 1 \in 0..n
    BY <1>1, <2>1
  <2>3. f[k + 1] = Write(f[k], j, e, broken)
    BY <1>2, <1>5, <2>2 DEF Writing
  <2>4. Told(t, f[k], j, e, broken)
    BY <1>7, <2>1
  <2>5. Told(t, f[k + 1], j - 1, e, broken)
    BY <1>1, <2>3, <2>4, WriteOn
  <2>6. QED
    BY <2>2, <2>5
<1>8. \A k \in 0..n : k \in T
  <2> HIDE DEF T
  <2>1. n \in Nat
    BY <1>1
  <2>2. \A k \in 0..n - 1 : k \in T => k + 1 \in T
    BY <1>7
  <2>3. QED
    BY <1>6, <2>1, <2>2, UpTo
<1>9. Told(t, f[n], 0, e, broken)
  <2>1. n \in 0..n /\ n - n = 0
    OBVIOUS
  <2>2. QED
    BY <1>8, <2>1
<1>10. f[n] = WriteAll(t, Backwards(n), e, broken)
  BY <1>2, <1>5 DEF Writing
<1>11. QED
  BY <1>1, <1>9, <1>10

\* The clients of a table.
All(s) == Fds(s, 1..Len(s))

(* What a table says of its clients.                                       *)
LEMMA TableIs ==
  ASSUME NEW t \in Tables
  PROVE  /\ DOMAIN TableOf(t) = All(t) /\ TableOf(t) = [c \in All(t) |-> TableOf(t)[c]]
         /\ \A i \in 1..Len(t) : TableOf(t)[t[i].fd] = [kind |-> t[i].kind, name |-> t[i].name]
<1>1. TableOf(t) = [c \in All(t) |-> [kind |-> EntryOf(t, c).kind, name |-> EntryOf(t, c).name]]
  BY DEF TableOf, All, Fds
<1>2. ASSUME NEW i \in 1..Len(t)
      PROVE  TableOf(t)[t[i].fd] = [kind |-> t[i].kind, name |-> t[i].name]
  <2>1. t[i].fd \in All(t)
    BY DEF All, Fds
  <2>2. \A k \in 1..Len(t) : t[k].fd = t[i].fd <=> k = i
    BY DEF Tables, Distinct
  <2>3. (CHOOSE k \in 1..Len(t) : t[k].fd = t[i].fd) = i
    BY <2>2
  <2>4. EntryOf(t, t[i].fd) = t[i]
    BY <2>3 DEF EntryOf
  <2>5. QED
    BY <1>1, <2>1, <2>4
<1>3. QED
  BY <1>1, <1>2

\* The table without the clients of gone.
Remains(table, gone) == [c \in DOMAIN table \ gone |-> table[c]]

(* After a walk, the table is what it was without those at the places out. *)
LEMMA TableDrops ==
  ASSUME NEW t \in Tables, NEW s, NEW out \in SUBSET (1..Len(t)), Walked(t, s, 0, out)
  PROVE  TableOf(s) = Remains(TableOf(t), Fds(t, out)) /\ All(s) = All(t) \ Fds(t, out)
<1>1. PICK n \in Nat : n = Len(t)
  BY LenProperties DEF Tables
<1>2. s \in Tables
  BY DEF Walked
<1>3. PICK m \in Nat : m = Len(s)
  BY <1>2, LenProperties DEF Tables
<1>4. Entries(s) = Entries(t) \ {t[i] : i \in out}
  BY DEF Walked
<1>5. ASSUME NEW k \in 1..m
      PROVE  \E i \in 1..n : i \notin out /\ s[k] = t[i] /\ s[k].fd \notin Fds(t, out)
  <2>1. s[k] \in Entries(s)
    BY <1>3 DEF Entries
  <2>2. PICK i \in 1..n : s[k] = t[i] /\ i \notin out
    BY <1>1, <1>4, <2>1 DEF Entries
  <2>3. \A j \in out : j \in 1..n /\ t[j].fd # t[i].fd
    BY <1>1, <2>2 DEF Tables, Distinct
  <2>4. s[k].fd \notin Fds(t, out)
    BY <2>2, <2>3 DEF Fds
  <2>5. QED
    BY <2>2, <2>4
<1>6. ASSUME NEW i \in 1..n, t[i].fd \notin Fds(t, out)
      PROVE  \E k \in 1..m : s[k] = t[i]
  <2>1. t[i] \in Entries(t) /\ t[i] \notin {t[j] : j \in out}
    BY <1>1, <1>6 DEF Entries, Fds
  <2>2. QED
    BY <1>3, <1>4, <2>1 DEF Entries
<1>7. All(s) = All(t) \ Fds(t, out)
  <2>1. ASSUME NEW c \in All(s)
        PROVE  c \in All(t) \ Fds(t, out)
    <3>1. PICK k \in 1..m : c = s[k].fd
      BY <1>3 DEF All, Fds
    <3>2. QED
      BY <1>1, <1>5, <3>1 DEF All, Fds
  <2>2. ASSUME NEW c \in All(t) \ Fds(t, out)
        PROVE  c \in All(s)
    <3>1. PICK i \in 1..n : c = t[i].fd
      BY <1>1 DEF All, Fds
    <3>2. PICK k \in 1..m : s[k] = t[i]
      BY <1>6, <3>1
    <3>3. QED
      BY <1>3, <3>1, <3>2 DEF All, Fds
  <2>3. QED
    BY <2>1, <2>2
<1>8. \A c \in All(s) : TableOf(s)[c] = TableOf(t)[c]
  <2>1. ASSUME NEW c \in All(s)
        PROVE  TableOf(s)[c] = TableOf(t)[c]
    <3>1. PICK k \in 1..m : c = s[k].fd
      BY <1>3 DEF All, Fds
    <3>2. PICK i \in 1..n : s[k] = t[i]
      BY <1>5
    <3>3. TableOf(t)[t[i].fd] = [kind |-> t[i].kind, name |-> t[i].name]
      BY <1>1, TableIs
    <3>4. TableOf(s)[s[k].fd] = [kind |-> s[k].kind, name |-> s[k].name]
      BY <1>2, <1>3, TableIs
    <3>5. QED
      BY <3>1, <3>2, <3>3, <3>4
  <2>2. QED
    BY <2>1
<1>9. DOMAIN TableOf(t) = All(t) /\ TableOf(s) = [c \in All(s) |-> TableOf(s)[c]]
  BY <1>2, TableIs
<1>10. [c \in All(s) |-> TableOf(s)[c]] = [c \in All(t) \ Fds(t, out) |-> TableOf(t)[c]]
  BY <1>7, <1>8
<1>11. QED
  BY <1>7, <1>9, <1>10 DEF Remains

(* An event is written for an entry if its target covers it.               *)
LEMMA WantsCovers ==
  ASSUME NEW c, NEW e \in Event
  PROVE  Wants(c, e) <=> Promise!Covers([kind |-> c.kind, name |-> c.name], e)
<1>1. e.kind \in {"public", "room", "advert", "drop", "tx"}
  BY ConsoleAssumption
<1>2. PICK k : k = c.kind
  OBVIOUS
<1>3. PICK n : n = c.name
  OBVIOUS
<1>4. PICK t : t = [kind |-> k, name |-> n]
  OBVIOUS
<1>5. Wants(c, e) <=> Promise!Covers(t, e)
  <2>1. t.kind = k /\ t.name = n
    BY <1>4
  <2>2. CASE e.kind = "public"
    BY <1>2, <1>3, <2>1, <2>2 DEF Wants, Promise!Covers
  <2>3. CASE e.kind = "room"
    BY <1>2, <1>3, <2>1, <2>3 DEF Wants, Promise!Covers
  <2>4. CASE e.kind \in {"advert", "drop", "tx"}
    BY <1>2, <1>3, <2>1, <2>4 DEF Wants, Promise!Covers
  <2>5. QED
    BY <1>1, <2>2, <2>3, <2>4
<1>6. QED
  BY <1>2, <1>3, <1>4, <1>5

(* The writing of an event, seen from the clients.                         *)
LEMMA TellIs ==
  ASSUME NEW t \in Tables, NEW e \in Event, NEW broken, NEW d, d = WriteAll(t, Backwards(Len(t)), e, broken)
  PROVE  \E gone \in SUBSET broken :
           /\ gone \subseteq All(t)
           /\ d.conn \in Tables /\ Len(d.conn) <= Len(t) /\ All(d.conn) = All(t) \ gone
           /\ TableOf(d.conn) = Remains(TableOf(t), gone)
           /\ \A c : Times(d.wrote, c) = IF c \in DOMAIN TableOf(t) /\ Promise!Covers(TableOf(t)[c], e)
                                        THEN 1 ELSE 0
<1>1. PICK n \in Nat : n = Len(t)
  BY LenProperties DEF Tables
<1>2. Told(t, d, 0, e, broken)
  BY WriteAllIs
<1> DEFINE for == For(t, e, 0)
           out == Broken(t, for, broken)
           gone == Fds(t, out)
<1>3. for = {i \in 1..n : Wants(t[i], e)} /\ for \in SUBSET (1..n)
  BY <1>1 DEF For
<1>4. out \in SUBSET (1..Len(t)) /\ gone \subseteq All(t) /\ gone \in SUBSET broken
  BY <1>1, <1>3 DEF Broken, Fds, All
<1>5. Walked(t, d.conn, 0, out) /\ Once(d.wrote, Fds(t, for))
  BY <1>2 DEF Told
<1>6. TableOf(d.conn) = Remains(TableOf(t), gone) /\ All(d.conn) = All(t) \ gone
  BY <1>4, <1>5, TableDrops
<1>7. d.conn \in Tables /\ Len(d.conn) <= Len(t)
  BY <1>5 DEF Walked
<1>8. ASSUME NEW c
      PROVE  c \in Fds(t, for) <=> c \in DOMAIN TableOf(t) /\ Promise!Covers(TableOf(t)[c], e)
  <2>1. DOMAIN TableOf(t) = All(t)
    BY TableIs
  <2>2. CASE c \in All(t)
    <3>1. PICK i \in 1..n : c = t[i].fd
      BY <1>1, <2>2 DEF All, Fds
    <3>2. c \in Fds(t, for) <=> i \in for
      <4>1. \A j \in 1..n : t[j].fd = c => j = i
        BY <1>1, <3>1 DEF Tables, Distinct
      <4>2. QED
        BY <1>3, <3>1, <4>1 DEF Fds
    <3>3. i \in for <=> Wants(t[i], e)
      BY <1>3
    <3>4. TableOf(t)[c] = [kind |-> t[i].kind, name |-> t[i].name]
      BY <1>1, <3>1, TableIs
    <3>5. QED
      BY <2>1, <2>2, <3>2, <3>3, <3>4, WantsCovers
  <2>3. CASE c \notin All(t)
    BY <1>1, <1>3, <2>1, <2>3 DEF All, Fds
  <2>4. QED
    BY <2>2, <2>3
<1>9. \A c : Times(d.wrote, c) = IF c \in Fds(t, for) THEN 1 ELSE 0
  BY <1>5, OnceTimes
<1> HIDE DEF for, out, gone
<1>10. QED
  BY <1>4, <1>6, <1>7, <1>8, <1>9

----------------------------------------------------------------------------
(* The inductive invariant: who is in the table, what is still unread, and *)
(* that a hang-up that was polled is one.                                  *)
TableInv == conn \in Tables /\ Len(conn) <= MaxMonitors
ClientInv ==
  /\ client \in [Client -> {"away", "waiting", "served", "closed"}]
  /\ stray \subseteq All(conn) /\ All(conn) \subseteq {c \in Client : client[c] \in {"served", "closed"}}
  /\ {c \in Client : client[c] = "served"} \subseteq All(conn)
PollInv ==
  /\ at \in {"mesh", "accept", "reap"} /\ (at = "mesh" => pfd = <<>>)
  /\ pfd \in Seq({"none", "in", "hup"}) /\ Len(pfd) <= Len(conn)
  /\ \A i \in 1..Len(pfd) : pfd[i] = "hup" => client[conn[i].fd] = "closed"
ConInv == TableInv /\ ClientInv /\ PollInv

\* What the clients see.
Closed == {c \in Client : client[c] = "closed"}
Offered == [c \in Client |-> Times(wrote, c)]

LEMMA Registering ==
  ASSUME NEW c
  PROVE  Registered(c) <=> c \in All(conn)
BY DEF Registered, All, Fds

LEMMA NoTimes == \A c : Times(<<>>, c) = 0
<1>1. Once(<<>>, {})
  BY DEF Once
<1>2. QED
  BY <1>1, OnceTimes

LEMMA ConInit ==
  ASSUME ConsoleInit
  PROVE  ConInv /\ Promise!Init
<1>1. conn = <<>> /\ Len(conn) = 0 /\ 1..0 = {}
  BY DEF ConsoleInit
<1>2. All(conn) = {}
  BY <1>1 DEF All, Fds
<1>3. TableInv
  <2>1. conn \in Seq(Entry)
    BY <1>1
  <2>2. Distinct(conn)
    BY <1>1 DEF Distinct
  <2>3. QED
    BY <1>1, <2>1, <2>2, ConsoleAssumption DEF TableInv, Tables
<1>4. ClientInv
  BY <1>2 DEF ClientInv, ConsoleInit
<1>5. PollInv
  <2>1. pfd = <<>> /\ Len(pfd) = 0 /\ at = "mesh"
    BY DEF ConsoleInit
  <2>2. pfd \in Seq({"none", "in", "hup"})
    BY <2>1
  <2>3. QED
    BY <1>1, <2>1, <2>2 DEF PollInv
<1>6. Promise!Init
  <2>1. TableOf(conn) = [c \in {} |-> Promise!Nobody]
    <3>1. TableOf(conn) = [c \in {} |-> TableOf(conn)[c]]
      BY <1>2, <1>3, TableIs DEF TableInv
    <3>2. QED
      BY <3>1
  <2>2. Closed = {}
    BY DEF ConsoleInit, Closed
  <2>3. Offered = Promise!Nobody
    BY NoTimes DEF ConsoleInit, Offered, Promise!Nobody
  <2>4. QED
    BY <2>1, <2>2, <2>3 DEF Promise!Init, Promise!Nobody, Closed, Offered
<1>7. QED
  BY <1>3, <1>4, <1>5, <1>6 DEF ConInv

\* The types follow.
LEMMA ConTyped ==
  ASSUME ConInv
  PROVE  ConsoleTypeOK
<1>1. conn \in Seq(Entry) /\ Distinct(conn) /\ Len(conn) <= MaxMonitors
  BY DEF ConInv, TableInv, Tables
<1>2. stray \subseteq {c \in Client : Registered(c)}
  BY Registering DEF ConInv, ClientInv
<1>3. at \in {"mesh", "accept", "reap"} /\ Len(pfd) <= Len(conn)
  BY DEF ConInv, PollInv
<1>4. QED
  BY <1>1, <1>2, <1>3 DEF ConsoleTypeOK, Entry, Distinct

(* monitor_public and its like: every event reaches the clients it is for. *)
LEMMA PublishTells ==
  ASSUME NEW e \in Event, ConInv, Publish(e)
  PROVE  ConInv' /\ Promise!Tell(e)
<1>1. PICK broken \in SUBSET Closed :
        /\ conn' = WriteAll(conn, Backwards(Len(conn)), e, broken).conn
        /\ wrote' = WriteAll(conn, Backwards(Len(conn)), e, broken).wrote
  BY DEF Publish, Closed
<1>2. PICK d : d = WriteAll(conn, Backwards(Len(conn)), e, broken)
  OBVIOUS
<1>3. conn' = d.conn /\ wrote' = d.wrote
  BY <1>1, <1>2
<1>4. client' = client /\ pfd' = pfd /\ at' = at /\ at = "mesh" /\ pfd = <<>>
  BY DEF Publish, ConInv, PollInv
<1>5. stray' = {c \in stray : c \in All(conn')}
  BY DEF Publish, All, Fds
<1>6. conn \in Tables /\ Len(conn) <= MaxMonitors
  BY DEF ConInv, TableInv
<1>7. PICK gone \in SUBSET broken :
        /\ gone \subseteq All(conn)
        /\ d.conn \in Tables /\ Len(d.conn) <= Len(conn) /\ All(d.conn) = All(conn) \ gone
        /\ TableOf(d.conn) = Remains(TableOf(conn), gone)
        /\ \A c : Times(d.wrote, c) = IF c \in DOMAIN TableOf(conn) /\ Promise!Covers(TableOf(conn)[c], e)
                                     THEN 1 ELSE 0
  BY <1>2, <1>6, TellIs
<1>8. TableInv'
  <2>1. Len(d.conn) <= MaxMonitors
    <3>1. Len(d.conn) \in Nat /\ Len(conn) \in Nat
      BY <1>6, <1>7, LenProperties DEF Tables
    <3>2. QED
      BY <1>6, <1>7, <3>1, ConsoleAssumption
  <2>2. QED
    BY <1>3, <1>7, <2>1 DEF TableInv
<1>9. ClientInv'
  <2>1. \A c \in gone : client[c] = "closed"
    BY DEF Closed
  <2>2. All(conn') = All(conn) \ gone
    BY <1>3, <1>7
  <2>3. ClientInv
    BY DEF ConInv
  <2>4. QED
    BY <1>4, <1>5, <2>1, <2>2, <2>3 DEF ClientInv
<1>10. PollInv'
  <2>1. Len(d.conn) \in Nat /\ Len(<<>>) = 0
    BY <1>7, LenProperties DEF Tables
  <2>2. <<>> \in Seq({"none", "in", "hup"})
    OBVIOUS
  <2>3. QED
    BY <1>3, <1>4, <2>1, <2>2 DEF PollInv
<1>11. Promise!Tell(e)
  <2>1. Offered' = [c \in Client |-> IF c \in DOMAIN TableOf(conn) /\ Promise!Covers(TableOf(conn)[c], e)
                                       THEN 1 ELSE 0]
    BY <1>3, <1>7 DEF Offered
  <2>2. gone \in SUBSET Closed /\ TableOf(conn') = Promise!Without(gone)
    BY <1>3, <1>7 DEF Remains, Promise!Without
  <2>3. Closed' = Closed
    BY <1>4 DEF Closed
  <2>4. QED
    BY <2>1, <2>2, <2>3 DEF Promise!Tell, Closed, Offered
<1>12. QED
  BY <1>8, <1>9, <1>10, <1>11 DEF ConInv

LEMMA PollIsQuiet ==
  ASSUME ConInv, Poll
  PROVE  ConInv' /\ Promise!Quiet
<1>1. conn' = conn /\ client' = client /\ stray' = stray /\ wrote' = <<>> /\ at = "mesh"
  BY DEF Poll
<1>2. TableInv' /\ ClientInv'
  BY <1>1 DEF ConInv, TableInv, ClientInv, All, Fds
<1>3. PollInv'
  <2>1. PICK n \in Nat : n = Len(conn)
    BY LenProperties DEF ConInv, TableInv, Tables
  <2>2. PICK p \in [1..n -> {"none", "in", "hup"}] :
          /\ \A i \in 1..n : p[i] \in Revents(conn[i].fd)
          /\ (UNCHANGED <<pfd, at>>) \/ (pfd' = p /\ at' \in {"reap", "accept"})
    BY <2>1 DEF Poll
  <2>3. CASE UNCHANGED <<pfd, at>>
    BY <1>1, <2>3 DEF ConInv, PollInv
  <2>4. CASE pfd' = p /\ at' \in {"reap", "accept"}
    <3>1. p \in Seq({"none", "in", "hup"}) /\ Len(p) = n
      OBVIOUS
    <3>2. ASSUME NEW i \in 1..n, p[i] = "hup"
          PROVE  client[conn[i].fd] = "closed"
      <4>1. conn[i].fd \in All(conn)
        BY <2>1 DEF All, Fds
      <4>2. client[conn[i].fd] \in {"served", "closed"}
        BY <4>1 DEF ConInv, ClientInv
      <4>3. "hup" \in Revents(conn[i].fd)
        BY <2>2, <3>2
      <4>4. QED
        BY <4>2, <4>3 DEF Revents
    <3>3. QED
      BY <1>1, <2>1, <2>4, <3>1, <3>2 DEF PollInv
  <2>5. QED
    BY <2>2, <2>3, <2>4
<1>4. Promise!Quiet
  <2>1. Offered' = Promise!Nobody
    BY <1>1, NoTimes DEF Offered, Promise!Nobody
  <2>2. TableOf(conn') = TableOf(conn) /\ Closed' = Closed
    BY <1>1 DEF Closed
  <2>3. QED
    BY <2>1, <2>2 DEF Promise!Quiet, Offered, Closed
<1>5. QED
  BY <1>2, <1>3, <1>4 DEF ConInv

(* A connection that nobody had is added at the end of the table.          *)
LEMMA JoinIs ==
  ASSUME NEW t \in Tables, NEW n \in Nat, n = Len(t), NEW x \in Entry, x.fd \notin All(t)
  PROVE  /\ Append(t, x) \in Tables /\ Len(Append(t, x)) = n + 1 /\ \A i \in 1..n : Append(t, x)[i] = t[i]
         /\ All(Append(t, x)) = All(t) \cup {x.fd}
         /\ TableOf(Append(t, x)) = [c \in All(t) \cup {x.fd} |->
                                       IF c = x.fd THEN [kind |-> x.kind, name |-> x.name] ELSE TableOf(t)[c]]
<1>1. PICK a : a = Append(t, x)
  OBVIOUS
<1>2. a \in Seq(Entry) /\ Len(a) = n + 1 /\ a[n + 1] = x /\ \A i \in 1..n : a[i] = t[i]
  BY <1>1, AppendProperties DEF Tables
<1>3. \A i \in 1..n + 1 : i \in 1..n \/ i = n + 1
  OBVIOUS
<1>4. \A i \in 1..n : t[i].fd # x.fd
  BY DEF All, Fds
<1>5. a \in Tables
  <2>1. \A i, j \in 1..n : t[i].fd = t[j].fd => i = j
    BY DEF Tables, Distinct
  <2>2. \A i, j \in 1..n + 1 : a[i].fd = a[j].fd => i = j
    BY <1>2, <1>3, <1>4, <2>1
  <2>3. QED
    BY <1>2, <2>2 DEF Tables, Distinct
<1>6. All(a) = All(t) \cup {x.fd}
  <2>1. n + 1 \in 1..n + 1 /\ \A i \in 1..n : i \in 1..n + 1
    OBVIOUS
  <2>2. {a[i].fd : i \in 1..n + 1} = {t[i].fd : i \in 1..n} \cup {x.fd}
    BY <1>2, <1>3, <2>1
  <2>3. QED
    BY <1>2, <2>2 DEF All, Fds
<1>7. ASSUME NEW c \in All(a)
      PROVE  TableOf(a)[c] = IF c = x.fd THEN [kind |-> x.kind, name |-> x.name] ELSE TableOf(t)[c]
  <2>1. CASE c = x.fd
    <3>1. n + 1 \in 1..Len(a)
      BY <1>2
    <3>2. QED
      BY <1>2, <1>5, <2>1, <3>1, TableIs
  <2>2. CASE c # x.fd
    <3>1. PICK i \in 1..n : t[i].fd = c
      BY <1>6, <2>2 DEF All, Fds
    <3>2. TableOf(t)[c] = [kind |-> t[i].kind, name |-> t[i].name]
      BY <3>1, TableIs
    <3>3. i \in 1..Len(a) /\ a[i] = t[i]
      BY <1>2
    <3>4. TableOf(a)[c] = [kind |-> t[i].kind, name |-> t[i].name]
      BY <1>5, <3>1, <3>3, TableIs
    <3>5. QED
      BY <2>2, <3>2, <3>4
  <2>3. QED
    BY <2>1, <2>2
<1>8. TableOf(a) = [c \in All(a) |-> TableOf(a)[c]]
  BY <1>5, TableIs
<1>9. [c \in All(a) |-> TableOf(a)[c]] =
        [c \in All(t) \cup {x.fd} |-> IF c = x.fd THEN [kind |-> x.kind, name |-> x.name] ELSE TableOf(t)[c]]
  BY <1>6, <1>7
<1>10. QED
  BY <1>1, <1>2, <1>5, <1>6, <1>8, <1>9

(* No more clients than entries.                                           *)
LEMMA ClientsCount ==
  ASSUME NEW t \in Tables, NEW n \in Nat, n = Len(t)
  PROVE  Cardinality(All(t)) = n
<1> DEFINE f == [i \in 1..n |-> t[i].fd]
<1>1. f \in [1..n -> All(t)]
  BY DEF All, Fds
<1>2. \A i, j \in 1..n : f[i] = f[j] => i = j
  BY DEF Tables, Distinct
<1>3. \A c \in All(t) : \E i \in 1..n : f[i] = c
  BY DEF All, Fds
<1>4. f \in Bijection(1..n, All(t))
  <2> HIDE DEF f
  <2>1. QED
    BY <1>1, <1>2, <1>3, Fun_IsBij
<1>5. ExistsBijection(1..n, All(t))
  BY <1>4 DEF ExistsBijection
<1>6. QED
  BY <1>5, FS_CountingElements

(* A client whose connection is closed at once is not seen by the others.  *)
LEMMA TurnedAway ==
  ASSUME NEW c \in Client, ConInv, client[c] = "waiting", at' = "reap",
         client' = [client EXCEPT ![c] = "away"], UNCHANGED <<conn, stray, pfd, wrote>>
  PROVE  ConInv' /\ UNCHANGED <<TableOf(conn), Closed, Offered>>
<1>1. \A x \in Client : client'[x] = IF x = c THEN "away" ELSE client[x]
  BY DEF ConInv, ClientInv
<1>2. TableInv'
  BY DEF ConInv, TableInv
<1>3. All(conn') = All(conn) /\ c \notin All(conn)
  BY DEF ConInv, ClientInv
<1>4. ClientInv'
  <2>1. client' \in [Client -> {"away", "waiting", "served", "closed"}]
    BY DEF ConInv, ClientInv
  <2>2. ClientInv
    BY DEF ConInv
  <2>3. QED
    BY <1>1, <1>3, <2>1, <2>2 DEF ClientInv
<1>5. PollInv'
  <2>1. PICK n \in Nat : n = Len(conn)
    BY LenProperties DEF ConInv, TableInv, Tables
  <2>2. PICK m \in Nat : m = Len(pfd) /\ m <= n
    BY <2>1, LenProperties DEF ConInv, PollInv
  <2>3. ASSUME NEW i \in 1..m, pfd[i] = "hup"
        PROVE  client'[conn[i].fd] = "closed"
    <3>1. i \in 1..n /\ client[conn[i].fd] = "closed"
      BY <2>2, <2>3 DEF ConInv, PollInv
    <3>2. conn[i].fd \in Client /\ conn[i].fd # c
      BY <2>1, <3>1, EntryIs DEF ConInv, TableInv
    <3>3. QED
      BY <1>1, <3>1, <3>2
  <2>4. QED
    BY <2>1, <2>2, <2>3 DEF ConInv, PollInv
<1>6. Closed' = Closed
  BY <1>1 DEF Closed
<1>7. UNCHANGED <<TableOf(conn), Offered>>
  BY DEF Offered
<1>8. QED
  BY <1>2, <1>4, <1>5, <1>6, <1>7 DEF ConInv

(* control_accept of a monitor: the client joins, if the table has room.   *)
LEMMA MonitorJoins ==
  ASSUME NEW c \in Client, NEW t \in Target, ConInv, AcceptMonitor(c, t)
  PROVE  ConInv' /\ (Promise!Join(c, t) \/ UNCHANGED <<TableOf(conn), Closed, Offered>>)
<1>1. at = "accept" /\ at' = "reap" /\ client[c] = "waiting" /\ stray' = stray /\ pfd' = pfd /\ wrote' = wrote
  BY DEF AcceptMonitor, Waiting
<1>2. PICK n \in Nat : n = Len(conn)
  BY LenProperties DEF ConInv, TableInv, Tables
<1>3. conn \in Tables /\ n <= MaxMonitors
  BY <1>2 DEF ConInv, TableInv
<1>4. ClientInv /\ PollInv
  BY DEF ConInv
<1>5. c \notin All(conn) /\ c \notin stray
  BY <1>1, <1>4 DEF ClientInv
<1>6. PICK m \in Nat : m = Len(pfd) /\ m <= n
  BY <1>2, <1>4, LenProperties DEF PollInv
<1>7. Offered' = Offered
  BY <1>1 DEF Offered
<1>8. ASSUME NEW st \in {"served", "closed", "away"}, client' = [client EXCEPT ![c] = st]
      PROVE  \A x \in Client : client'[x] = IF x = c THEN st ELSE client[x]
  BY <1>4, <1>8 DEF ClientInv
<1>9. CASE n < MaxMonitors
  <2>1. PICK x \in Entry : x = [fd |-> c, kind |-> t.kind, name |-> t.name]
    BY DEF Entry
  <2>2. x.fd = c /\ x.kind = t.kind /\ x.name = t.name
    BY <2>1
  <2>3. PICK st \in {"served", "closed"} : conn' = Append(conn, x) /\ client' = [client EXCEPT ![c] = st]
    BY <1>2, <1>9, <2>1 DEF AcceptMonitor
  <2>4. /\ conn' \in Tables /\ Len(conn') = n + 1 /\ \A i \in 1..n : conn'[i] = conn[i]
        /\ All(conn') = All(conn) \cup {c}
        /\ TableOf(conn') = [y \in All(conn) \cup {c} |->
                               IF y = c THEN t ELSE TableOf(conn)[y]]
    <3>1. x.fd \notin All(conn)
      BY <1>5, <2>2
    <3>2. /\ conn' \in Tables /\ Len(conn') = n + 1 /\ \A i \in 1..n : conn'[i] = conn[i]
          /\ All(conn') = All(conn) \cup {x.fd}
          /\ TableOf(conn') = [y \in All(conn) \cup {x.fd} |->
                                 IF y = x.fd THEN [kind |-> x.kind, name |-> x.name] ELSE TableOf(conn)[y]]
      <4>1. PICK a : a = Append(conn, x)
        OBVIOUS
      <4>2. /\ a \in Tables /\ Len(a) = n + 1 /\ \A i \in 1..n : a[i] = conn[i]
            /\ All(a) = All(conn) \cup {x.fd}
            /\ TableOf(a) = [y \in All(conn) \cup {x.fd} |->
                               IF y = x.fd THEN [kind |-> x.kind, name |-> x.name] ELSE TableOf(conn)[y]]
        BY <1>2, <1>3, <3>1, <4>1, JoinIs
      <4>3. QED
        BY <2>3, <4>1, <4>2
    <3>3. [kind |-> x.kind, name |-> x.name] = t
      BY <2>2, ConsoleAssumption
    <3>4. QED
      BY <2>2, <3>2, <3>3
  <2>5. \A y \in Client : client'[y] = IF y = c THEN st ELSE client[y]
    BY <1>8, <2>3
  <2>6. TableInv'
    BY <1>9, <2>4, ConsoleAssumption DEF TableInv
  <2>7. ClientInv'
    <3>1. client' \in [Client -> {"away", "waiting", "served", "closed"}]
      BY <1>4, <2>3 DEF ClientInv
    <3>2. QED
      BY <1>1, <1>4, <2>4, <2>5, <3>1 DEF ClientInv
  <2>8. PollInv'
    <3>1. ASSUME NEW i \in 1..m, pfd[i] = "hup"
          PROVE  client'[conn'[i].fd] = "closed"
      <4>1. i \in 1..n /\ client[conn[i].fd] = "closed"
        BY <1>4, <1>6, <3>1 DEF PollInv
      <4>2. conn[i].fd \in Client /\ conn'[i] = conn[i]
        BY <1>2, <1>3, <2>4, <4>1, EntryIs
      <4>3. conn[i].fd # c
        BY <1>1, <4>1
      <4>4. QED
        BY <2>5, <4>1, <4>2, <4>3
    <3>2. m <= n + 1
      BY <1>6
    <3>3. QED
      BY <1>1, <1>4, <1>6, <2>4, <3>1, <3>2 DEF PollInv
  <2>9. Promise!Join(c, t)
    <3>1. DOMAIN TableOf(conn) = All(conn)
      BY <1>3, TableIs
    <3>2. Cardinality(All(conn)) < MaxMonitors
      BY <1>2, <1>3, <1>9, ClientsCount
    <3>3. Closed' \in {Closed, Closed \cup {c}}
      BY <1>1, <2>5 DEF Closed
    <3>4. PICK d : d = DOMAIN TableOf(conn)
      OBVIOUS
    <3>5. c \notin d /\ Cardinality(d) < MaxMonitors
      BY <1>5, <3>1, <3>2, <3>4
    <3>6. TableOf(conn') = [y \in d \cup {c} |-> IF y = c THEN t ELSE TableOf(conn)[y]]
      BY <2>4, <3>1, <3>4
    <3>7. Promise!Cardinality(d) = Cardinality(d)
      BY DEF Cardinality, Promise!Cardinality
    <3>8. QED
      BY <1>7, <3>3, <3>4, <3>5, <3>6, <3>7 DEF Promise!Join, Closed, Offered
  <2>10. QED
    BY <2>6, <2>7, <2>8, <2>9 DEF ConInv
<1>10. CASE ~(n < MaxMonitors)
  <2>1. conn' = conn /\ client' = [client EXCEPT ![c] = "away"]
    BY <1>2, <1>10 DEF AcceptMonitor
  <2>2. QED
    BY <1>1, <2>1, TurnedAway DEF AcceptMonitor
<1>11. QED
  BY <1>9, <1>10

LEMMA CommandIsUnseen ==
  ASSUME NEW c \in Client, ConInv, AcceptCommand(c)
  PROVE  ConInv' /\ UNCHANGED <<TableOf(conn), Closed, Offered>>
BY TurnedAway DEF AcceptCommand, Waiting

(* monitor_reap: only clients that closed leave, whatever index they are at. *)
LEMMA ReapLeaves ==
  ASSUME ConInv, Reap
  PROVE  ConInv' /\ \E gone \in SUBSET Closed : Promise!Leave(gone)
<1>1. at' = "mesh" /\ pfd' = <<>> /\ client' = client /\ wrote' = wrote
  BY DEF Reap
<1>2. PICK n \in Nat : n = Len(conn)
  BY LenProperties DEF ConInv, TableInv, Tables
<1>3. conn \in Tables /\ n <= MaxMonitors
  BY <1>2 DEF ConInv, TableInv
<1>4. PICK m \in Nat : m = Len(pfd) /\ m <= n
  BY <1>2, LenProperties DEF ConInv, PollInv
<1>5. Polled = m
  BY <1>2, <1>4 DEF Polled
<1>6. PICK out : out = {i \in 1..m : Gone(i, conn[i].fd)} /\ Walked(conn, ReapAll(conn, Backwards(m)), 0, out)
  <2>1. m \in 0..Len(conn)
    BY <1>2, <1>4
  <2>2. QED
    BY <1>3, <2>1, ReapAllIs
<1>7. PICK s : s = conn'
  OBVIOUS
<1>8. Walked(conn, s, 0, out)
  BY <1>5, <1>6, <1>7 DEF Reap
<1>9. out \in SUBSET (1..Len(conn))
  <2>1. \A i \in 1..m : i \in 1..n
    BY <1>4
  <2>2. QED
    BY <1>2, <1>6, <2>1
<1>10. TableOf(s) = Remains(TableOf(conn), Fds(conn, out)) /\ All(s) = All(conn) \ Fds(conn, out)
  BY <1>3, <1>8, <1>9, TableDrops
<1>11. Fds(conn, out) \in SUBSET Closed
  <2>1. ASSUME NEW i \in out
        PROVE  conn[i].fd \in Closed
    <3>1. conn[i].fd \in Client
      BY <1>3, <1>9, EntryIs
    <3>2. client[conn[i].fd] = "closed"
      BY <1>4, <1>6 DEF Gone, ConInv, PollInv
    <3>3. QED
      BY <3>1, <3>2 DEF Closed
  <2>2. QED
    BY <2>1 DEF Fds
<1>12. stray' \subseteq All(s)
  <2>1. ASSUME NEW c \in stray'
        PROVE  c \notin Fds(conn, out) /\ c \in stray
    <3>1. c \in stray /\ \A k \in 1..m : pfd[k] # "none" => c # conn[k].fd
      BY <1>5 DEF Reap
    <3>2. \A i \in out : i \in 1..m /\ pfd[i] # "none"
      BY <1>6 DEF Gone
    <3>3. QED
      BY <3>1, <3>2 DEF Fds
  <2>2. stray \subseteq All(conn)
    BY DEF ConInv, ClientInv
  <2>3. QED
    BY <1>10, <2>1, <2>2
<1>13. s \in Tables /\ Len(s) <= n /\ Len(s) \in Nat
  BY <1>2, <1>8, LenProperties DEF Walked, Tables
<1>14. TableInv'
  BY <1>3, <1>7, <1>13, ConsoleAssumption DEF TableInv
<1>15. ClientInv'
  <2>1. ClientInv
    BY DEF ConInv
  <2>2. QED
    BY <1>1, <1>7, <1>10, <1>11, <1>12, <2>1 DEF ClientInv, Closed
<1>16. PollInv'
  <2>1. <<>> \in Seq({"none", "in", "hup"}) /\ Len(<<>>) = 0
    OBVIOUS
  <2>2. QED
    BY <1>1, <1>7, <1>13, <2>1 DEF PollInv
<1>17. Promise!Leave(Fds(conn, out))
  BY <1>1, <1>7, <1>10 DEF Promise!Leave, Promise!Without, Remains, Closed, Offered
<1>18. QED
  BY <1>11, <1>14, <1>15, <1>16, <1>17 DEF ConInv

(* The clients come, talk and go.                                          *)
LEMMA ClientsMove ==
  ASSUME ConInv, Clients
  PROVE  /\ ConInv'
         /\ \/ \E c \in Client : Promise!Close(c) \/ Promise!Return(c)
            \/ UNCHANGED <<TableOf(conn), Closed, Offered>>
<1>1. PICK c \in Client : Connect(c) \/ Chat(c) \/ Hangs(c)
  BY DEF Clients
<1>2. UNCHANGED <<conn, pfd, at, wrote, TableOf(conn), Offered, All(conn)>>
  BY DEF Clients, Offered
<1>3. TableInv' /\ conn \in Tables
  BY <1>2 DEF ConInv, TableInv
<1>4. ClientInv /\ PollInv
  BY DEF ConInv
<1>5. DOMAIN TableOf(conn) = All(conn)
  BY <1>3, TableIs
<1>6. ASSUME NEW st \in {"waiting", "closed"}, client' = [client EXCEPT ![c] = st]
      PROVE  /\ client' \in [Client -> {"away", "waiting", "served", "closed"}]
             /\ \A x \in Client : client'[x] = IF x = c THEN st ELSE client[x]
  BY <1>4, <1>6 DEF ClientInv
<1>7. ASSUME \A x \in All(conn) : client[x] = "closed" => client'[x] = "closed"
      PROVE  PollInv'
  <2>1. PICK n \in Nat : n = Len(conn)
    BY <1>3, LenProperties DEF Tables
  <2>2. PICK m \in Nat : m = Len(pfd) /\ m <= n
    BY <1>4, <2>1, LenProperties DEF PollInv
  <2>3. ASSUME NEW i \in 1..m, pfd[i] = "hup"
        PROVE  client'[conn[i].fd] = "closed"
    <3>1. i \in 1..n /\ client[conn[i].fd] = "closed"
      BY <1>4, <2>2, <2>3 DEF PollInv
    <3>2. conn[i].fd \in All(conn)
      BY <2>1, <3>1 DEF All, Fds
    <3>3. QED
      BY <1>7, <3>1, <3>2
  <2>4. QED
    BY <1>2, <1>4, <2>1, <2>2, <2>3 DEF PollInv
<1>8. CASE Connect(c)
  <2>1. c \notin All(conn) /\ client' = [client EXCEPT ![c] = "waiting"] /\ stray' = stray
    <3>1. client[c] = "away" \/ c \notin All(conn)
      BY <1>8, Registering DEF Connect
    <3>2. client[c] = "away" => c \notin All(conn)
      BY <1>4 DEF ClientInv
    <3>3. QED
      BY <1>8, <3>1, <3>2 DEF Connect
  <2>2. /\ client' \in [Client -> {"away", "waiting", "served", "closed"}]
        /\ \A x \in Client : client'[x] = IF x = c THEN "waiting" ELSE client[x]
    BY <1>6, <2>1
  <2>3. ClientInv'
    BY <1>2, <1>4, <2>1, <2>2 DEF ClientInv
  <2>4. PollInv'
    <3>1. \A x \in All(conn) : x \in Client /\ x # c
      BY <1>4, <2>1 DEF ClientInv
    <3>2. QED
      BY <1>7, <2>2, <3>1
  <2>5. Closed' = Closed \ {c}
    BY <2>2 DEF Closed
  <2>6. Promise!Return(c)
    BY <1>2, <1>5, <2>1, <2>5 DEF Promise!Return, Closed, Offered
  <2>7. QED
    BY <1>3, <2>3, <2>4, <2>6 DEF ConInv
<1>9. CASE Chat(c)
  <2>1. client[c] = "served" /\ client' = client /\ stray' = stray \cup {c}
    BY <1>9 DEF Chat
  <2>2. ClientInv'
    BY <1>2, <1>4, <2>1 DEF ClientInv
  <2>3. PollInv'
    BY <1>7, <2>1
  <2>4. Closed' = Closed
    BY <2>1 DEF Closed
  <2>5. QED
    BY <1>2, <1>3, <2>2, <2>3, <2>4 DEF ConInv
<1>10. CASE Hangs(c)
  <2>1. client[c] = "served" /\ client' = [client EXCEPT ![c] = "closed"] /\ stray' = stray
    BY <1>10 DEF Hangs
  <2>2. /\ client' \in [Client -> {"away", "waiting", "served", "closed"}]
        /\ \A x \in Client : client'[x] = IF x = c THEN "closed" ELSE client[x]
    BY <1>6, <2>1
  <2>3. ClientInv'
    BY <1>2, <1>4, <2>1, <2>2 DEF ClientInv
  <2>4. PollInv'
    <3>1. \A x \in All(conn) : x \in Client
      BY <1>4 DEF ClientInv
    <3>2. QED
      BY <1>7, <2>2, <3>1
  <2>5. Closed' = Closed \cup {c}
    BY <2>2 DEF Closed
  <2>6. Promise!Close(c)
    BY <1>2, <2>5 DEF Promise!Close, Closed, Offered
  <2>7. QED
    BY <1>3, <2>3, <2>4, <2>6 DEF ConInv
<1>11. QED
  BY <1>1, <1>8, <1>9, <1>10

LEMMA ConNext ==
  ASSUME ConInv, [ConsoleNext]_consoleVars
  PROVE  ConInv' /\ [Promise!Next]_(Promise!vars)
<1>1. ASSUME UNCHANGED <<TableOf(conn), Closed, Offered>>
      PROVE  UNCHANGED Promise!vars
  BY <1>1 DEF Promise!vars, Closed, Offered
<1>2. CASE Poll
  BY <1>2, PollIsQuiet DEF Promise!Next
<1>3. ASSUME NEW c \in Client, NEW t \in Target, AcceptMonitor(c, t)
      PROVE  ConInv' /\ [Promise!Next]_(Promise!vars)
  BY <1>1, <1>3, MonitorJoins DEF Promise!Next
<1>4. ASSUME NEW c \in Client, AcceptCommand(c)
      PROVE  ConInv' /\ [Promise!Next]_(Promise!vars)
  BY <1>1, <1>4, CommandIsUnseen
<1>5. CASE Reap
  BY <1>5, ReapLeaves DEF Promise!Next, Closed
<1>6. CASE Clients
  BY <1>1, <1>6, ClientsMove DEF Promise!Next
<1>7. ASSUME NEW e \in Event, Publish(e)
      PROVE  ConInv' /\ [Promise!Next]_(Promise!vars)
  BY <1>7, PublishTells DEF Promise!Next
<1>8. CASE UNCHANGED consoleVars
  <2>1. UNCHANGED <<conn, client, stray, pfd, at, wrote>>
    BY <1>8 DEF consoleVars
  <2>2. TableInv' /\ ClientInv' /\ PollInv'
    BY <2>1 DEF ConInv, TableInv, ClientInv, PollInv
  <2>3. UNCHANGED <<TableOf(conn), Closed, Offered>>
    BY <2>1 DEF Closed, Offered
  <2>4. UNCHANGED Promise!vars
    BY <1>1, <2>3
  <2>5. QED
    BY <2>2, <2>4 DEF ConInv
<1>9. QED
  BY <1>2, <1>3, <1>4, <1>5, <1>6, <1>7, <1>8 DEF ConsoleNext, ConsoleLoop, Accept

(* Every event that the mesh tells is written once to every monitor whose  *)
(* target covers it and to no other client, and no client is dropped from  *)
(* the table that has not closed its connection, wherever the drops of     *)
(* others have moved it (monitor_public, mon_drop, monitor_reap).          *)
THEOREM MonitorsServed == ConsoleSpec => Promise!Safe
<1>1. ConsoleInit => ConInv /\ Promise!Init
  BY ConInit
<1>2. ConInv /\ [ConsoleNext]_consoleVars => ConInv' /\ [Promise!Next]_(Promise!vars)
  BY ConNext
<1>3. QED
  BY <1>1, <1>2, PTL DEF ConsoleSpec, Promise!Safe

----------------------------------------------------------------------------
(***************************************************************************)
(* The parts together. Each keeps its invariant, and leaves the variables  *)
(* of the others alone.                                                    *)
(***************************************************************************)
PartsInv == WaysInv /\ RInv /\ ConInv /\ FilesInv

LEMMA PartsKept ==
  ASSUME PartsInv, [IngressNext]_ingressVars, [RadioNext]_radioVars, [ConsoleNext]_consoleVars,
         [SettingsNext]_settingsVars
  PROVE  PartsInv'
<1>1. WaysInv' /\ RInv'
  BY WaysNext, RInvNext DEF PartsInv
<1>2. ConInv' /\ FilesInv'
  BY ConNext, FilesNext DEF PartsInv
<1>3. QED
  BY <1>1, <1>2 DEF PartsInv

LEMMA PartsNextKept ==
  ASSUME PartsInv, [PartsNext]_partsVars
  PROVE  PartsInv'
<1>1. CASE RingStep
  <2>1. WaysInv'
    BY <1>1, RingAlone DEF RingStep, PartsInv
  <2>2. UNCHANGED <<radioVars, consoleVars, settingsVars>>
    BY <1>1 DEF RingStep, Others
  <2>3. RInv' /\ ConInv' /\ FilesInv'
    BY <2>2, RInvNext, ConNext, FilesNext DEF PartsInv
  <2>4. QED
    BY <2>1, <2>3 DEF PartsInv
<1>2. CASE EarsStep
  <2>1. IngressNext
    BY <1>2 DEF EarsStep, IngressNext
  <2>2. UNCHANGED <<radioVars, consoleVars, settingsVars>>
    BY <1>2 DEF EarsStep, Others
  <2>3. QED
    BY <2>1, <2>2, PartsKept
<1>3. CASE HubStep
  <2>1. IngressNext
    BY <1>3 DEF HubStep, IngressNext, EarsNext, HubNext
  <2>2. UNCHANGED <<radioVars, consoleVars, settingsVars>>
    BY <1>3 DEF HubStep, Others
  <2>3. QED
    BY <2>1, <2>2, PartsKept
<1>4. CASE RadioStep
  <2>1. RadioNext
    BY <1>4 DEF RadioStep
  <2>2. UNCHANGED <<ingressVars, consoleVars, settingsVars>>
    BY <1>4 DEF RadioStep, Others
  <2>3. QED
    BY <2>1, <2>2, PartsKept
<1>5. CASE ConsoleStep
  <2>1. ConsoleNext
    BY <1>5 DEF ConsoleStep
  <2>2. UNCHANGED <<ingressVars, radioVars, settingsVars>>
    BY <1>5 DEF ConsoleStep, Others
  <2>3. QED
    BY <2>1, <2>2, PartsKept
<1>6. CASE SettingsStep
  <2>1. SettingsNext
    BY <1>6 DEF SettingsStep
  <2>2. UNCHANGED <<ingressVars, radioVars, consoleVars>>
    BY <1>6 DEF SettingsStep, Others
  <2>3. QED
    BY <2>1, <2>2, PartsKept
<1>7. CASE UNCHANGED partsVars
  <2>1. UNCHANGED <<ingressVars, radioVars, consoleVars, settingsVars>>
    BY <1>7 DEF partsVars
  <2>2. QED
    BY <2>1, PartsKept
<1>8. QED
  BY <1>1, <1>2, <1>3, <1>4, <1>5, <1>6, <1>7 DEF PartsNext

(* Every variable of every part keeps its type, whatever the constants: the *)
(* ring, the link and the bucket, the driver and its chip, the table of the *)
(* monitors, and the node's settings and files.                             *)
THEOREM PartsTypeCorrect == PartsSpec => []PartsTypeOK
<1>1. PartsInit => PartsInv
  BY WaysInit, RInvInit, ConInit, FilesInit DEF PartsInit, PartsInv
<1>2. PartsInv /\ [PartsNext]_partsVars => PartsInv'
  BY PartsNextKept
<1>3. PartsInv => PartsTypeOK
  <2>1. RInv => RadioTypeOK
    BY DEF RInv, RadioTyped, ChipType, Turns, RadioTypeOK
  <2>2. QED
    BY <2>1, ConTyped, FilesTyped DEF PartsInv, WaysInv, PartsTypeOK
<1>4. QED
  BY <1>1, <1>2, <1>3, PTL DEF PartsSpec
=============================================================================
