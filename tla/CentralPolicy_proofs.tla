------------------------ MODULE CentralPolicy_proofs ------------------------
(***************************************************************************)
(* The node's own rooms survive every set of the hub, the hub's rooms are  *)
(* those of the set in force, and sets are applied whole and in order, for *)
(* every sequence of sets, every size of the tables and any number of      *)
(* losses, failed saves, crashes and commands.                             *)
(***************************************************************************)
EXTENDS CentralPolicy, Order_proofs, FiniteSetTheorems, SequenceTheorems
----------------------------------------------------------------------------
(* The first elements of a sequence.                                       *)

\* The elements of S among the first i of s.
Prefix(s, S, i) == S \cap {s[j] : j \in 1..i}

LEMMA PrefixFinite ==
  ASSUME NEW s, NEW S, NEW i \in Nat
  PROVE  /\ IsFiniteSet(Prefix(s, S, i)) /\ Cardinality(Prefix(s, S, i)) \in Nat
<1> DEFINE T == {s[j] : j \in 1..i}
           f == [j \in 1..i |-> s[j]]
<1>1. f \in Surjection(1..i, T)
  BY DEF Surjection
<1>2. IsFiniteSet(1..i)
  BY FS_Interval
<1>3. IsFiniteSet(T)
  <2> HIDE DEF f, T
  <2>1. QED
    BY <1>1, <1>2, FS_Surjection
<1>4. IsFiniteSet(S \cap T)
  <2> HIDE DEF T
  <2>1. QED
    BY <1>3, FS_Intersection
<1>5. QED
  BY <1>4, FS_CardinalityType DEF Prefix

\* One more place brings at most one more element.
LEMMA PrefixStep ==
  ASSUME NEW s, NEW S, NEW i \in Nat \ {0}
  PROVE  Cardinality(Prefix(s, S, i)) <= Cardinality(Prefix(s, S, i - 1)) + 1
<1> DEFINE P == Prefix(s, S, i - 1)
<1>1. i - 1 \in Nat /\ 1..i = 1..(i - 1) \cup {i}
  OBVIOUS
<1>2. IsFiniteSet(P) /\ Cardinality(P) \in Nat
  BY <1>1, PrefixFinite
<1>3. Prefix(s, S, i) \subseteq P \cup {s[i]}
  BY <1>1 DEF Prefix
<1>4. IsFiniteSet(P \cup {s[i]}) /\ Cardinality(P \cup {s[i]}) <= Cardinality(P) + 1
  <2> HIDE DEF P
  <2>1. /\ IsFiniteSet(P \cup {s[i]})
        /\ Cardinality(P \cup {s[i]}) = IF s[i] \in P THEN Cardinality(P) ELSE Cardinality(P) + 1
    BY <1>2, FS_AddElement
  <2>2. QED
    BY <1>2, <2>1
<1>5. Cardinality(Prefix(s, S, i)) <= Cardinality(P \cup {s[i]})
  BY <1>3, <1>4, FS_Subset
<1>6. Cardinality(Prefix(s, S, i)) \in Nat /\ Cardinality(P \cup {s[i]}) \in Nat
  BY <1>4, PrefixFinite, FS_CardinalityType
<1>7. QED
  BY <1>2, <1>4, <1>5, <1>6

\* The first n elements are elements of both, and at most n.
LEMMA FirstOfBounded ==
  ASSUME NEW X, NEW s \in Seq(X), NEW S, NEW n \in Nat
  PROVE  /\ FirstOf(s, S, n) \subseteq S \cap ToSet(s)
         /\ IsFiniteSet(FirstOf(s, S, n))
         /\ Cardinality(FirstOf(s, S, n)) \in Nat /\ Cardinality(FirstOf(s, S, n)) <= n
<1> DEFINE D == {i \in DOMAIN s : s[i] \in S /\ Cardinality(Prefix(s, S, i)) <= n}
<1>1. FirstOf(s, S, n) = {s[i] : i \in D}
  BY DEF FirstOf, Prefix
<1>2. DOMAIN s = 1..Len(s) /\ Len(s) \in Nat
  BY LenProperties
<1>3. FirstOf(s, S, n) \subseteq S \cap ToSet(s)
  BY <1>1 DEF ToSet
<1>4. CASE D = {}
  <2>1. FirstOf(s, S, n) = {}
    BY <1>1, <1>4
  <2>2. IsFiniteSet({}) /\ Cardinality({}) = 0
    BY FS_EmptySet
  <2>3. QED
    BY <2>1, <2>2
<1>5. CASE D # {}
  <2>1. PICK k \in D : \A i \in D : i <= k
    <3>1. D \subseteq 1..Len(s)
      BY <1>2
    <3> HIDE DEF D
    <3>2. QED
      BY <1>2, <1>5, <3>1, HasGreatest
  <2>2. k \in Nat /\ k \in 1..Len(s) /\ Cardinality(Prefix(s, S, k)) <= n
    BY <1>2
  <2>3. FirstOf(s, S, n) \subseteq Prefix(s, S, k)
    <3>1. ASSUME NEW i \in D
          PROVE  s[i] \in Prefix(s, S, k)
      <4>1. i \in 1..k /\ s[i] \in S
        BY <1>2, <2>1, <2>2
      <4>2. QED
        BY <4>1 DEF Prefix
    <3>2. QED
      BY <1>1, <3>1
  <2>4. IsFiniteSet(Prefix(s, S, k)) /\ Cardinality(Prefix(s, S, k)) \in Nat
    BY <2>2, PrefixFinite
  <2>5. /\ IsFiniteSet(FirstOf(s, S, n))
        /\ Cardinality(FirstOf(s, S, n)) <= Cardinality(Prefix(s, S, k))
    BY <2>3, <2>4, FS_Subset
  <2>6. Cardinality(FirstOf(s, S, n)) \in Nat
    BY <2>5, FS_CardinalityType
  <2>7. QED
    BY <1>3, <2>2, <2>4, <2>5, <2>6
<1>6. QED
  BY <1>4, <1>5

\* Those that are left out found n elements before them.
LEMMA FirstOfFull ==
  ASSUME NEW X, NEW s \in Seq(X), NEW S, NEW n \in Nat,
         ~(S \cap ToSet(s) \subseteq FirstOf(s, S, n))
  PROVE  Cardinality(FirstOf(s, S, n)) = n
<1> DEFINE F == FirstOf(s, S, n)
           B == {i \in DOMAIN s : s[i] \in S /\ ~(Cardinality(Prefix(s, S, i)) <= n)}
<1>1. DOMAIN s = 1..Len(s) /\ Len(s) \in Nat
  BY LenProperties
<1>2. B # {} /\ B \subseteq Nat
  <2>1. PICK j \in DOMAIN s : s[j] \in S /\ s[j] \notin F
    BY DEF ToSet
  <2>2. ~(Cardinality(Prefix(s, S, j)) <= n)
    BY <2>1 DEF FirstOf, Prefix
  <2>3. j \in B
    BY <2>1, <2>2
  <2>4. QED
    BY <1>1, <2>3
<1>3. PICK i \in B : \A j \in B : i <= j
  <2> HIDE DEF B
  <2>1. QED
    BY <1>2, HasLeast
<1>4. i \in Nat \ {0} /\ i \in 1..Len(s) /\ ~(Cardinality(Prefix(s, S, i)) <= n)
  BY <1>1
<1>5. Prefix(s, S, i - 1) \subseteq F
  <2>1. ASSUME NEW j \in 1..(i - 1), s[j] \in S
        PROVE  s[j] \in F
    <3>1. j \in DOMAIN s /\ ~(i <= j)
      BY <1>1, <1>4
    <3>2. j \notin B
      BY <1>3, <3>1
    <3>3. Cardinality(Prefix(s, S, j)) <= n
      BY <2>1, <3>1, <3>2
    <3>4. QED
      BY <2>1, <3>1, <3>3 DEF FirstOf, Prefix
  <2> HIDE DEF F
  <2>2. QED
    BY <2>1 DEF Prefix
<1>6. IsFiniteSet(F) /\ Cardinality(F) \in Nat /\ Cardinality(F) <= n
  BY FirstOfBounded
<1>7. Cardinality(Prefix(s, S, i - 1)) <= Cardinality(F)
  <2> HIDE DEF F
  <2>1. QED
    BY <1>5, <1>6, FS_Subset
<1>8. /\ Cardinality(Prefix(s, S, i)) \in Nat /\ Cardinality(Prefix(s, S, i - 1)) \in Nat
      /\ Cardinality(Prefix(s, S, i)) <= Cardinality(Prefix(s, S, i - 1)) + 1
  <2>1. i - 1 \in Nat
    BY <1>4
  <2>2. QED
    BY <1>4, <2>1, PrefixFinite, PrefixStep
<1>9. QED
  <2> HIDE DEF F
  <2>1. Cardinality(F) = n
    BY <1>4, <1>6, <1>7, <1>8
  <2>2. QED
    BY <2>1 DEF F

LEMMA ToSetConcat ==
  ASSUME NEW X, NEW s \in Seq(X), NEW t \in Seq(X)
  PROVE  ToSet(s \o t) = ToSet(s) \cup ToSet(t)
<1>1. /\ DOMAIN s = 1..Len(s) /\ DOMAIN t = 1..Len(t) /\ Len(s) \in Nat /\ Len(t) \in Nat
      /\ s \o t \in Seq(X) /\ Len(s \o t) = Len(s) + Len(t)
      /\ DOMAIN (s \o t) = 1..(Len(s) + Len(t))
  BY LenProperties, ConcatProperties
<1>2. \A i \in 1..(Len(s) + Len(t)) :
        (s \o t)[i] = IF i <= Len(s) THEN s[i] ELSE t[i - Len(s)]
  BY ConcatProperties
<1>3. ASSUME NEW i \in DOMAIN s
      PROVE  s[i] \in ToSet(s \o t)
  <2>1. i \in 1..(Len(s) + Len(t)) /\ i <= Len(s)
    BY <1>1
  <2>2. (s \o t)[i] = s[i]
    BY <1>2, <2>1
  <2>3. QED
    BY <1>1, <2>1, <2>2 DEF ToSet
<1>4. ASSUME NEW i \in DOMAIN t
      PROVE  t[i] \in ToSet(s \o t)
  <2> DEFINE k == i + Len(s)
  <2>1. k \in 1..(Len(s) + Len(t)) /\ ~(k <= Len(s)) /\ k - Len(s) = i
    BY <1>1
  <2>2. (s \o t)[k] = t[i]
    BY <1>2, <2>1
  <2>3. QED
    BY <1>1, <2>1, <2>2 DEF ToSet
<1>5. ASSUME NEW i \in DOMAIN (s \o t)
      PROVE  (s \o t)[i] \in ToSet(s) \cup ToSet(t)
  <2>1. CASE i <= Len(s)
    <3>1. i \in DOMAIN s
      BY <1>1, <2>1
    <3>2. (s \o t)[i] = s[i]
      BY <1>1, <1>2, <2>1
    <3>3. QED
      BY <3>1, <3>2 DEF ToSet
  <2>2. CASE ~(i <= Len(s))
    <3>1. i - Len(s) \in DOMAIN t
      BY <1>1, <2>2
    <3>2. (s \o t)[i] = t[i - Len(s)]
      BY <1>1, <1>2, <2>2
    <3>3. QED
      BY <3>1, <3>2 DEF ToSet
  <2>3. QED
    BY <2>1, <2>2
<1>6. QED
  BY <1>3, <1>4, <1>5 DEF ToSet

LEMMA ToSetType ==
  ASSUME NEW X, NEW s \in Seq(X)
  PROVE  ToSet(s) \subseteq X
  BY LenProperties DEF ToSet

\* As many elements as places, where no element occurs twice.
LEMMA ToSetCard ==
  ASSUME NEW X, NEW s \in Seq(X), IsInjective(s)
  PROVE  IsFiniteSet(ToSet(s)) /\ Cardinality(ToSet(s)) = Len(s)
<1>1. DOMAIN s = 1..Len(s) /\ Len(s) \in Nat /\ s \in [1..Len(s) -> X]
  BY LenProperties
<1>2. s \in Bijection(1..Len(s), ToSet(s))
  BY <1>1 DEF Bijection, Injection, Surjection, ToSet
<1>3. IsFiniteSet(1..Len(s)) /\ Cardinality(1..Len(s)) = Len(s)
  BY <1>1, FS_Interval
<1>4. ExistsBijection(1..Len(s), ToSet(s))
  BY <1>2 DEF ExistsBijection
<1>5. QED
  BY <1>3, <1>4, FS_Bijection

\* A room that is not in the table is appended to it.
LEMMA AppendRoom ==
  ASSUME NEW X, NEW s \in Seq(X), IsInjective(s), NEW r \in X, r \notin ToSet(s)
  PROVE  /\ Append(s, r) \in Seq(X) /\ Len(Append(s, r)) = Len(s) + 1
         /\ ToSet(Append(s, r)) = ToSet(s) \cup {r}
         /\ IsInjective(Append(s, r))
<1> DEFINE t == Append(s, r)
<1>1. /\ DOMAIN s = 1..Len(s) /\ Len(s) \in Nat
      /\ t \in Seq(X) /\ Len(t) = Len(s) + 1 /\ DOMAIN t = 1..(Len(s) + 1)
      /\ \A i \in 1..Len(s) : t[i] = s[i]
      /\ t[Len(s) + 1] = r
  BY LenProperties, AppendProperties
<1>2. 1..(Len(s) + 1) = 1..Len(s) \cup {Len(s) + 1}
  BY <1>1
<1> HIDE DEF t
<1>3. ToSet(t) = ToSet(s) \cup {r}
  BY <1>1, <1>2 DEF ToSet
<1>4. \A i \in 1..Len(s) : s[i] # r
  BY <1>1 DEF ToSet
<1>5. IsInjective(t)
  BY <1>1, <1>2, <1>4 DEF IsInjective
<1>6. QED
  BY <1>1, <1>3, <1>5 DEF t
----------------------------------------------------------------------------
(* The tables.                                                             *)

CfgType ==
  [own : Seq(Room), ownch : SUBSET Room, hub : SUBSET Room, hubch : SUBSET Room,
   policy : Policy]

\* What the node has by itself is within the tables.
Base(c) ==
  /\ c \in CfgType
  /\ IsInjective(c.own) /\ Len(c.own) <= MaxRooms
  /\ IsFiniteSet(c.ownch) /\ Cardinality(c.ownch) <= MaxChannels

\* And so is the hub's part, which is that of the set in force.
Tables(c) ==
  /\ Base(c)
  /\ c.hub \subseteq ToSet(c.policy.rooms) \ OwnRooms(c)
  /\ IsFiniteSet(c.hub) /\ Len(c.own) + Cardinality(c.hub) <= MaxRooms
  /\ c.hubch \subseteq c.hub \ c.ownch
  /\ IsFiniteSet(c.hubch) /\ Cardinality(c.ownch) + Cardinality(c.hubch) <= MaxChannels
  /\ (ToSet(c.policy.rooms) \subseteq Served(c) \/ Len(c.own) + Cardinality(c.hub) = MaxRooms)

\* config_policy_merge keeps what is the node's own and fills the tables from the set.
LEMMA MergedTables ==
  ASSUME NEW c, Base(c)
  PROVE  /\ Tables(Merged(c))
         /\ Merged(c).own = c.own /\ Merged(c).ownch = c.ownch /\ Merged(c).policy = c.policy
<1> DEFINE n == MaxRooms - Len(c.own)
           k == MaxChannels - Cardinality(c.ownch)
           rooms == c.policy.rooms
           add == FirstOf(rooms, Room \ OwnRooms(c), n)
           ch == FirstOf(rooms, add \ c.ownch, k)
           m == Merged(c)
<1>1. /\ c \in CfgType /\ c.own \in Seq(Room) /\ c.ownch \in SUBSET Room /\ rooms \in Seq(Room)
      /\ Len(c.own) \in Nat /\ Cardinality(c.ownch) \in Nat
  <2>1. c \in CfgType /\ IsFiniteSet(c.ownch)
    BY DEF Base
  <2>2. c.own \in Seq(Room) /\ c.ownch \in SUBSET Room /\ rooms \in Seq(Room)
    BY <2>1 DEF CfgType, Policy
  <2>3. QED
    BY <2>1, <2>2, LenProperties, FS_CardinalityType
<1>2. n \in Nat /\ k \in Nat
  <2>1. MaxRooms \in Nat /\ MaxChannels \in Nat
    BY CentralAssumption
  <2>2. Len(c.own) <= MaxRooms /\ Cardinality(c.ownch) <= MaxChannels
    BY DEF Base
  <2>3. QED
    BY <1>1, <2>1, <2>2
<1>3. m = [c EXCEPT !.hub = add, !.hubch = ch]
  BY DEF Merged
<1> HIDE DEF n, k
<1>4. /\ add \subseteq (Room \ OwnRooms(c)) \cap ToSet(rooms)
      /\ IsFiniteSet(add) /\ Cardinality(add) \in Nat /\ Cardinality(add) <= n
  <2> HIDE DEF rooms
  <2>1. QED
    BY <1>1, <1>2, FirstOfBounded
<1>5. /\ ch \subseteq (add \ c.ownch) \cap ToSet(rooms)
      /\ IsFiniteSet(ch) /\ Cardinality(ch) \in Nat /\ Cardinality(ch) <= k
  <2> HIDE DEF rooms, add
  <2>1. QED
    BY <1>1, <1>2, FirstOfBounded
<1>6. ToSet(rooms) \subseteq OwnRooms(c) \cup add \/ Cardinality(add) = n
  <2>1. CASE (Room \ OwnRooms(c)) \cap ToSet(rooms) \subseteq add
    <3>1. ToSet(rooms) \subseteq Room
      BY <1>1, ToSetType
    <3>2. QED
      BY <2>1, <3>1
  <2>2. CASE ~((Room \ OwnRooms(c)) \cap ToSet(rooms) \subseteq add)
    <3> HIDE DEF rooms
    <3>1. Cardinality(add) = n
      BY <1>1, <1>2, <2>2, FirstOfFull
    <3>2. QED
      BY <3>1
  <2>3. QED
    BY <2>1, <2>2
<1> HIDE DEF add, ch, m
<1>7. /\ m.own = c.own /\ m.ownch = c.ownch /\ m.policy = c.policy /\ m.hub = add /\ m.hubch = ch
      /\ m \in CfgType
  <2>1. add \in SUBSET Room /\ ch \in SUBSET Room
    BY <1>4, <1>5
  <2>2. QED
    BY <1>1, <1>3, <2>1 DEF CfgType
<1>8. MaxRooms \in Nat /\ MaxChannels \in Nat
  BY CentralAssumption
<1>9. Base(m)
  BY <1>7 DEF Base
<1>10. /\ Len(m.own) + Cardinality(m.hub) <= MaxRooms
       /\ Cardinality(m.ownch) + Cardinality(m.hubch) <= MaxChannels
       /\ Cardinality(add) = n => Len(m.own) + Cardinality(m.hub) = MaxRooms
  BY <1>1, <1>4, <1>5, <1>7, <1>8 DEF n, k
<1>11. Tables(m)
  BY <1>4, <1>5, <1>6, <1>7, <1>9, <1>10 DEF Tables, OwnRooms, Served
<1>12. QED
  BY <1>7, <1>11 DEF m
----------------------------------------------------------------------------
(* The inductive invariant.                                                *)

\* A set in force or in a file: none, or a whole set of the hub.
GoodPolicy(p) ==
  /\ p \in Policy
  /\ IF p.version = 0 THEN p = NoPolicy
     ELSE p.version \in 1..Len(Sets) /\ Entries(p) = WholeSet(p.version)

HubType == [last : 1..Len(Sets), up : BOOLEAN, seq : Nat]

InForceOK == Tables(cfg) /\ GoodPolicy(cfg.policy) /\ cfg.policy.version <= hub.last

DiskType == [file : Policy, tmp : Policy, conf : Seq(Room)]

FilesOK ==
  /\ disk \in DiskType
  /\ IsInjective(disk.conf) /\ Len(disk.conf) <= MaxRooms
  /\ ToSet(disk.conf) \subseteq OwnRooms(cfg)
  /\ GoodPolicy(disk.file) /\ disk.file.version <= hub.last
  /\ pc = "rename" => disk.tmp = cfg.policy

PageOK(p, h) ==
  /\ p \in Page /\ p.version <= h.last
  /\ p.pages = Len(Sets[p.version]) /\ p.page <= p.pages
  /\ 1 <= p.seq /\ p.seq <= h.seq

\* Pages in flight bear later numbers for later sets, and those of sets before the
\* one in force are stale.
Ordered(fl, h, app, v) ==
  /\ \A p \in fl : PageOK(p, h) /\ (v <= p.version \/ (app > 0 /\ p.seq < app))
  /\ \A p, q \in fl : p.version < q.version => p.seq < q.seq

ColType ==
  [version : Nat, pages : Nat, have : SUBSET Nat, min : Nat, max : Nat,
   rooms : Seq(Room), blocks : SUBSET Block]

\* A collection under way is part of one set, which is not before the one in force,
\* and its numbers lie between those of earlier and of later sets in flight.
Part(c, h, v) ==
  /\ c.version \in 1..Len(Sets) /\ c.version <= h.last /\ v <= c.version
  /\ c.pages = Len(Sets[c.version]) /\ c.have \subseteq 1..c.pages
  /\ Entries(c) = UNION {Entries(Sets[c.version][i]) : i \in c.have}
  /\ 1 <= c.min /\ c.min <= c.max /\ c.max <= h.seq

Between(c, fl) ==
  \A q \in fl : /\ c.version < q.version => c.max < q.seq
                /\ q.version < c.version => q.seq < c.min

Collected(c, fl, h, v) ==
  /\ c \in ColType
  /\ c.pages = 0 \/ (Part(c, h, v) /\ Between(c, fl))

CliType ==
  /\ applied \in Nat /\ soon \in BOOLEAN /\ pc \in {"loop", "open", "write", "rename", "conf"}
  /\ hub \in HubType /\ asked \in SUBSET Room
  /\ used \in [{"faults", "cli"} -> Nat]

IInv ==
  /\ CliType /\ InForceOK /\ FilesOK
  /\ Ordered(flight, hub, applied, cfg.policy.version)
  /\ Collected(col, flight, hub, cfg.policy.version)
----------------------------------------------------------------------------
(* The sets and their collection.                                          *)

LEMMA ContentOfPage ==
  ASSUME NEW v \in 1..Len(Sets), NEW i \in 1..Len(Sets[v])
  PROVE  /\ Sets[v][i].rooms \in Seq(Room) /\ Sets[v][i].blocks \in SUBSET Block
         /\ DOMAIN Sets[v] = 1..Len(Sets[v]) /\ Len(Sets[v]) \in Nat \ {0}
<1>1. Sets \in Seq(Seq(Content)) /\ Sets[v] # <<>>
  BY CentralAssumption
<1>2. Sets[v] \in Seq(Content)
  BY <1>1, LenProperties
<1>3. Sets[v][i] \in Content /\ DOMAIN Sets[v] = 1..Len(Sets[v]) /\ Len(Sets[v]) \in Nat
  BY <1>2, LenProperties
<1>4. QED
  BY <1>3 DEF Content

LEMMA SetsType ==
  /\ Sets \in Seq(Seq(Content)) /\ Len(Sets) \in Nat \ {0} /\ DOMAIN Sets = 1..Len(Sets)
  /\ \A v \in 1..Len(Sets) :
       /\ Sets[v] \in Seq(Content) /\ DOMAIN Sets[v] = 1..Len(Sets[v])
       /\ Len(Sets[v]) \in Nat \ {0}
<1>1. /\ Sets \in Seq(Seq(Content)) /\ Sets # <<>>
      /\ \A v \in 1..Len(Sets) : Sets[v] # <<>>
  BY CentralAssumption
<1>2. Len(Sets) \in Nat \ {0} /\ DOMAIN Sets = 1..Len(Sets)
  BY <1>1, LenProperties
<1>3. ASSUME NEW v \in 1..Len(Sets)
      PROVE  /\ Sets[v] \in Seq(Content) /\ DOMAIN Sets[v] = 1..Len(Sets[v])
             /\ Len(Sets[v]) \in Nat \ {0}
  <2>1. Sets[v] \in Seq(Content) /\ Sets[v] # <<>>
    BY <1>1, LenProperties
  <2>2. QED
    BY <2>1, LenProperties
<1>4. QED
  BY <1>1, <1>2, <1>3

LEMMA NoneCollected ==
  ASSUME NEW fl, NEW h, NEW v
  PROVE  Collected(NoPages, fl, h, v)
<1>1. <<>> \in Seq(Room)
  OBVIOUS
<1>2. QED
  BY <1>1 DEF Collected, NoPages, ColType

\* Less in flight, less to keep.
LEMMA Fewer ==
  ASSUME NEW fl, NEW less \in SUBSET fl, NEW h, NEW app, NEW v, NEW c
  PROVE  /\ Ordered(fl, h, app, v) => Ordered(less, h, app, v)
         /\ Collected(c, fl, h, v) => Collected(c, less, h, v)
<1>1. Ordered(fl, h, app, v) => Ordered(less, h, app, v)
  BY DEF Ordered
<1>2. Between(c, fl) => Between(c, less)
  BY DEF Between
<1>3. QED
  BY <1>1, <1>2 DEF Collected

\* A page that is taken extends a collection of its own set, or begins one.
LEMMA WithCollected ==
  ASSUME IInv, NEW p \in flight, ~Stale(p), ~Unwanted(p)
  PROVE  /\ With(p) \in ColType /\ Part(With(p), hub, cfg.policy.version)
         /\ Between(With(p), flight)
<1> DEFINE v == cfg.policy.version
           c == IF col.pages = 0 \/ Differs(p)
                THEN [NoPages EXCEPT !.version = p.version, !.pages = p.pages,
                                     !.min = p.seq, !.max = p.seq]
                ELSE col
           page == Sets[p.version][p.page]
           w == With(p)
<1>1. /\ PageOK(p, hub) /\ v <= p.version /\ hub \in HubType /\ applied \in Nat
      /\ v \in Nat /\ col \in ColType
      /\ col.pages = 0 \/ (Part(col, hub, v) /\ Between(col, flight))
  <2>1. /\ PageOK(p, hub) /\ (v <= p.version \/ (applied > 0 /\ p.seq < applied))
        /\ Collected(col, flight, hub, v) /\ CliType /\ GoodPolicy(cfg.policy)
    BY DEF IInv, Ordered, InForceOK
  <2>2. v \in Nat
    BY <2>1 DEF GoodPolicy, Policy
  <2>3. QED
    BY <2>1, <2>2 DEF Stale, CliType, Collected
<1>2. /\ p.version \in 1..Len(Sets) /\ p.seq \in Nat /\ p.page \in 1..p.pages
      /\ p.pages = Len(Sets[p.version]) /\ p.pages \in Nat \ {0}
      /\ p.version \in Nat /\ p.version <= hub.last /\ 1 <= p.seq /\ p.seq <= hub.seq
      /\ hub.seq \in Nat /\ hub.last \in Nat
  BY <1>1, SetsType DEF PageOK, Page, HubType
<1>3. /\ page.rooms \in Seq(Room) /\ page.blocks \in SUBSET Block
  BY <1>2, ContentOfPage
<1>4. /\ w = [c EXCEPT !.have = @ \cup {p.page},
                       !.rooms = @ \o page.rooms, !.blocks = @ \cup page.blocks,
                       !.min = IF p.seq < @ THEN p.seq ELSE @,
                       !.max = IF p.seq > @ THEN p.seq ELSE @]
  BY DEF With
<1>5. \A q \in flight :
        /\ q.seq \in Nat /\ q.version \in Nat
        /\ p.version < q.version => p.seq < q.seq
        /\ q.version < p.version => q.seq < p.seq
  <2>1. Ordered(flight, hub, applied, v)
    BY DEF IInv
  <2>2. \A q \in flight : q.seq \in Nat /\ q.version \in 1..Len(Sets)
    BY <2>1 DEF Ordered, PageOK, Page
  <2>3. Len(Sets) \in Nat
    BY SetsType
  <2>4. QED
    BY <2>1, <2>2, <2>3 DEF Ordered
\* The collection the page goes to.
<1>6. c \in ColType /\ Part(c, hub, v) /\ Between(c, flight) /\ c.version = p.version
  <2>1. CASE col.pages = 0 \/ Differs(p)
    <3>1. /\ c.version = p.version /\ c.pages = p.pages /\ c.have = {} /\ c.min = p.seq
          /\ c.max = p.seq /\ c.rooms = <<>> /\ c.blocks = {} /\ c \in ColType
      <4>1. NoPages \in ColType
        <5>1. <<>> \in Seq(Room)
          OBVIOUS
        <5>2. QED
          BY <5>1 DEF NoPages, ColType
      <4>2. c = [NoPages EXCEPT !.version = p.version, !.pages = p.pages,
                                !.min = p.seq, !.max = p.seq]
        BY <2>1
      <4> HIDE DEF c
      <4>3. QED
        BY <1>2, <4>1, <4>2 DEF ColType, NoPages
    <3> HIDE DEF c
    <3>2. Entries(c) = {} /\ UNION {Entries(Sets[c.version][i]) : i \in c.have} = {}
      BY <3>1 DEF Entries, ToSet
    <3>3. Part(c, hub, v)
      BY <1>1, <1>2, <3>1, <3>2 DEF Part
    <3>4. Between(c, flight)
      <4>1. ASSUME NEW q \in flight
            PROVE  /\ c.version < q.version => c.max < q.seq
                   /\ q.version < c.version => q.seq < c.min
        BY <1>5, <3>1
      <4>2. QED
        BY <4>1 DEF Between
    <3>5. QED
      BY <3>1, <3>3, <3>4
  <2>2. CASE ~(col.pages = 0 \/ Differs(p))
    <3>1. c = col
      BY <2>2
    <3>2. p.version = col.version
      <4>1. col.pages > 0
        BY <1>1, <2>2 DEF ColType
      <4>2. QED
        BY <2>2, <4>1 DEF Differs
    <3>3. QED
      BY <1>1, <2>2, <3>1, <3>2
  <2>3. QED
    BY <2>1, <2>2
<1> HIDE DEF c, page, w
<1>7. /\ w \in ColType
      /\ w.version = p.version /\ w.pages = c.pages /\ w.have = c.have \cup {p.page}
      /\ w.rooms = c.rooms \o page.rooms /\ w.blocks = c.blocks \cup page.blocks
      /\ w.min = (IF p.seq < c.min THEN p.seq ELSE c.min)
      /\ w.max = (IF p.seq > c.max THEN p.seq ELSE c.max)
  <2>1. c.rooms \o page.rooms \in Seq(Room)
    BY <1>3, <1>6, ConcatProperties DEF ColType
  <2>2. p.page \in Nat
    BY <1>2
  <2>3. QED
    BY <1>2, <1>3, <1>4, <1>6, <2>1, <2>2 DEF ColType
<1>8. Entries(w) = UNION {Entries(Sets[w.version][i]) : i \in w.have}
  <2>1. c.rooms \in Seq(Room) /\ page.rooms \in Seq(Room)
    BY <1>3, <1>6 DEF ColType
  <2>2. ToSet(w.rooms) = ToSet(c.rooms) \cup ToSet(page.rooms)
    BY <1>7, <2>1, ToSetConcat
  <2>3. Entries(w) = Entries(c) \cup Entries(page)
    BY <1>7, <2>2 DEF Entries
  <2>4. Entries(c) = UNION {Entries(Sets[p.version][i]) : i \in c.have}
    BY <1>6 DEF Part
  <2>5. w.have = c.have \cup {p.page} /\ w.version = p.version
    BY <1>7
  <2>6. Entries(page) = Entries(Sets[p.version][p.page])
    BY DEF page
  <2> HIDE DEF page
  <2>7. UNION {Entries(Sets[p.version][i]) : i \in c.have \cup {p.page}} =
        (UNION {Entries(Sets[p.version][i]) : i \in c.have}) \cup Entries(Sets[p.version][p.page])
    OBVIOUS
  <2>8. QED
    BY <2>3, <2>4, <2>5, <2>6, <2>7
<1>9. /\ 1 <= w.min /\ w.min <= w.max /\ w.max <= hub.seq
      /\ c.min \in Nat /\ c.max \in Nat
  <2>1. /\ c.min \in Nat /\ c.max \in Nat /\ p.seq \in Nat /\ hub.seq \in Nat
        /\ 1 <= c.min /\ c.min <= c.max /\ c.max <= hub.seq /\ 1 <= p.seq /\ p.seq <= hub.seq
    BY <1>2, <1>6 DEF Part, ColType
  <2>2. /\ w.min = (IF p.seq < c.min THEN p.seq ELSE c.min)
        /\ w.max = (IF p.seq > c.max THEN p.seq ELSE c.max)
    BY <1>7
  <2>3. QED
    BY <2>1, <2>2
<1>10. Part(w, hub, v)
  <2>1. /\ c.pages = Len(Sets[p.version]) /\ c.have \subseteq 1..c.pages
        /\ p.version \in 1..Len(Sets) /\ p.version <= hub.last /\ v <= p.version
    BY <1>1, <1>2, <1>6 DEF Part
  <2>2. w.have \subseteq 1..w.pages
    BY <1>2, <1>7, <2>1
  <2>3. QED
    BY <1>7, <1>8, <1>9, <2>1, <2>2 DEF Part
<1>11. Between(w, flight)
  <2>1. ASSUME NEW q \in flight
        PROVE  /\ w.version < q.version => w.max < q.seq
               /\ q.version < w.version => q.seq < w.min
    <3>1. /\ p.version < q.version => c.max < q.seq
          /\ q.version < p.version => q.seq < c.min
      BY <1>6 DEF Between
    <3>2. /\ q.seq \in Nat /\ p.seq \in Nat
          /\ p.version < q.version => p.seq < q.seq
          /\ q.version < p.version => q.seq < p.seq
      BY <1>2, <1>5
    <3>3. /\ w.version = p.version
          /\ w.min = (IF p.seq < c.min THEN p.seq ELSE c.min)
          /\ w.max = (IF p.seq > c.max THEN p.seq ELSE c.max)
      BY <1>7
    <3>4. c.min \in Nat /\ c.max \in Nat
      BY <1>9
    <3>5. QED
      BY <3>1, <3>2, <3>3, <3>4
  <2>2. QED
    BY <2>1 DEF Between
<1>12. QED
  BY <1>7, <1>10, <1>11 DEF w
----------------------------------------------------------------------------
(* Applying and loading.                                                   *)

\* config_set_policy: the tables hold the set, without a block of the node itself.
LEMMA PolicyApplied ==
  ASSUME NEW c, Base(c), NEW q, q.version \in Nat, q.rooms \in Seq(Room),
         q.blocks \in SUBSET Block
  PROVE  /\ Tables(WithPolicy(c, q)) /\ WithPolicy(c, q).own = c.own
         /\ WithPolicy(c, q).policy =
              [version |-> q.version, rooms |-> q.rooms, blocks |-> q.blocks \ {Itself}]
<1> DEFINE new == [version |-> q.version, rooms |-> q.rooms, blocks |-> q.blocks \ {Itself}]
           d == [c EXCEPT !.policy = new]
<1>1. new \in Policy
  BY DEF Policy
<1>2. c \in CfgType
  BY DEF Base
<1> HIDE DEF new
<1>3. /\ d \in CfgType /\ d.own = c.own /\ d.ownch = c.ownch /\ d.policy = new
  BY <1>1, <1>2 DEF CfgType
<1>4. WithPolicy(c, q) = Merged(d)
  BY DEF WithPolicy, new
<1> HIDE DEF d
<1>5. Base(d)
  BY <1>3 DEF Base
<1>6. QED
  BY <1>3, <1>4, <1>5, MergedTables DEF new

\* config_load: the rooms of the file replace the node's own, the set stays in force.
LEMMA LoadedTables ==
  ASSUME NEW c \in CfgType, NEW conf \in Seq(Room), IsInjective(conf), Len(conf) <= MaxRooms
  PROVE  /\ Tables(Loaded(c, conf)) /\ Loaded(c, conf).own = conf
         /\ Loaded(c, conf).policy = c.policy
<1> DEFINE ch == FirstOf(conf \o <<Ping>>, Room, MaxChannels)
           d == [c EXCEPT !.own = conf, !.ownch = ch]
<1>1. Ping \in Room /\ MaxChannels \in Nat
  BY CentralAssumption
<1>2. conf \o <<Ping>> \in Seq(Room)
  <2>1. <<Ping>> \in Seq(Room)
    BY <1>1
  <2>2. QED
    BY <2>1, ConcatProperties
<1>3. ch \in SUBSET Room /\ IsFiniteSet(ch) /\ Cardinality(ch) <= MaxChannels
  BY <1>1, <1>2, FirstOfBounded
<1> HIDE DEF ch
<1>4. d \in CfgType /\ d.own = conf /\ d.ownch = ch /\ d.policy = c.policy
  BY <1>3 DEF CfgType
<1>5. Loaded(c, conf) = Merged(d)
  BY DEF Loaded, ch
<1> HIDE DEF d
<1>6. Base(d)
  BY <1>3, <1>4 DEF Base
<1>7. QED
  BY <1>4, <1>5, <1>6, MergedTables

\* main: what the files hold is what is served.
LEMMA StartedTables ==
  ASSUME NEW d \in DiskType, IsInjective(d.conf), Len(d.conf) <= MaxRooms, GoodPolicy(d.file)
  PROVE  /\ Tables(StartedFrom(d)) /\ StartedFrom(d).own = d.conf
         /\ StartedFrom(d).policy = d.file
<1> DEFINE c == Loaded(Blank, d.conf)
<1>1. d.conf \in Seq(Room) /\ d.file \in Policy
  BY DEF DiskType
<1>2. Blank \in CfgType /\ Blank.policy = NoPolicy
  <2>1. <<>> \in Seq(Room)
    OBVIOUS
  <2>2. NoPolicy \in Policy
    BY <2>1 DEF NoPolicy, Policy
  <2>3. QED
    BY <2>1, <2>2 DEF Blank, CfgType
<1>3. Tables(c) /\ c.own = d.conf /\ c.policy = NoPolicy
  BY <1>1, <1>2, LoadedTables
<1>4. StartedFrom(d) = IF d.file.version = 0 THEN c ELSE WithPolicy(c, d.file)
  BY DEF StartedFrom
<1> HIDE DEF c
<1>5. CASE d.file.version = 0
  BY <1>3, <1>4, <1>5 DEF GoodPolicy
<1>6. CASE d.file.version # 0
  <2>1. /\ d.file.version \in Nat /\ d.file.rooms \in Seq(Room) /\ d.file.blocks \in SUBSET Block
        /\ d.file = [version |-> d.file.version, rooms |-> d.file.rooms,
                     blocks |-> d.file.blocks]
    BY <1>1 DEF Policy
  <2>2. Itself \notin d.file.blocks
    BY <1>6 DEF GoodPolicy, Entries, WholeSet
  <2>3. d.file.blocks \ {Itself} = d.file.blocks
    BY <2>2
  <2>4. Base(c)
    BY <1>3 DEF Tables
  <2>5. /\ Tables(WithPolicy(c, d.file)) /\ WithPolicy(c, d.file).own = c.own
        /\ WithPolicy(c, d.file).policy =
             [version |-> d.file.version, rooms |-> d.file.rooms,
              blocks |-> d.file.blocks \ {Itself}]
    BY <2>1, <2>4, PolicyApplied
  <2>6. WithPolicy(c, d.file).policy = d.file
    BY <2>1, <2>3, <2>5
  <2>7. QED
    BY <1>3, <1>4, <1>6, <2>5, <2>6
<1>7. QED
  BY <1>5, <1>6

\* A collection that is complete is a whole set of the hub.
LEMMA WholeSetApplied ==
  ASSUME IInv, NEW w \in ColType, Part(w, hub, cfg.policy.version), Complete(w)
  PROVE  /\ Tables(WithPolicy(cfg, w)) /\ WithPolicy(cfg, w).own = cfg.own
         /\ GoodPolicy(WithPolicy(cfg, w).policy)
         /\ WithPolicy(cfg, w).policy.version = w.version
         /\ Entries(WithPolicy(cfg, w).policy) = WholeSet(w.version)
<1> DEFINE new == [version |-> w.version, rooms |-> w.rooms, blocks |-> w.blocks \ {Itself}]
<1>1. w.version \in Nat /\ w.rooms \in Seq(Room) /\ w.blocks \in SUBSET Block
  BY DEF ColType
<1>2. /\ Tables(WithPolicy(cfg, w)) /\ WithPolicy(cfg, w).own = cfg.own
      /\ WithPolicy(cfg, w).policy = new
  <2>1. Base(cfg)
    BY DEF IInv, InForceOK, Tables
  <2>2. QED
    BY <1>1, <2>1, PolicyApplied
<1>3. /\ w.version \in 1..Len(Sets) /\ w.have = DOMAIN Sets[w.version]
      /\ Entries(w) = UNION {Entries(Sets[w.version][i]) : i \in w.have}
  BY SetsType DEF Part, Complete
<1>4. Entries(new) = WholeSet(w.version)
  <2>1. Itself \notin ToSet(w.rooms)
    <3>1. ToSet(w.rooms) \subseteq Room
      BY <1>1, ToSetType
    <3>2. QED
      BY <3>1, CentralAssumption
  <2>2. Entries(new) = Entries(w) \ {Itself}
    BY <2>1 DEF Entries
  <2>3. QED
    BY <1>3, <2>2 DEF WholeSet
<1>5. new \in Policy /\ new.version = w.version /\ w.version # 0
  BY <1>1, <1>3, SetsType DEF Policy
<1> HIDE DEF new
<1>6. GoodPolicy(new)
  BY <1>3, <1>4, <1>5 DEF GoodPolicy
<1>7. QED
  BY <1>2, <1>4, <1>5, <1>6
----------------------------------------------------------------------------
(* Every step keeps the invariant.                                         *)

LEMMA CountKeeps ==
  ASSUME CliType, NEW what \in {"faults", "cli"}, Count(what)
  PROVE  used' \in [{"faults", "cli"} -> Nat]
  BY DEF CliType, Count

LEMMA IInvInit == Init => IInv
<1> SUFFICES ASSUME Init PROVE IInv
  OBVIOUS
<1>1. Len(Sets) \in Nat \ {0}
  BY SetsType
<1>2. /\ FileRooms \in Seq(Room) /\ IsInjective(FileRooms) /\ Len(FileRooms) <= MaxRooms
  BY CentralAssumption
<1>3. NoPolicy \in Policy /\ GoodPolicy(NoPolicy)
  <2>1. <<>> \in Seq(Room)
    OBVIOUS
  <2>2. QED
    BY <2>1 DEF NoPolicy, Policy, GoodPolicy
<1>4. disk \in DiskType /\ disk.conf = FileRooms /\ disk.file = NoPolicy
  BY <1>2, <1>3 DEF Init, DiskType
<1>5. Tables(cfg) /\ cfg.own = FileRooms /\ cfg.policy = NoPolicy
  BY <1>2, <1>3, <1>4, StartedTables DEF Init
<1>6. hub.last = 1 /\ hub \in HubType
  BY <1>1 DEF Init, HubType
<1>7. CliType
  <2>1. ToSet(FileRooms) \subseteq Room
    BY <1>2, ToSetType
  <2>2. used \in [{"faults", "cli"} -> Nat]
    <3>1. used = [w \in {"faults", "cli"} |-> 0]
      BY DEF Init
    <3>2. QED
      BY <3>1
  <2>3. applied \in Nat /\ soon \in BOOLEAN /\ pc = "loop" /\ asked = ToSet(FileRooms)
    BY DEF Init
  <2>4. QED
    BY <1>6, <2>1, <2>2, <2>3 DEF CliType
<1>8. NoPolicy.version <= hub.last
  <2>1. NoPolicy.version = 0
    BY DEF NoPolicy
  <2>2. hub.last = 1
    BY <1>6
  <2>3. QED
    BY <2>1, <2>2
<1>9. InForceOK /\ FilesOK
  <2>1. pc = "loop"
    BY DEF Init
  <2>2. QED
    BY <1>2, <1>3, <1>4, <1>5, <1>8, <2>1 DEF InForceOK, FilesOK, OwnRooms
<1>10. Ordered(flight, hub, applied, cfg.policy.version)
  BY DEF Init, Ordered
<1>11. Collected(col, flight, hub, cfg.policy.version)
  BY NoneCollected DEF Init
<1>12. QED
  BY <1>7, <1>9, <1>10, <1>11 DEF IInv

\* on_policy: what is applied is whole and newer, and what remains in flight is newer
\* still or stale.
LEMMA OnPolicyKeeps ==
  ASSUME IInv, NEW p \in flight, OnPolicy(p)
  PROVE  IInv'
<1> DEFINE v == cfg.policy.version
           w == With(p)
<1>1. /\ pc = "loop" /\ flight' = flight \ {p} /\ UNCHANGED <<disk, hub, asked, used>>
      /\ \/ UNCHANGED <<cfg, col, applied, soon, pc>>
         \/ /\ ~Stale(p) /\ ~Unwanted(p)
            /\ \/ ~Complete(w) /\ col' = w /\ UNCHANGED <<cfg, applied, soon, pc>>
               \/ /\ Complete(w) /\ applied' = w.min /\ col' = NoPages /\ soon' = TRUE
                  /\ IF w.version = v THEN UNCHANGED <<cfg, pc>>
                     ELSE cfg' = WithPolicy(cfg, w) /\ pc' = "open"
  BY DEF OnPolicy
<1>2. /\ CliType /\ InForceOK /\ FilesOK /\ flight' \in SUBSET flight
      /\ Ordered(flight, hub, applied, v) /\ Collected(col, flight, hub, v)
  BY <1>1 DEF IInv
<1>3. CASE UNCHANGED <<cfg, col, applied, soon, pc>>
  <2>1. CliType' /\ InForceOK' /\ FilesOK'
    BY <1>1, <1>2, <1>3 DEF CliType, InForceOK, FilesOK, OwnRooms
  <2>2. Ordered(flight', hub, applied, v) /\ Collected(col, flight', hub, v)
    BY <1>2, Fewer
  <2>3. QED
    BY <1>1, <1>3, <2>1, <2>2 DEF IInv
<1>4. CASE ~Stale(p) /\ ~Unwanted(p)
  <2>1. w \in ColType /\ Part(w, hub, v) /\ Between(w, flight)
    BY <1>4, WithCollected
  <2> HIDE DEF w
  <2>2. CASE ~Complete(w) /\ col' = w /\ UNCHANGED <<cfg, applied, soon, pc>>
    <3>1. CliType' /\ InForceOK' /\ FilesOK'
      BY <1>1, <1>2, <2>2 DEF CliType, InForceOK, FilesOK, OwnRooms
    <3>2. Collected(w, flight, hub, v)
      BY <2>1 DEF Collected
    <3>3. Ordered(flight', hub, applied, v) /\ Collected(w, flight', hub, v)
      BY <1>2, <3>2, Fewer
    <3>4. QED
      BY <1>1, <2>2, <3>1, <3>3 DEF IInv
  <2>3. CASE /\ Complete(w) /\ applied' = w.min /\ col' = NoPages /\ soon' = TRUE
             /\ IF w.version = v THEN UNCHANGED <<cfg, pc>>
                ELSE cfg' = WithPolicy(cfg, w) /\ pc' = "open"
    <3>1. /\ w.min \in Nat /\ 1 <= w.min /\ w.version <= hub.last
          /\ w.version \in Nat
      BY <2>1 DEF Part, ColType
    <3>2. /\ Tables(cfg') /\ cfg'.own = cfg.own /\ GoodPolicy(cfg'.policy)
          /\ cfg'.policy.version = w.version
      <4>1. CASE w.version = v
        BY <1>2, <2>3, <4>1 DEF InForceOK
      <4>2. CASE w.version # v
        BY <2>1, <2>3, <4>2, WholeSetApplied
      <4>3. QED
        BY <4>1, <4>2
    <3>3. CliType'
      BY <1>1, <1>2, <2>3, <3>1 DEF CliType
    <3>4. InForceOK'
      BY <1>1, <3>1, <3>2 DEF InForceOK
    <3>5. FilesOK'
      BY <1>1, <1>2, <2>3, <3>2 DEF FilesOK, OwnRooms
    <3>6. Ordered(flight', hub, w.min, w.version)
      <4>1. ASSUME NEW q \in flight
            PROVE  w.version <= q.version \/ q.seq < w.min
        <5>1. q.version \in Nat
          BY <1>2, SetsType DEF Ordered, PageOK, Page
        <5>2. q.version < w.version => q.seq < w.min
          BY <2>1 DEF Between
        <5>3. QED
          BY <3>1, <5>1, <5>2
      <4>2. Ordered(flight, hub, w.min, w.version)
        BY <1>2, <3>1, <4>1 DEF Ordered
      <4>3. QED
        BY <1>2, <4>2, Fewer
    <3>7. Collected(col', flight', hub, w.version)
      BY <2>3, NoneCollected
    <3>8. QED
      BY <1>1, <2>3, <3>2, <3>3, <3>4, <3>5, <3>6, <3>7 DEF IInv
  <2>4. QED
    BY <1>1, <1>4, <2>2, <2>3, <1>3
<1>5. QED
  BY <1>1, <1>3, <1>4

\* A step that leaves the collection and what is in flight alone.
LEMMA SessionKept ==
  ASSUME IInv, UNCHANGED <<col, applied, hub, flight>>, cfg'.policy = cfg.policy
  PROVE  /\ Ordered(flight, hub, applied, cfg.policy.version)'
         /\ Collected(col, flight, hub, cfg.policy.version)'
  BY DEF IInv

\* config_policy_save writes the set in force, and only whole.
LEMMA SavingKeeps ==
  ASSUME IInv, Saving
  PROVE  IInv'
<1>1. /\ UNCHANGED <<cfg, col, applied, soon, hub, flight, asked>>
      /\ CliType /\ InForceOK /\ FilesOK
  BY DEF IInv, Saving, SaveOpens, SaveWrites, SaveRenames, SaveConf
<1>2. CliType'
  <2>1. used' \in [{"faults", "cli"} -> Nat]
    <3>1. UNCHANGED used \/ Count("faults")
      BY DEF Saving, SaveOpens, SaveWrites, SaveRenames, SaveConf, Fault
    <3>2. QED
      BY <1>1, <3>1, CountKeeps DEF CliType
  <2>2. pc' \in {"loop", "write", "rename"}
    BY DEF Saving, SaveOpens, SaveWrites, SaveRenames, SaveConf
  <2>3. QED
    BY <1>1, <2>1, <2>2 DEF CliType
<1>3. InForceOK'
  BY <1>1 DEF InForceOK
<1>4. NoPolicy \in Policy /\ cfg.policy \in Policy /\ cfg.own \in Seq(Room)
  <2>1. <<>> \in Seq(Room)
    OBVIOUS
  <2>2. QED
    BY <1>1, <2>1 DEF NoPolicy, Policy, InForceOK, GoodPolicy, Tables, Base, CfgType
<1>5. FilesOK'
  <2>1. ASSUME NEW x \in {NoPolicy, cfg.policy}, disk' = [disk EXCEPT !.tmp = x],
               pc' = "rename" => x = cfg.policy
        PROVE  FilesOK'
    <3>1. /\ disk' \in DiskType /\ disk'.conf = disk.conf /\ disk'.file = disk.file
          /\ disk'.tmp = x
      BY <1>1, <1>4, <2>1 DEF FilesOK, DiskType
    <3>2. QED
      BY <1>1, <2>1, <3>1 DEF FilesOK, OwnRooms
  <2>2. CASE SaveOpens
    <3>1. CASE disk' = [disk EXCEPT !.tmp = NoPolicy] /\ pc' = "write"
      BY <2>1, <3>1
    <3>2. CASE UNCHANGED disk /\ pc' = "loop"
      BY <1>1, <3>2 DEF FilesOK, OwnRooms
    <3>3. QED
      BY <2>2, <3>1, <3>2 DEF SaveOpens
  <2>3. CASE SaveWrites
    <3>1. CASE disk' = [disk EXCEPT !.tmp = cfg.policy]
      BY <2>1, <3>1
    <3>2. CASE disk' = [disk EXCEPT !.tmp = NoPolicy] /\ pc' = "loop"
      BY <2>1, <3>2
    <3>3. QED
      BY <2>3, <3>1, <3>2 DEF SaveWrites
  <2>4. CASE SaveRenames
    <3>1. CASE disk' = [disk EXCEPT !.file = disk.tmp, !.tmp = NoPolicy]
      <4>1. disk.tmp = cfg.policy /\ pc' = "loop"
        BY <1>1, <2>4 DEF SaveRenames, FilesOK
      <4>2. /\ disk' \in DiskType /\ disk'.conf = disk.conf /\ disk'.file = cfg.policy
        BY <1>1, <1>4, <3>1, <4>1 DEF FilesOK, DiskType
      <4>3. QED
        BY <1>1, <4>1, <4>2 DEF FilesOK, OwnRooms, InForceOK
    <3>2. CASE disk' = [disk EXCEPT !.tmp = NoPolicy]
      <4>1. pc' = "loop"
        BY <2>4 DEF SaveRenames
      <4>2. QED
        BY <2>1, <3>2, <4>1
    <3>3. QED
      BY <2>4, <3>1, <3>2 DEF SaveRenames
  <2>5. CASE SaveConf
    <3>1. /\ disk' = [disk EXCEPT !.conf = cfg.own] /\ pc' = "loop"
      BY <2>5 DEF SaveConf
    <3>2. /\ disk' \in DiskType /\ disk'.conf = cfg.own /\ disk'.file = disk.file
      BY <1>1, <1>4, <3>1 DEF FilesOK, DiskType
    <3>3. IsInjective(cfg.own) /\ Len(cfg.own) <= MaxRooms
      BY <1>1 DEF InForceOK, Tables, Base
    <3>4. QED
      BY <1>1, <3>1, <3>2, <3>3 DEF FilesOK, OwnRooms
  <2>6. QED
    BY <2>2, <2>3, <2>4, <2>5 DEF Saving
<1>6. QED
  BY <1>1, <1>2, <1>3, <1>5, SessionKept DEF IInv

\* "set room": at most one more room, where there is place.
LEMMA SetRoomKeeps ==
  ASSUME IInv, NEW r \in Room, SetRoom(r)
  PROVE  IInv'
<1>1. /\ UNCHANGED <<col, applied, soon, pc, disk, hub, flight>>
      /\ CliType /\ InForceOK /\ FilesOK /\ Count("cli")
      /\ asked' \in {asked, asked \cup {r}}
      /\ \/ cfg' = cfg
         \/ /\ r \notin Served(cfg) /\ Cardinality(Served(cfg)) < MaxRooms
            /\ cfg' = WithRoom(cfg, r)
  BY DEF IInv, SetRoom, MayCli
<1>2. CliType'
  <2>1. used' \in [{"faults", "cli"} -> Nat]
    BY <1>1, CountKeeps
  <2>2. QED
    BY <1>1, <2>1 DEF CliType
<1>3. Tables(cfg') /\ cfg'.policy = cfg.policy /\ OwnRooms(cfg) \subseteq OwnRooms(cfg')
  <2>1. CASE cfg' = cfg
    BY <1>1, <2>1 DEF InForceOK
  <2>2. CASE /\ r \notin Served(cfg) /\ Cardinality(Served(cfg)) < MaxRooms
             /\ cfg' = WithRoom(cfg, r)
    <3> DEFINE c == cfg
               ch == IF Cardinality(c.ownch \cup c.hubch) < MaxChannels
                     THEN c.ownch \cup {r} ELSE c.ownch
    <3>1. /\ c \in CfgType /\ c.own \in Seq(Room) /\ IsInjective(c.own) /\ Len(c.own) \in Nat
          /\ Tables(c) /\ Base(c)
          /\ IsFiniteSet(c.hub) /\ IsFiniteSet(c.ownch) /\ IsFiniteSet(c.hubch)
          /\ c.hub \cap OwnRooms(c) = {} /\ c.ownch \cap c.hubch = {}
      BY <1>1, LenProperties DEF InForceOK, Tables, Base, CfgType
    <3>2. /\ Cardinality(c.hub) \in Nat /\ Cardinality(c.ownch) \in Nat
          /\ Cardinality(c.hubch) \in Nat /\ MaxRooms \in Nat /\ MaxChannels \in Nat
      BY <3>1, FS_CardinalityType, CentralAssumption
    <3>3. r \notin OwnRooms(c) /\ r \notin c.hub /\ r \notin c.hubch
      BY <2>2, <3>1 DEF Served, Tables
    <3>4. /\ Append(c.own, r) \in Seq(Room) /\ Len(Append(c.own, r)) = Len(c.own) + 1
          /\ ToSet(Append(c.own, r)) = ToSet(c.own) \cup {r}
          /\ IsInjective(Append(c.own, r))
      BY <3>1, <3>3, AppendRoom DEF OwnRooms
    <3>5. Len(c.own) + Cardinality(c.hub) < MaxRooms
      <4>1. IsFiniteSet(OwnRooms(c)) /\ Cardinality(OwnRooms(c)) = Len(c.own)
        BY <3>1, ToSetCard DEF OwnRooms
      <4>2. Cardinality(OwnRooms(c) \cup c.hub) =
              Cardinality(OwnRooms(c)) + Cardinality(c.hub) - Cardinality(OwnRooms(c) \cap c.hub)
        BY <3>1, <4>1, FS_Union
      <4>3. Cardinality(OwnRooms(c) \cap c.hub) = 0
        BY <3>1, FS_EmptySet
      <4>4. Cardinality(OwnRooms(c) \cup c.hub) < MaxRooms
        BY <2>2 DEF Served
      <4>5. QED
        BY <3>1, <3>2, <4>1, <4>2, <4>3, <4>4
    <3>6. /\ IsFiniteSet(ch) /\ ch \in SUBSET Room /\ c.hubch \cap ch = {}
          /\ Cardinality(ch) <= MaxChannels
          /\ Cardinality(ch) + Cardinality(c.hubch) <= MaxChannels
      <4>1. CASE Cardinality(c.ownch \cup c.hubch) < MaxChannels
        <5>1. ch = c.ownch \cup {r}
          BY <4>1
        <5>2. IsFiniteSet(ch) /\ Cardinality(ch) <= Cardinality(c.ownch) + 1
              /\ Cardinality(ch) \in Nat
          <6>1. /\ IsFiniteSet(c.ownch \cup {r})
                /\ Cardinality(c.ownch \cup {r}) =
                     IF r \in c.ownch THEN Cardinality(c.ownch) ELSE Cardinality(c.ownch) + 1
            BY <3>1, FS_AddElement
          <6> HIDE DEF ch
          <6>2. /\ IsFiniteSet(ch)
                /\ \/ Cardinality(ch) = Cardinality(c.ownch)
                   \/ Cardinality(ch) = Cardinality(c.ownch) + 1
            BY <5>1, <6>1
          <6>3. QED
            BY <3>2, <6>2
        <5>3. Cardinality(c.ownch \cup c.hubch) =
                Cardinality(c.ownch) + Cardinality(c.hubch) - Cardinality(c.ownch \cap c.hubch)
          BY <3>1, FS_Union
        <5>4. Cardinality(c.ownch \cap c.hubch) = 0
          BY <3>1, FS_EmptySet
        <5>5. Cardinality(c.ownch) + Cardinality(c.hubch) < MaxChannels
          BY <3>2, <4>1, <5>3, <5>4
        <5>6. ch \in SUBSET Room /\ c.hubch \cap ch = {}
          BY <3>1, <3>3, <5>1 DEF CfgType
        <5> HIDE DEF ch
        <5>7. QED
          BY <3>2, <5>2, <5>5, <5>6
      <4>2. CASE ~(Cardinality(c.ownch \cup c.hubch) < MaxChannels)
        <5>1. ch = c.ownch
          BY <4>2
        <5>2. QED
          BY <3>1, <5>1 DEF Tables, Base, CfgType
      <4>3. QED
        BY <4>1, <4>2
    <3>7. cfg' = [c EXCEPT !.own = Append(c.own, r), !.ownch = ch]
      BY <2>2 DEF WithRoom
    <3> HIDE DEF ch
    <3>8. /\ cfg' \in CfgType /\ cfg'.own = Append(c.own, r) /\ cfg'.ownch = ch
          /\ cfg'.hub = c.hub /\ cfg'.hubch = c.hubch /\ cfg'.policy = c.policy
      BY <3>1, <3>4, <3>6, <3>7 DEF CfgType
    <3>9. OwnRooms(cfg') = OwnRooms(c) \cup {r}
      BY <3>4, <3>8 DEF OwnRooms
    <3>10. Len(c.own) + 1 <= MaxRooms /\ Len(c.own) + 1 + Cardinality(c.hub) <= MaxRooms
      BY <3>1, <3>2, <3>5
    <3>11. Base(cfg')
      BY <3>4, <3>6, <3>8, <3>10 DEF Base
    <3>12. ToSet(c.policy.rooms) \subseteq Served(cfg')
      <4>1. ~(Len(c.own) + Cardinality(c.hub) = MaxRooms)
        BY <3>1, <3>2, <3>5
      <4>2. ToSet(c.policy.rooms) \subseteq Served(c)
        BY <3>1, <4>1 DEF Tables
      <4>3. QED
        BY <3>8, <3>9, <4>2 DEF Served
    <3>13. /\ cfg'.hub \subseteq ToSet(cfg'.policy.rooms) \ OwnRooms(cfg')
           /\ cfg'.hubch \subseteq cfg'.hub \ cfg'.ownch
      BY <3>1, <3>3, <3>6, <3>8, <3>9 DEF Tables
    <3>14. Tables(cfg')
      BY <3>1, <3>4, <3>6, <3>8, <3>10, <3>11, <3>12, <3>13 DEF Tables
    <3>15. QED
      BY <3>8, <3>9, <3>14
  <2>3. QED
    BY <1>1, <2>1, <2>2
<1>4. InForceOK' /\ FilesOK'
  BY <1>1, <1>3 DEF InForceOK, FilesOK
<1>5. QED
  BY <1>1, <1>2, <1>3, <1>4, SessionKept DEF IInv

\* The operator's commands on files, and a restart: what is served is what they hold.
LEMMA FilesKeep ==
  ASSUME IInv, Save \/ Reload \/ Restart
  PROVE  IInv'
<1>1. CliType /\ InForceOK /\ FilesOK
  BY DEF IInv
<1>2. /\ disk \in DiskType /\ disk.conf \in Seq(Room) /\ IsInjective(disk.conf)
      /\ Len(disk.conf) <= MaxRooms /\ GoodPolicy(disk.file) /\ disk.file.version <= hub.last
      /\ ToSet(disk.conf) \subseteq Room
      /\ cfg \in CfgType /\ GoodPolicy(cfg.policy) /\ cfg.policy.version <= hub.last
      /\ Tables(cfg)
  BY <1>1, ToSetType DEF FilesOK, DiskType, InForceOK, Tables, Base
<1>3. used' \in [{"faults", "cli"} -> Nat]
  <2>1. Count("cli") \/ Count("faults")
    BY DEF Save, Reload, Restart, MayCli, Fault
  <2>2. QED
    BY <1>1, <2>1, CountKeeps
<1>4. CASE Save
  <2>1. /\ UNCHANGED <<cfg, col, applied, soon, hub, flight, asked>> /\ pc' = "conf"
        /\ disk' = [disk EXCEPT !.conf = <<>>]
    BY <1>4 DEF Save
  <2>2. <<>> \in Seq(Room) /\ IsInjective(<<>>) /\ Len(<<>>) = 0 /\ ToSet(<<>>) = {}
    BY DEF IsInjective, ToSet
  <2>3. Len(<<>>) <= MaxRooms
    BY <2>2, CentralAssumption
  <2>4. disk' \in DiskType /\ disk'.conf = <<>> /\ disk'.file = disk.file
    BY <1>2, <2>1, <2>2 DEF DiskType
  <2>5. CliType' /\ InForceOK'
    BY <1>1, <1>3, <2>1 DEF CliType, InForceOK
  <2>6. FilesOK'
    BY <1>2, <2>1, <2>2, <2>3, <2>4 DEF FilesOK
  <2>7. QED
    BY <2>1, <2>5, <2>6, SessionKept DEF IInv
<1>5. CASE Reload
  <2>1. /\ UNCHANGED <<col, applied, soon, pc, disk, hub, flight>> /\ pc = "loop"
        /\ cfg' = Loaded(cfg, disk.conf) /\ asked' = ToSet(disk.conf)
    BY <1>5 DEF Reload, MayCli
  <2>2. Tables(cfg') /\ cfg'.own = disk.conf /\ cfg'.policy = cfg.policy
    BY <1>2, <2>1, LoadedTables
  <2>3. CliType' /\ InForceOK'
    BY <1>1, <1>2, <1>3, <2>1, <2>2 DEF CliType, InForceOK
  <2>4. FilesOK'
    BY <1>2, <2>1, <2>2 DEF FilesOK, OwnRooms
  <2>5. QED
    BY <2>1, <2>2, <2>3, <2>4, SessionKept DEF IInv
<1>6. CASE Restart
  <2>1. /\ cfg' = StartedFrom(disk) /\ asked' = ToSet(disk.conf)
        /\ col' = NoPages /\ applied' = 0 /\ soon' = FALSE /\ pc' = "loop"
        /\ hub' = [hub EXCEPT !.up = FALSE] /\ flight' = {} /\ disk' = disk
    BY <1>6 DEF Restart
  <2>2. Tables(cfg') /\ cfg'.own = disk.conf /\ cfg'.policy = disk.file
    BY <1>2, <2>1, StartedTables
  <2>3. hub' \in HubType /\ hub'.last = hub.last
    BY <1>1, <2>1 DEF CliType, HubType
  <2>4. CliType'
    BY <1>2, <1>3, <2>1, <2>3 DEF CliType
  <2>5. InForceOK'
    BY <1>2, <2>2, <2>3 DEF InForceOK
  <2>6. FilesOK'
    BY <1>2, <2>1, <2>2, <2>3 DEF FilesOK, OwnRooms
  <2>7. Ordered(flight, hub, applied, cfg.policy.version)'
    BY <2>1 DEF Ordered
  <2>8. Collected(col, flight, hub, cfg.policy.version)'
    BY <2>1, NoneCollected
  <2>9. QED
    BY <2>4, <2>5, <2>6, <2>7, <2>8 DEF IInv
<1>7. QED
  BY <1>4, <1>5, <1>6

\* The pages of a set follow one another.
LEMMA PagesOK ==
  ASSUME NEW h \in HubType, NEW after \in Nat, NEW h2,
         h2.last = h.last, h2.seq = after + Len(Sets[h.last])
  PROVE  \A p \in Pages(h.last, after) :
           PageOK(p, h2) /\ p.version = h.last /\ after < p.seq
<1> DEFINE v == h.last
<1>1. v \in 1..Len(Sets) /\ Len(Sets[v]) \in Nat \ {0} /\ DOMAIN Sets[v] = 1..Len(Sets[v])
      /\ Len(Sets) \in Nat
  BY SetsType DEF HubType
<1>2. ASSUME NEW i \in DOMAIN Sets[v]
      PROVE  LET p == [seq |-> after + i, version |-> v, page |-> i, pages |-> Len(Sets[v])]
             IN  PageOK(p, h2) /\ p.version = v /\ after < p.seq
  BY <1>1, <1>2 DEF PageOK, Page
<1>3. QED
  BY <1>2 DEF Pages

\* The hub sends its last set, after what it sent before, to a node that has none later.
LEMMA SendsKeeps ==
  ASSUME IInv, NEW h \in HubType, hub.last <= h.last, h.seq = hub.seq, Sends(h),
         UNCHANGED <<cfg, applied>>
  PROVE  /\ hub' \in HubType /\ hub'.last = h.last
         /\ Ordered(flight, hub, applied, cfg.policy.version)'
         /\ Collected(col, flight, hub, cfg.policy.version) =>
              Collected(col, flight', hub', cfg.policy.version)
<1> DEFINE v == cfg.policy.version
           new == Pages(h.last, h.seq)
<1>1. /\ CliType /\ InForceOK /\ Ordered(flight, hub, applied, v) /\ v <= hub.last
  BY DEF IInv, InForceOK
<1>2. /\ hub.last \in Nat /\ hub.seq \in Nat /\ h.last \in Nat /\ h.last \in 1..Len(Sets)
      /\ Len(Sets[h.last]) \in Nat \ {0} /\ v \in Nat /\ hub \in HubType
  BY <1>1, SetsType DEF CliType, HubType, InForceOK, GoodPolicy, Policy
<1>3. /\ hub' = [h EXCEPT !.seq = @ + Len(Sets[h.last])] /\ flight' = flight \cup new
  BY DEF Sends
<1>4. hub' \in HubType /\ hub'.last = h.last /\ hub'.seq = hub.seq + Len(Sets[h.last])
  BY <1>2, <1>3 DEF HubType
<1>5. \A p \in new : PageOK(p, hub') /\ p.version = h.last /\ hub.seq < p.seq
  BY <1>2, <1>4, PagesOK
<1> HIDE DEF new
<1>6. \A p \in flight : /\ PageOK(p, hub') /\ p.version <= h.last /\ p.seq <= hub.seq
                        /\ p.version \in Nat /\ p.seq \in Nat
                        /\ v <= p.version \/ (applied > 0 /\ p.seq < applied)
  <2>1. ASSUME NEW p \in flight
        PROVE  /\ PageOK(p, hub') /\ p.version <= h.last /\ p.seq <= hub.seq
               /\ p.version \in Nat /\ p.seq \in Nat
               /\ v <= p.version \/ (applied > 0 /\ p.seq < applied)
    <3>1. PageOK(p, hub) /\ (v <= p.version \/ (applied > 0 /\ p.seq < applied))
      BY <1>1 DEF Ordered
    <3>2. p.version \in Nat /\ p.seq \in Nat
      BY <3>1, SetsType DEF PageOK, Page
    <3>3. QED
      BY <1>2, <1>4, <3>1, <3>2 DEF PageOK
  <2>2. QED
    BY <2>1
<1>7. \A p, q \in flight' : p.version < q.version => p.seq < q.seq
  <2>1. ASSUME NEW p \in flight', NEW q \in flight', p.version < q.version
        PROVE  p.seq < q.seq
    <3>1. CASE p \in flight /\ q \in flight
      BY <1>1, <2>1, <3>1 DEF Ordered
    <3>2. CASE p \in flight /\ q \in new
      <4>1. p.seq <= hub.seq /\ p.seq \in Nat /\ hub.seq < q.seq /\ q.seq \in Nat
        BY <1>5, <1>6, <3>2 DEF PageOK, Page
      <4>2. QED
        BY <1>2, <4>1
    <3>3. CASE p \in new
      <4>1. p.version = h.last /\ q.version <= h.last /\ q.version \in Nat
        BY <1>2, <1>3, <1>5, <1>6, <3>3
      <4>2. QED
        BY <1>2, <2>1, <4>1
    <3>4. QED
      BY <1>3, <3>1, <3>2, <3>3
  <2>2. QED
    BY <2>1
<1>8. Ordered(flight, hub, applied, v)'
  <2>1. ASSUME NEW p \in new
        PROVE  PageOK(p, hub') /\ v <= p.version
    BY <1>1, <1>2, <1>5
  <2>2. QED
    BY <1>3, <1>6, <1>7, <2>1 DEF Ordered
<1>9. ASSUME Collected(col, flight, hub, v)
      PROVE  Collected(col, flight', hub', v)
  <2>1. CASE col.pages = 0
    BY <1>9, <2>1 DEF Collected
  <2>2. CASE col.pages # 0
    <3>1. Part(col, hub, v) /\ Between(col, flight) /\ col \in ColType
      BY <1>9, <2>2 DEF Collected
    <3>2. /\ col.version \in Nat /\ col.max \in Nat /\ col.max <= hub.seq
          /\ col.version <= hub.last
      BY <3>1 DEF Part, ColType
    <3>3. Part(col, hub', v)
      <4>1. col.version <= hub'.last /\ col.max <= hub'.seq
        BY <1>2, <1>4, <3>2
      <4>2. QED
        BY <3>1, <4>1 DEF Part
    <3>4. Between(col, flight')
      <4>1. ASSUME NEW q \in new
            PROVE  col.max < q.seq /\ ~(q.version < col.version)
        <5>1. q.version = h.last /\ hub.seq < q.seq /\ q.seq \in Nat
          BY <1>5 DEF PageOK, Page
        <5>2. QED
          BY <1>2, <3>2, <5>1
      <4>2. QED
        BY <1>3, <3>1, <4>1 DEF Between
    <3>5. QED
      BY <3>1, <3>3, <3>4 DEF Collected
  <2>3. QED
    BY <2>1, <2>2
<1>10. QED
  BY <1>4, <1>8, <1>9

\* What the hub and the network do leaves the node's tables and files alone.
LEMMA HubKeeps ==
  ASSUME IInv, (\E p \in flight : Lose(p)) \/ Publish \/ NewSession \/ Status
  PROVE  IInv'
<1> DEFINE v == cfg.policy.version
<1>1. /\ UNCHANGED <<cfg, disk, asked, pc>>
      /\ CliType /\ InForceOK /\ FilesOK /\ hub \in HubType
      /\ Ordered(flight, hub, applied, v) /\ Collected(col, flight, hub, v)
  BY DEF IInv, Lose, Publish, NewSession, Status, CliType
<1>2. /\ used' \in [{"faults", "cli"} -> Nat] /\ soon' \in BOOLEAN
  <2>1. UNCHANGED used \/ Count("faults")
    BY DEF Lose, Publish, NewSession, Status, Fault
  <2>2. UNCHANGED soon \/ soon' \in BOOLEAN
    BY DEF Lose, Publish, NewSession, Status
  <2>3. QED
    BY <1>1, <2>1, <2>2, CountKeeps DEF CliType
\* Nothing but the version of the last set and the session matters to the rest.
<1>3. ASSUME applied' \in Nat, hub' \in HubType, hub.last <= hub'.last
      PROVE  CliType' /\ InForceOK' /\ FilesOK'
  <2>1. hub.last \in Nat /\ hub'.last \in Nat
    BY <1>1, <1>3, SetsType DEF HubType
  <2>2. cfg.policy.version \in Nat /\ disk.file.version \in Nat
    BY <1>1 DEF InForceOK, FilesOK, GoodPolicy, Policy
  <2>3. cfg.policy.version <= hub'.last /\ disk.file.version <= hub'.last
    BY <1>1, <1>3, <2>1, <2>2 DEF InForceOK, FilesOK
  <2>4. CliType'
    BY <1>1, <1>2, <1>3 DEF CliType
  <2>5. QED
    BY <1>1, <2>3, <2>4 DEF InForceOK, FilesOK, OwnRooms
<1>4. /\ hub.last \in Nat /\ hub.last \in 1..Len(Sets) /\ hub.seq \in Nat /\ Len(Sets) \in Nat
      /\ applied \in Nat
  BY <1>1, SetsType DEF HubType, CliType
<1>5. CASE \E p \in flight : Lose(p)
  <2>1. /\ flight' \in SUBSET flight /\ UNCHANGED <<col, applied, hub>>
    BY <1>5 DEF Lose
  <2>2. Ordered(flight', hub, applied, v) /\ Collected(col, flight', hub, v)
    BY <1>1, <2>1, Fewer
  <2>3. CliType' /\ InForceOK' /\ FilesOK'
    BY <1>1, <1>3, <1>4, <2>1
  <2>4. QED
    BY <1>1, <2>1, <2>2, <2>3 DEF IInv
<1>6. ASSUME NEW h \in HubType, hub.last <= h.last, h.seq = hub.seq, Sends(h),
             UNCHANGED <<col, applied>>
      PROVE  IInv'
  <2>1. /\ hub' \in HubType /\ hub'.last = h.last
        /\ Ordered(flight, hub, applied, cfg.policy.version)'
        /\ Collected(col, flight', hub', v)
    BY <1>1, <1>6, SendsKeeps
  <2>2. CliType' /\ InForceOK' /\ FilesOK'
    BY <1>3, <1>4, <1>6, <2>1
  <2>3. QED
    BY <1>1, <1>6, <2>1, <2>2 DEF IInv
<1>7. CASE Publish
  <2> DEFINE h == [hub EXCEPT !.last = @ + 1]
  <2>1. /\ hub.last < Len(Sets) /\ UNCHANGED <<col, applied>>
        /\ IF hub.up THEN Sends(h) ELSE hub' = h /\ UNCHANGED flight
    BY <1>7 DEF Publish, Current
  <2>2. h \in HubType /\ h.last = hub.last + 1 /\ h.seq = hub.seq
    BY <1>1, <1>4, <2>1 DEF HubType
  <2> HIDE DEF h
  <2>3. CASE Sends(h)
    <3>1. hub.last <= h.last
      BY <1>4, <2>2
    <3>2. QED
      BY <1>6, <2>1, <2>2, <2>3, <3>1
  <2>4. CASE hub' = h /\ UNCHANGED flight
    <3>1. hub.last <= hub'.last
      BY <1>4, <2>2, <2>4
    <3>2. CliType' /\ InForceOK' /\ FilesOK'
      BY <1>3, <1>4, <2>1, <2>2, <2>4, <3>1
    <3>3. \A p : PageOK(p, hub) => PageOK(p, h)
      <4>1. ASSUME NEW p, PageOK(p, hub)
            PROVE  PageOK(p, h)
        <5>1. p.version \in Nat
          BY <4>1, SetsType DEF PageOK, Page
        <5>2. p.version <= h.last
          BY <1>4, <2>2, <4>1, <5>1 DEF PageOK
        <5>3. QED
          BY <2>2, <4>1, <5>2 DEF PageOK
      <4>2. QED
        BY <4>1
    <3>4. Ordered(flight, hub, applied, v)'
      BY <1>1, <2>1, <2>4, <3>3 DEF Ordered
    <3>5. Collected(col, flight, hub, v)'
      <4>1. Part(col, hub, v) => Part(col, h, v)
        <5>1. ASSUME Part(col, hub, v)
              PROVE  Part(col, h, v)
          <6>1. col.version \in Nat
            BY <5>1, SetsType DEF Part
          <6>2. col.version <= h.last
            BY <1>4, <2>2, <5>1, <6>1 DEF Part
          <6>3. QED
            BY <2>2, <5>1, <6>2 DEF Part
        <5>2. QED
          BY <5>1
      <4>2. QED
        BY <1>1, <2>1, <2>4, <4>1 DEF Collected
    <3>6. QED
      BY <3>2, <3>4, <3>5 DEF IInv
  <2>5. QED
    BY <2>1, <2>3, <2>4
<1>8. CASE NewSession
  <2>1. /\ col' = NoPages /\ applied' = 0
        /\ hub' = [hub EXCEPT !.up = TRUE, !.seq = Len(Sets[hub.last])]
        /\ flight' = Pages(hub.last, 0)
    BY <1>8 DEF NewSession, Current
  <2>2. Len(Sets[hub.last]) \in Nat
    BY <1>4, SetsType
  <2>3. hub' \in HubType /\ hub'.last = hub.last /\ hub'.seq = 0 + Len(Sets[hub.last])
    <3> DEFINE n == Len(Sets[hub.last])
    <3>1. n \in Nat /\ hub' = [hub EXCEPT !.up = TRUE, !.seq = n]
      BY <2>1, <2>2
    <3> HIDE DEF n
    <3>2. hub' \in HubType /\ hub'.last = hub.last /\ hub'.seq = n
      BY <1>1, <3>1 DEF HubType
    <3>3. n = 0 + n
      BY <3>1
    <3>4. QED
      BY <3>2, <3>3 DEF n
  <2>4. \A p \in flight' : PageOK(p, hub') /\ p.version = hub.last
    BY <1>1, <2>1, <2>3, PagesOK
  <2>5. v \in Nat /\ v <= hub.last
    BY <1>1 DEF InForceOK, GoodPolicy, Policy
  <2>6. Ordered(flight, hub, applied, v)'
    <3>1. \A p, q \in flight' : ~(p.version < q.version)
      BY <1>4, <2>4
    <3>2. \A p \in flight' : v <= p.version
      BY <2>4, <2>5
    <3>3. QED
      BY <1>1, <2>4, <3>1, <3>2 DEF Ordered
  <2>7. Collected(col, flight, hub, v)'
    BY <2>1, NoneCollected
  <2>8. CliType' /\ InForceOK' /\ FilesOK'
    BY <1>3, <1>4, <2>1, <2>3
  <2>9. QED
    BY <2>6, <2>7, <2>8 DEF IInv
<1>9. CASE Status
  <2>1. /\ UNCHANGED <<col, applied>>
        /\ Sends(hub) \/ UNCHANGED <<hub, flight>>
    BY <1>9 DEF Status
  <2>2. CASE Sends(hub)
    <3>1. hub.last <= hub.last
      BY <1>4
    <3>2. QED
      BY <1>1, <1>6, <2>1, <2>2, <3>1
  <2>3. CASE UNCHANGED <<hub, flight>>
    <3>1. hub.last <= hub'.last
      BY <1>4, <2>3
    <3>2. CliType' /\ InForceOK' /\ FilesOK'
      BY <1>1, <1>3, <1>4, <2>1, <2>3, <3>1
    <3>3. QED
      BY <1>1, <2>1, <2>3, <3>2 DEF IInv
  <2>4. QED
    BY <2>1, <2>2, <2>3
<1>10. QED
  BY <1>5, <1>7, <1>8, <1>9

LEMMA IInvNext == IInv /\ [Next]_vars => IInv'
<1> SUFFICES ASSUME IInv, [Next]_vars PROVE IInv'
  OBVIOUS
<1>1. CASE \E p \in flight : OnPolicy(p)
  BY <1>1, OnPolicyKeeps
<1>2. CASE (\E p \in flight : Lose(p)) \/ Publish \/ NewSession \/ Status
  BY <1>2, HubKeeps
<1>3. CASE Saving
  BY <1>3, SavingKeeps
<1>4. CASE \E r \in Room : SetRoom(r)
  BY <1>4, SetRoomKeeps
<1>5. CASE Save \/ Reload \/ Restart
  BY <1>5, FilesKeep
<1>6. CASE UNCHANGED vars
  BY <1>6 DEF vars, IInv, CliType, InForceOK, FilesOK, Ordered, Collected, OwnRooms
<1>7. QED
  BY <1>1, <1>2, <1>3, <1>4, <1>5, <1>6 DEF Next
----------------------------------------------------------------------------
(* What Spec guarantees, for every value of the constants.                 *)

LEMMA IInvTypeOK == IInv => TypeOK
<1> SUFFICES ASSUME IInv PROVE TypeOK
  OBVIOUS
<1>1. CliType /\ InForceOK /\ FilesOK /\ Tables(cfg) /\ Base(cfg) /\ cfg \in CfgType
  BY DEF IInv, InForceOK, Tables, Base
<1>2. /\ IsInjective(cfg.own) /\ cfg.own \in Seq(Room) /\ Len(cfg.own) \in Nat
      /\ IsFiniteSet(cfg.hub) /\ IsFiniteSet(cfg.ownch) /\ IsFiniteSet(cfg.hubch)
      /\ OwnRooms(cfg) \cap cfg.hub = {} /\ cfg.ownch \cap cfg.hubch = {}
      /\ Len(cfg.own) + Cardinality(cfg.hub) <= MaxRooms
      /\ Cardinality(cfg.ownch) + Cardinality(cfg.hubch) <= MaxChannels
  BY <1>1, LenProperties DEF Tables, Base, CfgType
<1>3. Cardinality({}) = 0
  BY FS_EmptySet
<1>4. Cardinality(Served(cfg)) <= MaxRooms
  <2>1. IsFiniteSet(OwnRooms(cfg)) /\ Cardinality(OwnRooms(cfg)) = Len(cfg.own)
    BY <1>2, ToSetCard DEF OwnRooms
  <2>2. Cardinality(OwnRooms(cfg) \cup cfg.hub) =
          Cardinality(OwnRooms(cfg)) + Cardinality(cfg.hub) - Cardinality(OwnRooms(cfg) \cap cfg.hub)
    BY <1>2, <2>1, FS_Union
  <2>3. Cardinality(cfg.hub) \in Nat
    BY <1>2, FS_CardinalityType
  <2>4. Cardinality(OwnRooms(cfg) \cup cfg.hub) = Len(cfg.own) + Cardinality(cfg.hub)
    <3>1. Cardinality(OwnRooms(cfg) \cap cfg.hub) = 0
      BY <1>2, <1>3
    <3>2. QED
      BY <1>2, <2>1, <2>2, <2>3, <3>1
  <2>5. QED
    BY <1>2, <2>4 DEF Served
<1>5. Cardinality(cfg.ownch \cup cfg.hubch) <= MaxChannels
  <2>1. Cardinality(cfg.ownch \cup cfg.hubch) =
          Cardinality(cfg.ownch) + Cardinality(cfg.hubch) - Cardinality(cfg.ownch \cap cfg.hubch)
    BY <1>2, FS_Union
  <2>2. Cardinality(cfg.ownch) \in Nat /\ Cardinality(cfg.hubch) \in Nat
    BY <1>2, FS_CardinalityType
  <2>3. Cardinality(cfg.ownch \cap cfg.hubch) = 0
    BY <1>2, <1>3
  <2>4. QED
    BY <1>2, <2>1, <2>2, <2>3
<1>6. flight \in SUBSET Page /\ col \in ColType
  BY DEF IInv, Ordered, PageOK, Collected
<1>7. disk \in DiskType
  BY <1>1 DEF FilesOK
<1>8. QED
  BY <1>1, <1>2, <1>4, <1>5, <1>6, <1>7
  DEF TypeOK, CliType, CfgType, ColType, DiskType, HubType

(* The tables of rooms and channels stay within their sizes, whatever the  *)
(* hub, the operator and the files put into them (add_room_ex,             *)
(* register_channel, config_policy_merge).                                 *)
THEOREM PolicyTypeCorrect == Spec => []TypeOK
<1>1. QED
  BY IInvInit, IInvNext, IInvTypeOK, PTL DEF Spec

(* No set of the hub costs the node a room of its config file              *)
(* (config_policy_merge).                                                  *)
THEOREM FileRoomsKept == Spec => []FileRoomsServed
<1>1. IInv => FileRoomsServed
  BY DEF IInv, FilesOK, FileRoomsServed, Served
<1>2. QED
  BY IInvInit, IInvNext, <1>1, PTL DEF Spec

(* The hub's rooms and channels are those of the set in force, as far as   *)
(* the tables go (config_policy_merge).                                    *)
THEOREM HubRoomsCorrect == Spec => []HubRoomsInForce
<1>1. ASSUME IInv
      PROVE  HubRoomsInForce
  <2>1. Tables(cfg) /\ TypeOK
    BY <1>1, IInvTypeOK DEF IInv, InForceOK
  <2>2. /\ IsInjective(cfg.own) /\ cfg.own \in Seq(Room) /\ Len(cfg.own) \in Nat
        /\ IsFiniteSet(cfg.hub) /\ OwnRooms(cfg) \cap cfg.hub = {}
        /\ cfg.hub \subseteq ToSet(cfg.policy.rooms) /\ cfg.hubch \subseteq cfg.hub
    BY <2>1, LenProperties DEF Tables, Base, CfgType
  <2>3. Cardinality(Served(cfg)) = Len(cfg.own) + Cardinality(cfg.hub)
    <3>1. IsFiniteSet(OwnRooms(cfg)) /\ Cardinality(OwnRooms(cfg)) = Len(cfg.own)
      BY <2>2, ToSetCard DEF OwnRooms
    <3>2. Cardinality(OwnRooms(cfg) \cup cfg.hub) =
            Cardinality(OwnRooms(cfg)) + Cardinality(cfg.hub)
              - Cardinality(OwnRooms(cfg) \cap cfg.hub)
      BY <2>2, <3>1, FS_Union
    <3>3. Cardinality(cfg.hub) \in Nat /\ Cardinality(OwnRooms(cfg) \cap cfg.hub) = 0
      BY <2>2, FS_CardinalityType, FS_EmptySet
    <3>4. QED
      BY <2>2, <3>1, <3>2, <3>3 DEF Served
  <2>4. QED
    BY <2>1, <2>2, <2>3 DEF HubRoomsInForce, Tables
<1>2. QED
  BY IInvInit, IInvNext, <1>1, PTL DEF Spec
----------------------------------------------------------------------------
(* Sets are in force whole and one after the other.                        *)

\* A page either changes nothing of what is in force or brings a later set whole.
LEMMA OnPolicyApplies ==
  ASSUME IInv, NEW p \in flight, OnPolicy(p)
  PROVE  \/ UNCHANGED <<cfg, disk>>
         \/ Register!Apply
<1> DEFINE v == cfg.policy.version
           w == With(p)
<1>1. /\ disk' = disk
      /\ \/ UNCHANGED cfg
         \/ /\ ~Stale(p) /\ ~Unwanted(p) /\ Complete(w) /\ w.version # v
            /\ cfg' = WithPolicy(cfg, w)
  BY DEF OnPolicy
<1>2. CASE /\ ~Stale(p) /\ ~Unwanted(p) /\ Complete(w) /\ w.version # v
           /\ cfg' = WithPolicy(cfg, w)
  <2>1. w \in ColType /\ Part(w, hub, v)
    BY <1>2, WithCollected
  <2> HIDE DEF w
  <2>2. /\ cfg'.policy.version = w.version /\ Entries(cfg'.policy) = WholeSet(w.version)
    BY <1>2, <2>1, WholeSetApplied
  <2>3. w.version \in DOMAIN Sets /\ w.version > v
    <3>1. w.version \in 1..Len(Sets) /\ v <= w.version /\ v \in Nat
      BY <2>1 DEF Part, IInv, InForceOK, GoodPolicy, Policy
    <3>2. QED
      BY <1>2, <3>1, SetsType
  <2>4. InForce(cfg'.policy) = [version |-> w.version, entries |-> WholeSet(w.version)]
    BY <2>2 DEF InForce
  <2>5. InForce(cfg.policy).version = v
    BY DEF InForce
  <2>6. QED
    BY <1>1, <2>3, <2>4, <2>5 DEF Register!Apply
<1>3. QED
  BY <1>1, <1>2

\* What is in force stays for all but a page and a restart, and the file for all but
\* the renaming of a new one.
LEMMA OthersKeepPolicy ==
  ASSUME IInv,
         \/ SaveOpens \/ SaveWrites \/ SaveConf \/ Save \/ Reload
         \/ \E r \in Room : SetRoom(r)
         \/ \E p \in flight : Lose(p)
         \/ Publish \/ NewSession \/ Status
         \/ UNCHANGED vars
  PROVE  cfg'.policy = cfg.policy /\ disk'.file = disk.file
<1>1. disk \in DiskType /\ cfg \in CfgType /\ disk.conf \in Seq(Room) /\ IsInjective(disk.conf)
      /\ Len(disk.conf) <= MaxRooms
  BY DEF IInv, FilesOK, DiskType, InForceOK, Tables, Base
<1>2. CASE SaveOpens \/ SaveWrites \/ SaveConf \/ Save
  BY <1>1, <1>2 DEF SaveOpens, SaveWrites, SaveConf, Save, DiskType
<1>3. CASE Reload
  BY <1>1, <1>3, LoadedTables DEF Reload
<1>4. CASE \E r \in Room : SetRoom(r)
  <2>1. UNCHANGED disk /\ (UNCHANGED cfg \/ \E r \in Room : cfg' = WithRoom(cfg, r))
    BY <1>4 DEF SetRoom
  <2>2. QED
    BY <1>1, <2>1 DEF WithRoom, CfgType
<1>5. CASE \/ \E p \in flight : Lose(p)
           \/ Publish \/ NewSession \/ Status
           \/ UNCHANGED vars
  <2>1. UNCHANGED <<cfg, disk>>
    BY <1>5 DEF Lose, Publish, NewSession, Status, vars
  <2>2. QED
    BY <2>1
<1>6. QED
  BY <1>2, <1>3, <1>4, <1>5

(* One set is in force as a whole, only a later one replaces it, and a     *)
(* restart brings back one that was in force (on_policy,                   *)
(* config_policy_save, config_policy_load).                                *)
THEOREM PolicyImplementsRegister == Spec => ImplementsRegister
<1>1. Init => Register!Init
  <2> SUFFICES ASSUME Init PROVE Register!Init
    OBVIOUS
  <2>1. disk \in DiskType /\ IsInjective(disk.conf) /\ Len(disk.conf) <= MaxRooms
        /\ GoodPolicy(disk.file)
    BY IInvInit DEF IInv, FilesOK
  <2>2. cfg.policy = NoPolicy /\ disk.file = NoPolicy
    BY <2>1, StartedTables DEF Init
  <2>3. InForce(NoPolicy) = [version |-> 0, entries |-> {}]
    BY DEF InForce, Entries, NoPolicy, ToSet
  <2>4. QED
    BY <2>2, <2>3 DEF Register!Init, Register!NoSet
<1>2. IInv /\ [Next]_vars => [Register!Next]_<<InForce(cfg.policy), InForce(disk.file)>>
  <2> SUFFICES ASSUME IInv, [Next]_vars
               PROVE  [Register!Next]_<<InForce(cfg.policy), InForce(disk.file)>>
    OBVIOUS
  <2>1. CASE \E p \in flight : OnPolicy(p)
    <3>1. UNCHANGED <<cfg, disk>> \/ Register!Apply
      BY <2>1, OnPolicyApplies
    <3>2. CASE UNCHANGED <<cfg, disk>>
      BY <3>2
    <3>3. QED
      BY <3>1, <3>2 DEF Register!Next
  <2>2. CASE SaveRenames
    <3>1. disk.tmp = cfg.policy /\ UNCHANGED cfg /\ disk \in DiskType
          /\ \/ disk' = [disk EXCEPT !.file = disk.tmp, !.tmp = NoPolicy]
             \/ disk' = [disk EXCEPT !.tmp = NoPolicy]
      BY <2>2 DEF SaveRenames, IInv, FilesOK
    <3>2. disk'.file = cfg.policy \/ disk'.file = disk.file
      BY <3>1 DEF DiskType
    <3>3. QED
      BY <3>1, <3>2 DEF Register!Next, Register!Keep
  <2>3. CASE Restart
    <3>1. cfg' = StartedFrom(disk) /\ disk' = disk
      BY <2>3 DEF Restart
    <3>2. cfg'.policy = disk.file
      BY <3>1, StartedTables DEF IInv, FilesOK
    <3>3. QED
      BY <3>1, <3>2 DEF Register!Next, Register!Restart
  <2>4. CASE \/ SaveOpens \/ SaveWrites \/ SaveConf \/ Save \/ Reload
             \/ \E r \in Room : SetRoom(r)
             \/ \E p \in flight : Lose(p)
             \/ Publish \/ NewSession \/ Status
             \/ UNCHANGED vars
    <3>1. cfg'.policy = cfg.policy /\ disk'.file = disk.file
      BY <2>4, OthersKeepPolicy
    <3>2. QED
      BY <3>1
  <2>5. QED
    BY <2>1, <2>2, <2>3, <2>4 DEF Next, Saving
<1>3. Spec => Register!Spec
  BY <1>1, <1>2, IInvInit, IInvNext, PTL DEF Spec, Register!Spec
<1>4. QED
  BY <1>3, PTL DEF ImplementsRegister
=============================================================================
