---------------------------- MODULE Aprsis_proofs ----------------------------
(***************************************************************************)
(* The client of APRS-IS keeps its word for all sizes, rates and waits,    *)
(* however often the network and the server fail: the server gets whole    *)
(* lines, and only the login before it has verified it; the waits grow; and*)
(* a station that stays where it is is gated once in a while.              *)
(***************************************************************************)
EXTENDS Aprsis, Order_proofs, FiniteSetTheorems, SequenceTheorems

Half == Line \cup {"none"}
Part == [line : Line, first : BOOLEAN]
Entry == [call : Call, at : Place, age : 0..NodeRate]

ClientType ==
  [state : {"off", "connecting", "login", "ready"}, wait : 0..LastWait,
   backoff : FirstWait..LastWait, left : 0..Timeout + 1, beacon : 0..BeaconEvery,
   tx : Seq(Part), nodes : Seq(Entry), waited : 0..LastWait]

ServerType ==
  [sock : {"none", "asked", "open", "failed", "hung", "closed", "mute"},
   in : Seq({"banner", "verified", "unverified"}), half : Half, login : BOOLEAN,
   verified : BOOLEAN, garbled : BOOLEAN, early : BOOLEAN]

\* The half line that is open before part i of q, if h was before q.
Open(part) == IF part.first THEN part.line ELSE "none"
Before(h, q, i) == IF i = 1 THEN h ELSE Open(q[i - 1])

\* With the half line h, q makes whole lines.
Whole(h, q) ==
  /\ \A i \in 1..Len(q) : IF q[i].first THEN Before(h, q, i) = "none" ELSE Before(h, q, i) = q[i].line
  /\ Before(h, q, Len(q) + 1) = "none"

\* Lines other than the login may be on their way.
Allowed(v, q) ==
  v.verified \/ (v.half \in {"none", "login"} /\ \A i \in 1..Len(q) : q[i].line = "login")

\* The two ends of a connection.
Wire(c, v) ==
  /\ c \in ClientType /\ v \in ServerType
  /\ Len(c.tx) <= TxSize
  /\ c.state \in {"off", "connecting"} => c.tx = <<>>
  /\ c.state = "off" => v = NoServer
  /\ c.state # "off" => v.sock # "none"
  /\ Whole(v.half, c.tx) /\ Allowed(v, c.tx) /\ ~v.garbled /\ ~v.early
  /\ v.verified \/ (c.state # "ready" /\ \A i \in 1..Len(v.in) : v.in[i] # "verified")
  /\ c.waited <= c.backoff

LEMMA Sizes ==
  /\ MaxNodes \in Nat /\ 0 < MaxNodes /\ NodeRate \in Nat /\ 0 < NodeRate
  /\ BeaconEvery \in Nat /\ FirstWait \in Nat /\ 0 < FirstWait /\ LastWait \in Nat
  /\ TxSize \in Nat /\ Timeout \in Nat /\ MaxFaults \in Nat
  /\ FirstWait <= LastWait /\ TxSize >= 2 /\ "anywhere" \notin Place
<1>1. \A n \in {MaxNodes, NodeRate, BeaconEvery, FirstWait, LastWait} : n \in Nat /\ 0 < n
  <2>1. {MaxNodes, NodeRate, BeaconEvery, FirstWait, LastWait} \subseteq Nat \ {0}
    BY AprsisAssumption
  <2>2. \A n \in Nat \ {0} : n \in Nat /\ 0 < n
    OBVIOUS
  <2>3. QED
    BY <2>1, <2>2, Zenon
<1>2. QED
  BY <1>1, AprsisAssumption
----------------------------------------------------------------------------
(* Lines and halves of lines.                                              *)
LEMMA PartsType ==
  ASSUME NEW line \in Line
  PROVE  /\ Parts(line) \in Seq(Part) /\ Len(Parts(line)) = 2
         /\ Parts(line)[1] = [line |-> line, first |-> TRUE]
         /\ Parts(line)[2] = [line |-> line, first |-> FALSE]
BY DEF Parts, Part

LEMMA PartsWhole ==
  ASSUME NEW h \in Half, NEW q \in Seq(Part), Whole(h, q), NEW line \in Line
  PROVE  Whole(h, q \o Parts(line))
<1>0. PICK p \in Seq(Part) :
        /\ p = Parts(line) /\ Len(p) = 2
        /\ p[1] = [line |-> line, first |-> TRUE] /\ p[2] = [line |-> line, first |-> FALSE]
  BY PartsType
<1> DEFINE r == q \o p
<1>a. /\ q \o p \in Seq(Part) /\ Len(q \o p) = Len(q) + Len(p)
      /\ \A i \in 1..Len(q) + Len(p) : (q \o p)[i] = IF i <= Len(q) THEN q[i] ELSE p[i - Len(q)]
  BY ConcatProperties
<1>b. Len(q) \in Nat
  OBVIOUS
<1>1. r \in Seq(Part) /\ Len(r) = Len(q) + 2
  BY <1>0, <1>a
<1>2. \A i \in 1..Len(q) : r[i] = q[i]
  BY <1>0, <1>a, <1>b
<1>3. r[Len(q) + 1] = [line |-> line, first |-> TRUE] /\ r[Len(q) + 2] = [line |-> line, first |-> FALSE]
  <2>1. \A i \in {1, 2} : r[Len(q) + i] = p[i]
    <3>1. ASSUME NEW i \in {1, 2}
          PROVE  r[Len(q) + i] = p[i]
      <4>1. Len(q) + i \in 1..Len(q) + Len(p) /\ ~(Len(q) + i <= Len(q)) /\ (Len(q) + i) - Len(q) = i
        BY <1>0, <1>b
      <4>2. r[Len(q) + i] = p[(Len(q) + i) - Len(q)]
        BY <4>1, <1>a
      <4>3. QED
        BY <4>1, <4>2
    <3>2. QED
      BY <3>1
  <2>2. QED
    BY <2>1, <1>0
<1> HIDE DEF r
<1>4. \A i \in 1..Len(q) + 1 : Before(h, r, i) = Before(h, q, i)
  BY <1>1, <1>2, <1>b DEF Before
<1>5. Before(h, r, Len(q) + 2) = line /\ Before(h, r, Len(q) + 3) = "none"
  BY <1>1, <1>3, <1>b DEF Before, Open
<1>6. \A i \in 1..Len(q) : IF r[i].first THEN Before(h, r, i) = "none" ELSE Before(h, r, i) = r[i].line
  <2>1. ASSUME NEW i \in 1..Len(q)
        PROVE  IF r[i].first THEN Before(h, r, i) = "none" ELSE Before(h, r, i) = r[i].line
    <3>1. r[i] = q[i] /\ Before(h, r, i) = Before(h, q, i)
      BY <1>2, <1>4, <1>b
    <3>2. IF q[i].first THEN Before(h, q, i) = "none" ELSE Before(h, q, i) = q[i].line
      BY DEF Whole
    <3>3. QED
      BY <3>1, <3>2
  <2>2. QED
    BY <2>1
<1>7. Before(h, r, Len(q) + 1) = "none"
  BY <1>1, <1>4 DEF Whole
<1>8. Whole(h, r)
  <2>1. ASSUME NEW i \in 1..Len(r)
        PROVE  IF r[i].first THEN Before(h, r, i) = "none" ELSE Before(h, r, i) = r[i].line
    <3>1. CASE i \in 1..Len(q)
      BY <3>1, <1>6
    <3>2. CASE i = Len(q) + 1
      BY <3>2, <1>3, <1>7
    <3>3. CASE i = Len(q) + 2
      BY <3>3, <1>3, <1>5
    <3>4. i \in 1..Len(q) \/ i = Len(q) + 1 \/ i = Len(q) + 2
      BY <1>1
    <3>5. QED
      BY <3>1, <3>2, <3>3, <3>4
  <2>2. Before(h, r, Len(r) + 1) = "none"
    <3>1. Len(r) + 1 = Len(q) + 3
      BY <1>1
    <3>2. QED
      BY <3>1, <1>5
  <2>3. QED
    BY <2>1, <2>2 DEF Whole
<1>9. QED
  BY <1>0, <1>8 DEF r

LEMMA NoServerIs ==
  /\ NoServer \in ServerType /\ NoServer.half = "none" /\ NoServer.in = <<>> /\ NoServer.sock = "none"
  /\ ~NoServer.verified /\ ~NoServer.garbled /\ ~NoServer.early
<1>1. <<>> \in Seq({"banner", "verified", "unverified"})
  OBVIOUS
<1>2. QED
  BY <1>1 DEF NoServer, ServerType, Half

LEMMA EmptyWhole == Whole("none", <<>>)
BY DEF Whole, Before
----------------------------------------------------------------------------
(* What the server and the client make of several parts or lines.          *)
\* f[k] is what the first k of s make of v.
Receiving(f, v, s) ==
  f[0] = v /\ f[Len(s)] = ReceiveAll(v, s) /\ \A k \in 1..Len(s) : f[k] = Receive(f[k - 1], s[k])

(* The server takes one part after the other, in a set D of its states.    *)
LEMMA ReceiveFold ==
  ASSUME NEW P, NEW s \in Seq(P), NEW D, NEW v \in D, \A d \in D, p \in P : Receive(d, p) \in D
  PROVE  \E f \in [0..Len(s) -> D] : Receiving(f, v, s)
<1>a. PICK n \in Nat : n = Len(s) /\ DOMAIN s = 1..n /\ \A k \in 1..n : s[k] \in P
  OBVIOUS
<1>b. \A d \in D, k \in 1..n : Receive(d, s[k]) \in D
  BY <1>a
<1> DEFINE E(it) == it = [S \in SUBSET (DOMAIN s) |->
                            IF S = {} THEN v ELSE Receive(it[S \ {Max(S)}], s[Max(S)])]
           iter == CHOOSE it : E(it)
           g == [p \in D \X (1..n) |-> Receive(p[1], s[p[2]])]
<1>1. ReceiveAll(v, s) = iter[DOMAIN s]
  BY DEF ReceiveAll, FoldLeft, MapThenFoldSet
<1>2. \E it : E(it)
  <2>1. g \in [D \X (1..n) -> D]
    BY <1>b
  <2>2. \A d \in D, k \in 1..n : g[<<d, k>>] = Receive(d, s[k])
    OBVIOUS
  <2> HIDE DEF g
  <2>3. PICK h \in [SUBSET (1..n) -> D] : IsFold(h, g, v, n)
    BY <2>1, FoldExists
  <2>4. ASSUME NEW S \in SUBSET (1..n)
        PROVE  h[S] = IF S = {} THEN v ELSE Receive(h[S \ {Max(S)}], s[Max(S)])
    <3>1. CASE S = {}
      BY <3>1, <2>3 DEF IsFold
    <3>2. CASE S # {}
      <4>1. Max(S) \in 1..n /\ h[S \ {Max(S)}] \in D
        BY <3>2, MaxIn
      <4>2. h[S] = g[<<h[S \ {Max(S)}], Max(S)>>]
        BY <3>2, <2>3 DEF IsFold
      <4>3. QED
        BY <4>1, <4>2, <2>2, <3>2
    <3>3. QED
      BY <3>1, <3>2
  <2>5. E(h)
    BY <2>4, <1>a
  <2>6. QED
    BY <2>5
<1>3. E(iter)
  BY <1>2
<1> DEFINE f == [k \in 0..n |-> iter[1..k]]
<1> HIDE DEF iter
<1>4. f[0] = v
  <2>1. 1..0 = {} /\ {} \in SUBSET (DOMAIN s)
    OBVIOUS
  <2>2. iter[{}] = v
    BY <1>a, <1>3, <2>1
  <2>3. QED
    BY <2>1, <2>2
<1>5. ASSUME NEW k \in 1..n
      PROVE  f[k] = Receive(f[k - 1], s[k])
  <2>1. 1..k \in SUBSET (DOMAIN s) /\ 1..k # {}
    <3>1. k \in 1..k /\ \A i \in 1..k : i \in 1..n
      OBVIOUS
    <3>2. QED
      BY <3>1, <1>a
  <2>2. iter[1..k] = Receive(iter[(1..k) \ {Max(1..k)}], s[Max(1..k)])
    BY <1>a, <1>3, <2>1
  <2>3. Max(1..k) = k /\ (1..k) \ {k} = 1..k - 1
    BY MaxUpTo
  <2>4. f[k] = iter[1..k] /\ f[k - 1] = iter[1..k - 1]
    <3>1. k \in 0..n /\ k - 1 \in 0..n
      OBVIOUS
    <3>2. QED
      BY <3>1
  <2>5. QED
    BY <2>2, <2>3, <2>4
<1>6. f[n] = ReceiveAll(v, s)
  BY <1>1, <1>a
<1>7. f \in [0..n -> D]
  <2> HIDE DEF f
  <2> DEFINE T == {k \in 0..n : f[k] \in D}
  <2>1. 0 \in T
    BY <1>4
  <2>2. \A k \in 0..n - 1 : k \in T => k + 1 \in T
    <3>1. ASSUME NEW k \in 0..n - 1, k \in T
          PROVE  k + 1 \in T
      <4>1. k + 1 \in 1..n /\ (k + 1) - 1 = k /\ k + 1 \in 0..n
        OBVIOUS
      <4>2. f[k + 1] = Receive(f[k], s[k + 1])
        BY <4>1, <1>5
      <4>3. f[k + 1] \in D
        BY <3>1, <4>1, <4>2, <1>b
      <4>4. QED
        BY <4>1, <4>3
    <3>2. QED
      BY <3>1
  <2>3. \A k \in 0..n : k \in T
    <3> HIDE DEF T
    <3>1. QED
      BY <2>1, <2>2, UpTo
  <2>4. \A k \in 0..n : f[k] \in D
    BY <2>3
  <2>5. DOMAIN f = 0..n /\ f = [k \in 0..n |-> f[k]]
    BY DEF f
  <2>6. QED
    BY <2>4, <2>5
<1> HIDE DEF f
<1>8. Receiving(f, v, s)
  BY <1>a, <1>4, <1>5, <1>6 DEF Receiving
<1>9. QED
  BY <1>a, <1>7, <1>8

\* f[k] is what the first k of s make of v.
Handling(f, v, s) ==
  f[0] = v /\ f[Len(s)] = HandleAll(v, s) /\ \A k \in 1..Len(s) : f[k] = Handle(f[k - 1], s[k])

(* So does the client with lines.                                          *)
LEMMA HandleFold ==
  ASSUME NEW P, NEW s \in Seq(P), NEW D, NEW v \in D, \A d \in D, p \in P : Handle(d, p) \in D
  PROVE  \E f \in [0..Len(s) -> D] : Handling(f, v, s)
<1>a. PICK n \in Nat : n = Len(s) /\ DOMAIN s = 1..n /\ \A k \in 1..n : s[k] \in P
  OBVIOUS
<1>b. \A d \in D, k \in 1..n : Handle(d, s[k]) \in D
  BY <1>a
<1> DEFINE E(it) == it = [S \in SUBSET (DOMAIN s) |->
                            IF S = {} THEN v ELSE Handle(it[S \ {Max(S)}], s[Max(S)])]
           iter == CHOOSE it : E(it)
           g == [p \in D \X (1..n) |-> Handle(p[1], s[p[2]])]
<1>1. HandleAll(v, s) = iter[DOMAIN s]
  BY DEF HandleAll, FoldLeft, MapThenFoldSet
<1>2. \E it : E(it)
  <2>1. g \in [D \X (1..n) -> D]
    BY <1>b
  <2>2. \A d \in D, k \in 1..n : g[<<d, k>>] = Handle(d, s[k])
    OBVIOUS
  <2> HIDE DEF g
  <2>3. PICK h \in [SUBSET (1..n) -> D] : IsFold(h, g, v, n)
    BY <2>1, FoldExists
  <2>4. ASSUME NEW S \in SUBSET (1..n)
        PROVE  h[S] = IF S = {} THEN v ELSE Handle(h[S \ {Max(S)}], s[Max(S)])
    <3>1. CASE S = {}
      BY <3>1, <2>3 DEF IsFold
    <3>2. CASE S # {}
      <4>1. Max(S) \in 1..n /\ h[S \ {Max(S)}] \in D
        BY <3>2, MaxIn
      <4>2. h[S] = g[<<h[S \ {Max(S)}], Max(S)>>]
        BY <3>2, <2>3 DEF IsFold
      <4>3. QED
        BY <4>1, <4>2, <2>2, <3>2
    <3>3. QED
      BY <3>1, <3>2
  <2>5. E(h)
    BY <2>4, <1>a
  <2>6. QED
    BY <2>5
<1>3. E(iter)
  BY <1>2
<1> DEFINE f == [k \in 0..n |-> iter[1..k]]
<1> HIDE DEF iter
<1>4. f[0] = v
  <2>1. 1..0 = {} /\ {} \in SUBSET (DOMAIN s)
    OBVIOUS
  <2>2. iter[{}] = v
    BY <1>a, <1>3, <2>1
  <2>3. QED
    BY <2>1, <2>2
<1>5. ASSUME NEW k \in 1..n
      PROVE  f[k] = Handle(f[k - 1], s[k])
  <2>1. 1..k \in SUBSET (DOMAIN s) /\ 1..k # {}
    <3>1. k \in 1..k /\ \A i \in 1..k : i \in 1..n
      OBVIOUS
    <3>2. QED
      BY <3>1, <1>a
  <2>2. iter[1..k] = Handle(iter[(1..k) \ {Max(1..k)}], s[Max(1..k)])
    BY <1>a, <1>3, <2>1
  <2>3. Max(1..k) = k /\ (1..k) \ {k} = 1..k - 1
    BY MaxUpTo
  <2>4. f[k] = iter[1..k] /\ f[k - 1] = iter[1..k - 1]
    <3>1. k \in 0..n /\ k - 1 \in 0..n
      OBVIOUS
    <3>2. QED
      BY <3>1
  <2>5. QED
    BY <2>2, <2>3, <2>4
<1>6. f[n] = HandleAll(v, s)
  BY <1>1, <1>a
<1>7. f \in [0..n -> D]
  <2> HIDE DEF f
  <2> DEFINE T == {k \in 0..n : f[k] \in D}
  <2>1. 0 \in T
    BY <1>4
  <2>2. \A k \in 0..n - 1 : k \in T => k + 1 \in T
    <3>1. ASSUME NEW k \in 0..n - 1, k \in T
          PROVE  k + 1 \in T
      <4>1. k + 1 \in 1..n /\ (k + 1) - 1 = k /\ k + 1 \in 0..n
        OBVIOUS
      <4>2. f[k + 1] = Handle(f[k], s[k + 1])
        BY <4>1, <1>5
      <4>3. f[k + 1] \in D
        BY <3>1, <4>1, <4>2, <1>b
      <4>4. QED
        BY <4>1, <4>3
    <3>2. QED
      BY <3>1
  <2>3. \A k \in 0..n : k \in T
    <3> HIDE DEF T
    <3>1. QED
      BY <2>1, <2>2, UpTo
  <2>4. \A k \in 0..n : f[k] \in D
    BY <2>3
  <2>5. DOMAIN f = 0..n /\ f = [k \in 0..n |-> f[k]]
    BY DEF f
  <2>6. QED
    BY <2>4, <2>5
<1> HIDE DEF f
<1>8. Handling(f, v, s)
  BY <1>a, <1>4, <1>5, <1>6 DEF Handling
<1>9. QED
  BY <1>a, <1>7, <1>8

LEMMA ReceiveType ==
  ASSUME NEW v \in ServerType, NEW part \in Part
  PROVE  /\ Receive(v, part) \in ServerType
         /\ Receive(v, part).sock = v.sock /\ Receive(v, part).in = v.in
         /\ Receive(v, part).verified = v.verified
         /\ Receive(v, part).half = Open(part)
         /\ ~v.garbled /\ v.half = (IF part.first THEN "none" ELSE part.line)
              => ~Receive(v, part).garbled
         /\ ~v.early /\ (v.verified \/ part.line = "login") => ~Receive(v, part).early
BY DEF Receive, ServerType, Part, Half, Open, Line

(* Whole lines arrive whole, and what is left of them stays so.            *)
LEMMA WholeAgain ==
  ASSUME NEW v \in ServerType, NEW s \in Seq(Part), NEW r \in Seq(Part), NEW q \in Seq(Part),
         Len(q) = Len(s) + Len(r),
         \A i \in 1..Len(s) : q[i] = s[i],
         \A i \in 1..Len(r) : q[Len(s) + i] = r[i],
         Whole(v.half, q), Allowed(v, s), ~v.garbled, ~v.early,
         NEW w, w = ReceiveAll(v, s)
  PROVE  /\ w \in ServerType /\ w.sock = v.sock /\ w.in = v.in /\ w.verified = v.verified
         /\ Whole(w.half, r) /\ ~w.garbled /\ ~w.early
         /\ w.verified \/ w.half \in {"none", "login"}
<1> DEFINE D == {d \in ServerType : d.sock = v.sock /\ d.in = v.in /\ d.verified = v.verified}
           n == Len(s)
<1>1. n \in Nat /\ DOMAIN s = 1..n /\ Len(r) \in Nat /\ \A i \in 1..n : s[i] \in Part
  OBVIOUS
<1>2. v \in D
  OBVIOUS
<1>3. \A d \in D, p \in Part : Receive(d, p) \in D
  <2>1. ASSUME NEW d \in D, NEW p \in Part
        PROVE  Receive(d, p) \in D
    <3>1. d \in ServerType /\ d.sock = v.sock /\ d.in = v.in /\ d.verified = v.verified
      OBVIOUS
    <3>2. /\ Receive(d, p) \in ServerType
          /\ Receive(d, p).sock = d.sock /\ Receive(d, p).in = d.in
          /\ Receive(d, p).verified = d.verified
      BY <3>1, ReceiveType
    <3>3. QED
      BY <3>1, <3>2
  <2>2. QED
    BY <2>1
<1>4. PICK f \in [0..n -> D] :
        /\ f[0] = v /\ f[n] = w
        /\ \A k \in 1..n : f[k] = Receive(f[k - 1], s[k])
  <2> HIDE DEF D
  <2>1. PICK f \in [0..Len(s) -> D] : Receiving(f, v, s)
    BY <1>2, <1>3, ReceiveFold
  <2>2. QED
    BY <2>1 DEF Receiving
<1> DEFINE T == {k \in 0..n : f[k].half = Before(v.half, q, k + 1) /\ ~f[k].garbled /\ ~f[k].early}
<1>5. 0 \in T
  BY <1>1, <1>4 DEF Before
<1>6. ASSUME NEW k \in 0..n - 1, k \in T
      PROVE  k + 1 \in T
  <2>1. k \in 0..n /\ k + 1 \in 0..n /\ k + 1 \in 1..n /\ k + 1 \in 1..Len(q) /\ (k + 1) - 1 = k
    BY <1>1
  <2>2. f[k] \in ServerType /\ f[k].verified = v.verified /\ s[k + 1] \in Part
    BY <2>1, <1>1
  <2>3. f[k + 1] = Receive(f[k], s[k + 1]) /\ q[k + 1] = s[k + 1]
    BY <2>1, <1>4
  <2>4. f[k].half = Before(v.half, q, k + 1) /\ ~f[k].garbled /\ ~f[k].early
    BY <1>6
  <2>5. Before(v.half, q, k + 1) = IF s[k + 1].first THEN "none" ELSE s[k + 1].line
    <3>1. IF q[k + 1].first THEN Before(v.half, q, k + 1) = "none"
          ELSE Before(v.half, q, k + 1) = q[k + 1].line
      BY <2>1 DEF Whole
    <3>2. QED
      BY <3>1, <2>3
  <2>6. v.verified \/ s[k + 1].line = "login"
    BY <2>1 DEF Allowed
  <2>7. ~f[k + 1].garbled /\ ~f[k + 1].early /\ f[k + 1].half = Open(s[k + 1])
    <3> DEFINE d == f[k]
               p == s[k + 1]
    <3>1. d \in ServerType /\ p \in Part /\ ~d.garbled /\ ~d.early
      BY <2>2, <2>4
    <3>2. d.half = (IF p.first THEN "none" ELSE p.line)
      BY <2>4, <2>5
    <3>3. d.verified \/ p.line = "login"
      BY <2>2, <2>6
    <3>4. f[k + 1] = Receive(d, p)
      BY <2>3
    <3> HIDE DEF d, p
    <3>5. ~Receive(d, p).garbled /\ ~Receive(d, p).early /\ Receive(d, p).half = Open(p)
      BY <3>1, <3>2, <3>3, ReceiveType
    <3>6. QED
      BY <3>4, <3>5 DEF p
  <2>8. Before(v.half, q, (k + 1) + 1) = Open(s[k + 1])
    BY <2>1, <2>3 DEF Before
  <2>9. QED
    BY <2>1, <2>7, <2>8
<1>7. n \in T
  <2> HIDE DEF T, n
  <2>1. \A k \in 0..n : k \in T
    BY <1>1, <1>5, <1>6, UpTo
  <2>2. QED
    BY <2>1, <1>1
<1>8. w.half = Before(v.half, q, n + 1) /\ ~w.garbled /\ ~w.early
  BY <1>4, <1>7
<1>9. w \in D
  BY <1>1, <1>4
<1>10. \A i \in 1..Len(r) + 1 : Before(w.half, r, i) = Before(v.half, q, n + i)
  <2>1. ASSUME NEW i \in 1..Len(r) + 1
        PROVE  Before(w.half, r, i) = Before(v.half, q, n + i)
    <3>1. CASE i = 1
      BY <3>1, <1>8 DEF Before
    <3>2. CASE i # 1
      <4>1. i - 1 \in 1..Len(r) /\ n + i # 1 /\ (n + i) - 1 = n + (i - 1)
        BY <3>2, <1>1
      <4>2. q[(n + i) - 1] = r[i - 1]
        BY <4>1
      <4>3. QED
        BY <4>1, <4>2, <3>2 DEF Before
    <3>3. QED
      BY <3>1, <3>2
  <2>2. QED
    BY <2>1
<1>11. Whole(w.half, r)
  <2>1. ASSUME NEW i \in 1..Len(r)
        PROVE  IF r[i].first THEN Before(w.half, r, i) = "none" ELSE Before(w.half, r, i) = r[i].line
    <3>1. n + i \in 1..Len(q) /\ q[n + i] = r[i] /\ Before(w.half, r, i) = Before(v.half, q, n + i)
      BY <1>1, <1>10
    <3>2. IF q[n + i].first THEN Before(v.half, q, n + i) = "none"
          ELSE Before(v.half, q, n + i) = q[n + i].line
      BY <3>1 DEF Whole
    <3>3. QED
      BY <3>1, <3>2
  <2>2. Before(w.half, r, Len(r) + 1) = "none"
    <3>1. Len(q) + 1 = n + (Len(r) + 1) /\ Len(r) + 1 \in 1..Len(r) + 1
      BY <1>1
    <3>2. QED
      BY <3>1, <1>10 DEF Whole
  <2>3. QED
    BY <2>1, <2>2 DEF Whole
<1>12. w.verified \/ w.half \in {"none", "login"}
  <2>1. CASE n = 0
    BY <2>1, <1>8, <1>9 DEF Before, Allowed
  <2>2. CASE n # 0
    <3>1. n \in 1..n /\ n + 1 # 1 /\ (n + 1) - 1 = n
      BY <2>2, <1>1
    <3>2. w.half = Open(s[n])
      BY <3>1, <1>8 DEF Before
    <3>3. v.verified \/ s[n].line = "login"
      BY <3>1 DEF Allowed
    <3>4. QED
      BY <3>2, <3>3, <1>9 DEF Open
  <2>3. QED
    BY <2>1, <2>2
<1>13. QED
  BY <1>8, <1>9, <1>11, <1>12
----------------------------------------------------------------------------
(* What the client does to its end of the connection.                      *)
LEMMA TakeIs ==
  ASSUME NEW S, NEW s \in Seq(S), NEW n \in 0..Len(s)
  PROVE  /\ Take(s, n) \in Seq(S) /\ Len(Take(s, n)) = n
         /\ \A i \in 1..n : Take(s, n)[i] = s[i]
         /\ Drop(s, n) \in Seq(S) /\ Len(Drop(s, n)) = Len(s) - n
         /\ \A i \in 1..Len(s) - n : Drop(s, n)[i] = s[n + i]
<1>1. Len(s) \in Nat /\ \A i \in 1..Len(s) : s[i] \in S
  OBVIOUS
<1>2. \A i \in 1..n : s[i] \in S
  BY <1>1
<1>3. /\ SubSeq(s, 1, n) \in Seq(S) /\ Len(SubSeq(s, 1, n)) = n
      /\ \A i \in 1..n : SubSeq(s, 1, n)[i] = s[i]
  <2>1. /\ SubSeq(s, 1, n) \in Seq(S)
        /\ Len(SubSeq(s, 1, n)) = IF 1 <= n THEN n - 1 + 1 ELSE 0
        /\ \A i \in 1..n - 1 + 1 : SubSeq(s, 1, n)[i] = s[1 + i - 1]
    BY <1>2, SubSeqProperties
  <2>2. QED
    BY <2>1
<1>4. /\ SubSeq(s, n + 1, Len(s)) \in Seq(S) /\ Len(SubSeq(s, n + 1, Len(s))) = Len(s) - n
      /\ \A i \in 1..Len(s) - n : SubSeq(s, n + 1, Len(s))[i] = s[n + i]
  <2>1. \A i \in n + 1..Len(s) : s[i] \in S
    BY <1>1
  <2>2. /\ SubSeq(s, n + 1, Len(s)) \in Seq(S)
        /\ Len(SubSeq(s, n + 1, Len(s))) = IF n + 1 <= Len(s) THEN Len(s) - (n + 1) + 1 ELSE 0
        /\ \A i \in 1..Len(s) - (n + 1) + 1 : SubSeq(s, n + 1, Len(s))[i] = s[(n + 1) + i - 1]
    BY <1>1, <2>1, SubSeqProperties
  <2>3. QED
    BY <1>1, <2>2
<1>5. QED
  BY <1>3, <1>4 DEF Take, Drop

LEMMA ClientIs ==
  ASSUME NEW c \in ClientType
  PROVE  /\ c.state \in {"off", "connecting", "login", "ready"} /\ c.wait \in 0..LastWait
         /\ c.backoff \in FirstWait..LastWait /\ c.left \in 0..Timeout + 1
         /\ c.beacon \in 0..BeaconEvery /\ c.tx \in Seq(Part) /\ c.nodes \in Seq(Entry)
         /\ c.waited \in 0..LastWait
BY DEF ClientType

LEMMA OffType ==
  ASSUME NEW c \in ClientType, NEW w \in FirstWait..LastWait
  PROVE  /\ Off(c, w) \in ClientType /\ Off(c, w).state = "off" /\ Off(c, w).tx = <<>>
         /\ Off(c, w).waited = w /\ Off(c, w).backoff = w /\ Off(c, w).wait = w
         /\ Off(c, w).nodes = c.nodes
<1>1. <<>> \in Seq(Part)
  OBVIOUS
<1>2. w \in 0..LastWait /\ 0 \in 0..Timeout + 1 /\ 0 \in 0..BeaconEvery
  BY Sizes
<1>3. QED
  BY <1>1, <1>2 DEF Off, ClientType

LEMMA LongerIs ==
  ASSUME NEW c \in ClientType
  PROVE  /\ Longer(c) \in FirstWait..LastWait
         /\ Longer(c) > c.backoff \/ Longer(c) = LastWait
<1>1. c.backoff \in FirstWait..LastWait
  BY ClientIs
<1>2. QED
  BY <1>1, Sizes DEF Longer, Least

(* A connection that is given up.                                          *)
LEMMA DisconnectedOK ==
  ASSUME NEW c \in ClientType, c.waited <= c.backoff
  PROVE  /\ Wire(Disconnected(c), NoServer) /\ Disconnected(c).nodes = c.nodes
         /\ Disconnected(c).state = "off" /\ Disconnected(c).tx = <<>>
         /\ Disconnected(c).waited > c.waited \/ Disconnected(c).waited = LastWait
<1> DEFINE d == Disconnected(c)
           w == Longer(c)
<1>1. w \in FirstWait..LastWait /\ (w > c.backoff \/ w = LastWait)
  BY LongerIs
<1>2. d = Off(c, w)
  BY DEF Disconnected
<1> HIDE DEF d, w
<1>3. /\ d \in ClientType /\ d.state = "off" /\ d.tx = <<>> /\ d.waited = w /\ d.backoff = w
      /\ d.nodes = c.nodes
  BY <1>1, <1>2, OffType
<1>4. d.waited > c.waited \/ d.waited = LastWait
  BY <1>1, <1>3, ClientIs, Sizes
<1>5. Wire(d, NoServer)
  <2>1. Whole("none", <<>>) /\ Len(d.tx) = 0 /\ 0 <= TxSize
    BY <1>3, EmptyWhole, Sizes
  <2>2. Whole(NoServer.half, d.tx)
    BY <1>3, <2>1, NoServerIs
  <2>3. Allowed(NoServer, d.tx)
    BY <1>3, NoServerIs DEF Allowed
  <2>4. \A i \in 1..Len(NoServer.in) : NoServer.in[i] # "verified"
    BY NoServerIs
  <2>5. d.waited <= d.backoff
    BY <1>1, <1>3, Sizes
  <2>6. QED
    BY <1>3, <2>1, <2>2, <2>3, <2>4, <2>5, NoServerIs DEF Wire
<1>6. QED
  BY <1>3, <1>4, <1>5 DEF d

(* A line that is queued for a server that may have it.                    *)
LEMMA TxQueueOK ==
  ASSUME NEW c, NEW v, Wire(c, v), c.state \in {"login", "ready"},
         NEW line \in Line, line = "login" \/ v.verified
  PROVE  /\ Wire(TxQueue(c, line), v)
         /\ TxQueue(c, line) = [c EXCEPT !.tx = TxQueue(c, line).tx]
         /\ TxQueue(c, line).tx = c.tx \/ TxQueue(c, line).tx = c.tx \o Parts(line)
<1> DEFINE d == TxQueue(c, line)
<1>0. c \in ClientType /\ c.tx \in Seq(Part) /\ v \in ServerType
  BY ClientIs DEF Wire
<1>a. PICK p \in Seq(Part) :
        p = Parts(line) /\ Len(p) = 2 /\ p[1].line = line /\ p[2].line = line
  <2>1. PICK p \in Seq(Part) :
          /\ p = Parts(line) /\ Len(p) = 2
          /\ p[1] = [line |-> line, first |-> TRUE] /\ p[2] = [line |-> line, first |-> FALSE]
    BY PartsType
  <2>2. p[1].line = line /\ p[2].line = line
    BY <2>1
  <2>3. QED
    BY <2>1, <2>2
<1>1. CASE Len(c.tx) + 2 > TxSize
  <2>1. d = c
    BY <1>1 DEF TxQueue
  <2>2. c = [c EXCEPT !.tx = c.tx]
    BY <1>0 DEF ClientType
  <2>3. QED
    BY <2>1, <2>2
<1>2. CASE ~(Len(c.tx) + 2 > TxSize)
  <2> DEFINE t == c.tx \o p
  <2>1. d = [c EXCEPT !.tx = t]
    BY <1>2, <1>a DEF TxQueue
  <2>2. /\ t \in Seq(Part) /\ Len(t) = Len(c.tx) + 2
        /\ \A i \in 1..Len(c.tx) + 2 : t[i] = IF i <= Len(c.tx) THEN c.tx[i] ELSE p[i - Len(c.tx)]
    <3>1. PICK q \in Seq(Part) : q = c.tx
      BY <1>0
    <3>2. /\ q \o p \in Seq(Part) /\ Len(q \o p) = Len(q) + Len(p)
          /\ \A i \in 1..Len(q) + Len(p) :
               (q \o p)[i] = IF i <= Len(q) THEN q[i] ELSE p[i - Len(q)]
      BY ConcatProperties
    <3>3. QED
      BY <3>1, <3>2, <1>a
  <2>3. Whole(v.half, t)
    <3>1. v.half \in Half /\ Whole(v.half, c.tx)
      BY <1>0 DEF Wire, ServerType
    <3>2. QED
      BY <3>1, <1>0, <1>a, PartsWhole
  <2> HIDE DEF t
  <2>4. Allowed(v, t)
    <3>1. CASE v.verified
      BY <3>1 DEF Allowed
    <3>2. CASE ~v.verified
      <4>1. v.half \in {"none", "login"} /\ \A i \in 1..Len(c.tx) : c.tx[i].line = "login"
        BY <3>2 DEF Wire, Allowed
      <4>2. ASSUME NEW i \in 1..Len(t)
            PROVE  t[i].line = "login"
        <5>1. Len(c.tx) \in Nat /\ line = "login"
          BY <1>0, <3>2
        <5>2. CASE i <= Len(c.tx)
          BY <5>1, <5>2, <2>2, <4>1
        <5>3. CASE ~(i <= Len(c.tx))
          <6>1. i - Len(c.tx) \in {1, 2} /\ t[i] = p[i - Len(c.tx)]
            BY <5>1, <5>3, <2>2
          <6>2. QED
            BY <6>1, <5>1, <1>a
        <5>4. QED
          BY <5>2, <5>3
      <4>3. QED
        BY <4>1, <4>2 DEF Allowed
    <3>3. QED
      BY <3>1, <3>2
  <2>5. d \in ClientType /\ d.tx = t /\ d.state = c.state /\ d.waited = c.waited /\ d.backoff = c.backoff
    BY <1>0, <2>1, <2>2 DEF ClientType
  <2>6. Len(t) <= TxSize
    BY <1>0, <1>2, <2>2, Sizes
  <2> HIDE DEF d
  <2>7. Wire(d, v)
    BY <2>3, <2>4, <2>5, <2>6 DEF Wire
  <2>8. QED
    BY <2>1, <2>5, <2>7, <1>a DEF d, t
<1>3. QED
  BY <1>1, <1>2
----------------------------------------------------------------------------
\* What lines of the server make of a client c that has waited for them.
After(c, v) ==
  {d \in ClientType :
     /\ d.nodes = c.nodes /\ d.waited <= d.backoff
     /\ d.state \in {"off", "login", "ready"}
     /\ d.state = "off" => d.tx = <<>> /\ d.waited = LastWait
     /\ d.state # "off" => d.tx = c.tx
     /\ d.state = "login" => d = c
     /\ d.state = "ready" => v.verified}

LEMMA HandleOK ==
  ASSUME NEW c, NEW v, up \in 0..BeaconEvery, NEW d \in After(c, v),
         NEW line \in {"banner", "verified", "unverified"}, line = "verified" => v.verified
  PROVE  Handle(d, line) \in After(c, v)
<1>0. /\ d \in ClientType /\ d.nodes = c.nodes /\ d.waited <= d.backoff
      /\ d.state # "off" => d.tx = c.tx
  BY DEF After
<1>1. CASE d.state # "login" \/ line = "banner"
  BY <1>1 DEF Handle
<1>2. CASE ~(d.state # "login" \/ line = "banner") /\ line = "verified"
  <2>1. Handle(d, line) = [d EXCEPT !.state = "ready", !.backoff = FirstWait,
                                    !.beacon = BeaconEvery - up, !.waited = 0]
    BY <1>2 DEF Handle
  <2>2. BeaconEvery - up \in 0..BeaconEvery /\ FirstWait \in FirstWait..LastWait /\ 0 \in 0..LastWait
        /\ 0 <= FirstWait
    BY Sizes
  <2> DEFINE e == Handle(d, line)
  <2>3. /\ e \in ClientType /\ e.nodes = d.nodes /\ e.waited = 0 /\ e.backoff = FirstWait
        /\ e.state = "ready" /\ e.tx = d.tx
    BY <1>0, <2>1, <2>2 DEF ClientType
  <2> HIDE DEF e
  <2>4. e.waited <= e.backoff /\ d.state # "off" /\ v.verified
    BY <1>2, <2>2, <2>3
  <2>5. e \in After(c, v)
    BY <1>0, <2>3, <2>4 DEF After
  <2>6. QED
    BY <2>5 DEF e
<1>3. CASE ~(d.state # "login" \/ line = "banner") /\ line # "verified"
  <2>1. Handle(d, line) = Off(d, LastWait)
    BY <1>3 DEF Handle
  <2>2. LastWait \in FirstWait..LastWait /\ LastWait <= LastWait
    BY Sizes
  <2>3. QED
    BY <1>0, <2>1, <2>2, OffType DEF After
<1>4. QED
  BY <1>1, <1>2, <1>3

(* A read leaves the client as it was, logged in, or without a connection. *)
LEMMA HandleAllOK ==
  ASSUME NEW c, NEW v, Wire(c, v), c.state \in {"login", "ready"}, up \in 0..BeaconEvery,
         NEW k \in 0..Len(v.in)
  PROVE  HandleAll(c, Take(v.in, k)) \in After(c, v)
<1> DEFINE D == After(c, v)
           P == {p \in {"banner", "verified", "unverified"} : p = "verified" => v.verified}
<1>1. v.in \in Seq({"banner", "verified", "unverified"}) /\ c \in ClientType /\ v \in ServerType
  BY DEF Wire, ServerType
<1>2. PICK s \in Seq({"banner", "verified", "unverified"}) :
        s = Take(v.in, k) /\ Len(s) = k /\ \A i \in 1..k : s[i] = v.in[i]
  BY <1>1, TakeIs
<1>3. s \in Seq(P)
  <2>1. \A i \in 1..Len(s) : s[i] \in P
    <3>1. ASSUME NEW i \in 1..Len(s)
          PROVE  s[i] \in P
      <4>1. s[i] \in {"banner", "verified", "unverified"} /\ i \in 1..Len(v.in) /\ s[i] = v.in[i]
        BY <1>1, <1>2
      <4>2. v.in[i] = "verified" => v.verified
        BY <4>1 DEF Wire
      <4>3. QED
        BY <4>1, <4>2
    <3>2. QED
      BY <3>1
  <2> HIDE DEF P
  <2>2. QED
    BY <2>1
<1>4. c \in D
  BY <1>1 DEF Wire, After
<1>5. \A d \in D, p \in P : Handle(d, p) \in D
  BY HandleOK
<1> HIDE DEF D, P
<1>6. PICK f \in [0..Len(s) -> D] : Handling(f, c, s)
  BY <1>3, <1>4, <1>5, HandleFold
<1>7. f[Len(s)] = HandleAll(c, s) /\ Len(s) \in 0..Len(s)
  BY <1>2, <1>6 DEF Handling
<1>8. QED
  BY <1>2, <1>6, <1>7 DEF D

\* What two sends take, of n and of m parts, is the start of all that is queued: t, and x
\* between them, after which b is there to be sent.
Joined(t, n, x, b, m) ==
  \E s, q \in Seq(Part) :
    /\ s = Take(t, n) \o Take(b, m) /\ q = t \o x
    /\ Len(q) = Len(s) + Len(Drop(b, m))
    /\ \A i \in 1..Len(s) : q[i] = s[i]
    /\ \A i \in 1..Len(Drop(b, m)) : q[Len(s) + i] = Drop(b, m)[i]

LEMMA TwoSends ==
  ASSUME NEW t \in Seq(Part), NEW n \in 0..Len(t), NEW x \in Seq(Part),
         NEW b \in Seq(Part), b = Drop(t, n) \o x, NEW m \in 0..Len(b)
  PROVE  Joined(t, n, x, b, m)
<1>1. PICK t1, t2 \in Seq(Part) :
        /\ t1 = Take(t, n) /\ t2 = Drop(t, n) /\ Len(t1) = n /\ Len(t2) = Len(t) - n
        /\ \A i \in 1..n : t1[i] = t[i]
        /\ \A i \in 1..Len(t) - n : t2[i] = t[n + i]
  <2>1. /\ Take(t, n) \in Seq(Part) /\ Len(Take(t, n)) = n
        /\ \A i \in 1..n : Take(t, n)[i] = t[i]
        /\ Drop(t, n) \in Seq(Part) /\ Len(Drop(t, n)) = Len(t) - n
        /\ \A i \in 1..Len(t) - n : Drop(t, n)[i] = t[n + i]
    BY TakeIs, Zenon
  <2>2. QED
    BY <2>1
<1>2. /\ Len(b) = Len(t2) + Len(x)
      /\ \A i \in 1..Len(t2) + Len(x) : b[i] = IF i <= Len(t2) THEN t2[i] ELSE x[i - Len(t2)]
  BY <1>1, ConcatProperties
<1>3. PICK b1, b2 \in Seq(Part) :
        /\ b1 = Take(b, m) /\ b2 = Drop(b, m) /\ Len(b1) = m /\ Len(b2) = Len(b) - m
        /\ \A i \in 1..m : b1[i] = b[i]
        /\ \A i \in 1..Len(b) - m : b2[i] = b[m + i]
  <2>1. /\ Take(b, m) \in Seq(Part) /\ Len(Take(b, m)) = m
        /\ \A i \in 1..m : Take(b, m)[i] = b[i]
        /\ Drop(b, m) \in Seq(Part) /\ Len(Drop(b, m)) = Len(b) - m
        /\ \A i \in 1..Len(b) - m : Drop(b, m)[i] = b[m + i]
    BY TakeIs, Zenon
  <2>2. QED
    BY <2>1
<1>4. PICK s \in Seq(Part) :
        /\ s = t1 \o b1 /\ Len(s) = n + m
        /\ \A i \in 1..n + m : s[i] = IF i <= n THEN t1[i] ELSE b1[i - n]
  <2>1. /\ t1 \o b1 \in Seq(Part) /\ Len(t1 \o b1) = Len(t1) + Len(b1)
        /\ \A i \in 1..Len(t1) + Len(b1) :
             (t1 \o b1)[i] = IF i <= Len(t1) THEN t1[i] ELSE b1[i - Len(t1)]
    BY ConcatProperties
  <2>2. Len(t1) = n /\ Len(b1) = m
    BY <1>1, <1>3
  <2>3. QED
    BY <2>1, <2>2, Zenon
<1>5. PICK q \in Seq(Part) :
        /\ q = t \o x /\ Len(q) = Len(t) + Len(x)
        /\ \A i \in 1..Len(t) + Len(x) : q[i] = IF i <= Len(t) THEN t[i] ELSE x[i - Len(t)]
  <2>1. /\ t \o x \in Seq(Part) /\ Len(t \o x) = Len(t) + Len(x)
        /\ \A i \in 1..Len(t) + Len(x) :
             (t \o x)[i] = IF i <= Len(t) THEN t[i] ELSE x[i - Len(t)]
    BY ConcatProperties
  <2>2. QED
    BY <2>1, Zenon
<1>6. Len(t) \in Nat /\ Len(x) \in Nat /\ Len(b) = (Len(t) - n) + Len(x)
  BY <1>1, <1>2
<1>7. \A i \in 1..Len(b) : b[i] = q[n + i]
  <2>1. ASSUME NEW i \in 1..Len(b)
        PROVE  b[i] = q[n + i]
    <3>1. n + i \in 1..Len(t) + Len(x) /\ i \in 1..Len(t2) + Len(x)
      BY <1>1, <1>2, <1>6
    <3>2. CASE i <= Len(t) - n
      <4>1. n + i <= Len(t) /\ i <= Len(t2) /\ i \in 1..Len(t) - n
        BY <3>2, <1>1, <1>6
      <4>2. b[i] = t2[i] /\ t2[i] = t[n + i] /\ q[n + i] = t[n + i]
        BY <3>1, <4>1, <1>1, <1>2, <1>5
      <4>3. QED
        BY <4>2
    <3>3. CASE ~(i <= Len(t) - n)
      <4>1. ~(n + i <= Len(t)) /\ ~(i <= Len(t2)) /\ i - Len(t2) = (n + i) - Len(t)
        BY <3>3, <1>1, <1>6
      <4>2. b[i] = x[i - Len(t2)] /\ q[n + i] = x[(n + i) - Len(t)]
        BY <3>1, <4>1, <1>2, <1>5
      <4>3. QED
        BY <4>1, <4>2
    <3>4. QED
      BY <3>2, <3>3
  <2>2. QED
    BY <2>1
<1>8. \A i \in 1..Len(s) : q[i] = s[i]
  <2>1. ASSUME NEW i \in 1..n + m
        PROVE  q[i] = s[i]
    <3>1. CASE i <= n
      <4>1. i \in 1..n /\ i <= Len(t) /\ i \in 1..Len(t) + Len(x)
        BY <3>1, <1>6
      <4>2. s[i] = t1[i] /\ t1[i] = t[i] /\ q[i] = t[i]
        BY <4>1, <3>1, <1>1, <1>4, <1>5
      <4>3. QED
        BY <4>2
    <3>2. CASE ~(i <= n)
      <4>1. i - n \in 1..m /\ i - n \in 1..Len(b) /\ n + (i - n) = i
        BY <3>2, <1>2, <1>6
      <4>2. s[i] = b1[i - n] /\ b1[i - n] = b[i - n] /\ b[i - n] = q[n + (i - n)]
        BY <4>1, <3>2, <1>3, <1>4, <1>7
      <4>3. QED
        BY <4>1, <4>2
    <3>3. QED
      BY <3>1, <3>2
  <2>2. QED
    BY <2>1, <1>4
<1>9. \A i \in 1..Len(b2) : q[Len(s) + i] = b2[i]
  <2>1. ASSUME NEW i \in 1..Len(b) - m
        PROVE  q[(n + m) + i] = b2[i]
    <3>1. m + i \in 1..Len(b) /\ n + (m + i) = (n + m) + i
      BY <1>2, <1>6
    <3>2. b2[i] = b[m + i] /\ b[m + i] = q[n + (m + i)]
      BY <3>1, <1>3, <1>7
    <3>3. QED
      BY <3>1, <3>2
  <2>2. QED
    BY <2>1, <1>3, <1>4
<1>10. Len(q) = Len(s) + Len(b2)
  BY <1>3, <1>4, <1>5, <1>6
<1>11. s = Take(t, n) \o Take(b, m) /\ q = t \o x /\ Drop(b, m) = b2
  BY <1>1, <1>3, <1>4, <1>5
<1>12. /\ Len(q) = Len(s) + Len(Drop(b, m))
       /\ \A i \in 1..Len(Drop(b, m)) : q[Len(s) + i] = Drop(b, m)[i]
  BY <1>9, <1>10, <1>11
<1>13. QED
  BY <1>8, <1>11, <1>12, Zenon DEF Joined
(* Parts s of what is queued, q, are sent, and r is left.                  *)
LEMMA SendOK ==
  ASSUME NEW c, NEW v, Wire(c, v), c.state \in {"login", "ready"},
         NEW q \in Seq(Part), NEW s \in Seq(Part), NEW r \in Seq(Part),
         Len(q) = Len(s) + Len(r),
         \A i \in 1..Len(s) : q[i] = s[i],
         \A i \in 1..Len(r) : q[Len(s) + i] = r[i],
         Whole(v.half, q), Allowed(v, q), Len(r) <= TxSize,
         NEW d \in ClientType, d.tx = r, d.state = c.state, d.waited <= d.backoff
  PROVE  Wire(d, ReceiveAll(v, s))
<1>1. PICK w : w = ReceiveAll(v, s)
  OBVIOUS
<1>2. Len(s) \in Nat /\ Len(r) \in Nat /\ v \in ServerType /\ ~v.garbled /\ ~v.early
  BY DEF Wire
<1>3. Allowed(v, s)
  <2>1. \A i \in 1..Len(s) : i \in 1..Len(q) /\ q[i] = s[i]
    BY <1>2
  <2>2. QED
    BY <2>1 DEF Allowed
<1>4. /\ w \in ServerType /\ w.sock = v.sock /\ w.in = v.in /\ w.verified = v.verified
      /\ Whole(w.half, r) /\ ~w.garbled /\ ~w.early
      /\ w.verified \/ w.half \in {"none", "login"}
  BY <1>1, <1>2, <1>3, WholeAgain
<1>5. Allowed(w, r)
  <2>1. CASE v.verified
    BY <2>1, <1>4 DEF Allowed
  <2>2. CASE ~v.verified
    <3>1. \A i \in 1..Len(q) : q[i].line = "login"
      BY <2>2 DEF Allowed
    <3>2. \A i \in 1..Len(r) : Len(s) + i \in 1..Len(q) /\ q[Len(s) + i] = r[i]
      BY <1>2
    <3>3. \A i \in 1..Len(r) : r[i].line = "login"
      BY <3>1, <3>2
    <3>4. QED
      BY <2>2, <3>3, <1>4 DEF Allowed
  <2>3. QED
    BY <2>1, <2>2
<1>6. d.state \in {"login", "ready"}
  OBVIOUS
<1>7. w.sock # "none" /\ (w.verified \/ (d.state # "ready" /\ \A i \in 1..Len(w.in) : w.in[i] # "verified"))
  BY <1>4 DEF Wire
<1>8. Wire(d, w)
  BY <1>4, <1>5, <1>6, <1>7 DEF Wire
<1>9. QED
  BY <1>1, <1>8

LEMMA SentIs ==
  ASSUME NEW c \in ClientType, NEW n \in 0..Len(c.tx)
  PROVE  /\ Sent(c, n) \in ClientType /\ Sent(c, n).tx = Drop(c.tx, n)
         /\ Sent(c, n) = [c EXCEPT !.tx = Drop(c.tx, n)]
<1>1. c.tx \in Seq(Part)
  BY ClientIs
<1>2. Drop(c.tx, n) \in Seq(Part)
  BY <1>1, TakeIs, Zenon
<1>3. QED
  BY <1>2 DEF Sent, ClientType

(* The start of a login.                                                   *)
LEMMA LoggingInOK ==
  ASSUME NEW c, NEW v, Wire(c, v), c.state = "connecting"
  PROVE  /\ Wire(LoggingIn(c), v) /\ LoggingIn(c).state = "login"
         /\ LoggingIn(c).nodes = c.nodes /\ LoggingIn(c).waited = c.waited
<1> DEFINE d == [c EXCEPT !.state = "login", !.left = Timeout + 1]
<1>1. c \in ClientType /\ Timeout + 1 \in 0..Timeout + 1
  BY Sizes DEF Wire
<1>2. /\ d \in ClientType /\ d.state = "login" /\ d.tx = c.tx /\ d.nodes = c.nodes
      /\ d.waited = c.waited /\ d.backoff = c.backoff
  BY <1>1 DEF ClientType
<1>3. LoggingIn(c) = TxQueue(d, "login")
  BY DEF LoggingIn
<1> HIDE DEF d
<1>4. Wire(d, v)
  BY <1>2 DEF Wire
<1>5. Wire(TxQueue(d, "login"), v) /\ TxQueue(d, "login") = [d EXCEPT !.tx = TxQueue(d, "login").tx]
  BY <1>2, <1>4, TxQueueOK DEF Line
<1>6. QED
  BY <1>2, <1>3, <1>5 DEF ClientType

LEMMA ConnectOK ==
  ASSUME NEW c, NEW v, Wire(c, v), c.state = "connecting",
         NEW n \in 0..Len(LoggingIn(c).tx)
  PROVE  /\ Wire(Sent(LoggingIn(c), n), ReceiveAll(v, Take(LoggingIn(c).tx, n)))
         /\ Sent(LoggingIn(c), n).state = "login" /\ Sent(LoggingIn(c), n).nodes = c.nodes
<1>1. PICK d : d = LoggingIn(c)
  OBVIOUS
<1>2. Wire(d, v) /\ d.state = "login" /\ d.nodes = c.nodes
  BY <1>1, LoggingInOK
<1>3. d \in ClientType /\ d.tx \in Seq(Part) /\ v \in ServerType
  BY <1>2, ClientIs DEF Wire
<1>4. PICK q, s, r \in Seq(Part) :
        /\ q = d.tx /\ s = Take(d.tx, n) /\ r = Drop(d.tx, n) /\ Len(s) = n /\ Len(r) = Len(q) - n
        /\ \A i \in 1..n : s[i] = q[i]
        /\ \A i \in 1..Len(q) - n : r[i] = q[n + i]
  <2>1. PICK q \in Seq(Part) : q = d.tx
    BY <1>3
  <2>2. n \in 0..Len(q)
    BY <1>1, <2>1
  <2>3. /\ Take(q, n) \in Seq(Part) /\ Len(Take(q, n)) = n
        /\ \A i \in 1..n : Take(q, n)[i] = q[i]
        /\ Drop(q, n) \in Seq(Part) /\ Len(Drop(q, n)) = Len(q) - n
        /\ \A i \in 1..Len(q) - n : Drop(q, n)[i] = q[n + i]
    BY <2>2, TakeIs, Zenon
  <2>4. QED
    BY <2>1, <2>3, Zenon
<1>5. n \in 0..Len(q)
  BY <1>1, <1>4
<1>6. PICK e : e = Sent(d, n)
  OBVIOUS
<1>7. e \in ClientType /\ e.tx = r /\ e = [d EXCEPT !.tx = r]
  BY <1>1, <1>3, <1>4, <1>6, SentIs
<1>8. e.state = "login" /\ e.waited <= e.backoff /\ e.nodes = c.nodes
  BY <1>2, <1>3, <1>7 DEF Wire, ClientType
<1>9. Whole(v.half, q) /\ Allowed(v, q) /\ Len(q) <= TxSize
  BY <1>2, <1>4 DEF Wire
<1>10. Len(r) <= TxSize /\ Len(q) = Len(s) + Len(r) /\ Len(r) \in Nat
  BY <1>4, <1>5, <1>9, Sizes
<1>11. Wire(e, ReceiveAll(v, s))
  <2>1. \A i \in 1..Len(s) : q[i] = s[i]
    BY <1>4
  <2>2. \A i \in 1..Len(r) : q[Len(s) + i] = r[i]
    BY <1>4
  <2>3. QED
    BY <1>2, <1>7, <1>8, <1>9, <1>10, <2>1, <2>2, SendOK
<1>12. QED
  BY <1>1, <1>4, <1>6, <1>8, <1>11
\* c1 is what a read made of c, and v1 what it left of the server.
ReadBy(c, c1, v1) ==
  /\ Wire(c1, v1) /\ c1.state \in {"login", "ready"} /\ c1.nodes = c.nodes
  /\ c1.state = "ready" => v1.verified
  /\ c1.state = "login" => c1 = c

(* The client after a read, if it still has its connection.                *)
LEMMA ReadOK ==
  ASSUME NEW c, NEW v, Wire(c, v), c.state \in {"login", "ready"}, up \in 0..BeaconEvery,
         NEW k \in 0..Len(v.in), NEW c1, c1 = HandleAll(c, Take(v.in, k)), c1.state # "off",
         NEW v1, v1 = [v EXCEPT !.in = Drop(@, k)]
  PROVE  ReadBy(c, c1, v1)
<1>1. c1 \in After(c, v)
  BY HandleAllOK
<1>2. /\ c1 \in ClientType /\ c1.nodes = c.nodes /\ c1.waited <= c1.backoff /\ c1.tx = c.tx
      /\ c1.state \in {"login", "ready"} /\ (c1.state = "ready" => v.verified)
      /\ (c1.state = "login" => c1 = c)
  BY <1>1 DEF After
<1>3. v \in ServerType /\ v.in \in Seq({"banner", "verified", "unverified"})
  BY DEF Wire, ServerType
<1>4. PICK q, r \in Seq({"banner", "verified", "unverified"}) :
        q = v.in /\ r = Drop(v.in, k) /\ Len(r) = Len(q) - k /\ \A i \in 1..Len(q) - k : r[i] = q[k + i]
  <2>1. PICK q \in Seq({"banner", "verified", "unverified"}) : q = v.in
    BY <1>3
  <2>2. k \in 0..Len(q)
    BY <2>1
  <2>3. /\ Drop(q, k) \in Seq({"banner", "verified", "unverified"}) /\ Len(Drop(q, k)) = Len(q) - k
        /\ \A i \in 1..Len(q) - k : Drop(q, k)[i] = q[k + i]
    BY <2>2, TakeIs, Zenon
  <2>4. QED
    BY <2>1, <2>3, Zenon
<1>5. v1 = [v EXCEPT !.in = r]
  BY <1>4
<1>6. /\ v1 \in ServerType /\ v1.in = r /\ v1.half = v.half /\ v1.verified = v.verified
      /\ v1.sock = v.sock /\ v1.garbled = v.garbled /\ v1.early = v.early
  BY <1>3, <1>4, <1>5 DEF ServerType
<1>7. v.verified \/ \A i \in 1..Len(r) : r[i] # "verified"
  <2>1. \A i \in 1..Len(r) : k + i \in 1..Len(q) /\ r[i] = q[k + i]
    BY <1>4
  <2>2. v.verified \/ \A i \in 1..Len(q) : q[i] # "verified"
    BY <1>4 DEF Wire
  <2>3. QED
    BY <2>1, <2>2
<1>8. Allowed(v1, c1.tx) /\ Whole(v1.half, c1.tx)
  <2>1. Allowed(v, c.tx) /\ Whole(v.half, c.tx)
    BY DEF Wire
  <2>2. QED
    BY <2>1, <1>2, <1>6 DEF Allowed
<1>9. Len(c1.tx) <= TxSize /\ v1.sock # "none" /\ ~v1.garbled /\ ~v1.early
  BY <1>2, <1>6 DEF Wire
<1>10. v1.verified \/ (c1.state # "ready" /\ \A i \in 1..Len(v1.in) : v1.in[i] # "verified")
  BY <1>2, <1>6, <1>7
<1>11. Wire(c1, v1)
  BY <1>2, <1>6, <1>8, <1>9, <1>10 DEF Wire
<1>12. QED
  BY <1>2, <1>6, <1>11 DEF ReadBy

\* Session's client after its first send, with the beacon if that is due.
WithBeacon(c, due) == IF due THEN [TxQueue(c, "beacon") EXCEPT !.beacon = BeaconEvery] ELSE c

LEMMA WithBeaconIs ==
  ASSUME NEW c \in ClientType, NEW due \in BOOLEAN, Len(c.tx) <= TxSize
  PROVE  /\ WithBeacon(c, due) \in ClientType
         /\ WithBeacon(c, due).state = c.state /\ WithBeacon(c, due).waited = c.waited
         /\ WithBeacon(c, due).backoff = c.backoff /\ WithBeacon(c, due).nodes = c.nodes
         /\ Len(WithBeacon(c, due).tx) <= TxSize
         /\ \E x \in {<<>>, Parts("beacon")} :
              WithBeacon(c, due).tx = c.tx \o x /\ (x # <<>> => due)
<1>0. PICK t \in Seq(Part) : t = c.tx
  BY ClientIs
<1>1. PICK p \in Seq(Part) : p = Parts("beacon") /\ Len(p) = 2
  BY PartsType, "beacon" \in Line DEF Line
<1>2. t \o <<>> = t
  BY ConcatEmptySeq
<1>3. t \o p \in Seq(Part) /\ Len(t \o p) = Len(t) + 2
  <2>1. t \o p \in Seq(Part) /\ Len(t \o p) = Len(t) + Len(p)
    BY ConcatProperties
  <2>2. QED
    BY <2>1, <1>1
<1>4. BeaconEvery \in 0..BeaconEvery
  BY Sizes
<1>5. CASE ~due
  <2>1. WithBeacon(c, due) = c
    BY <1>5 DEF WithBeacon
  <2>2. c.tx = c.tx \o <<>>
    BY <1>0, <1>2
  <2>3. QED
    BY <2>1, <2>2
<1>6. CASE due /\ Len(t) + 2 > TxSize
  <2>1. WithBeacon(c, due) = [c EXCEPT !.beacon = BeaconEvery]
    BY <1>0, <1>6 DEF WithBeacon, TxQueue
  <2>2. /\ [c EXCEPT !.beacon = BeaconEvery] \in ClientType
        /\ [c EXCEPT !.beacon = BeaconEvery].tx = t
        /\ [c EXCEPT !.beacon = BeaconEvery].state = c.state
        /\ [c EXCEPT !.beacon = BeaconEvery].waited = c.waited
        /\ [c EXCEPT !.beacon = BeaconEvery].backoff = c.backoff
        /\ [c EXCEPT !.beacon = BeaconEvery].nodes = c.nodes
    BY <1>0, <1>4 DEF ClientType
  <2>3. c.tx = c.tx \o <<>>
    BY <1>0, <1>2
  <2>4. QED
    BY <1>0, <2>1, <2>2, <2>3
<1>7. CASE due /\ ~(Len(t) + 2 > TxSize)
  <2> DEFINE u == t \o p
             e == [[c EXCEPT !.tx = u] EXCEPT !.beacon = BeaconEvery]
  <2>1. WithBeacon(c, due) = e
    BY <1>0, <1>1, <1>7 DEF WithBeacon, TxQueue
  <2>2. /\ e \in ClientType /\ e.tx = u /\ e.state = c.state /\ e.waited = c.waited
        /\ e.backoff = c.backoff /\ e.nodes = c.nodes
    <3>1. u \in Seq(Part)
      BY <1>3
    <3> HIDE DEF u
    <3>2. QED
      BY <1>4, <3>1 DEF ClientType
  <2> HIDE DEF e
  <2>3. Len(e.tx) <= TxSize
    BY <1>3, <1>7, <2>2, Sizes
  <2>4. QED
    BY <1>0, <1>1, <1>7, <2>1, <2>2, <2>3
<1>8. QED
  BY <1>5, <1>6, <1>7
LEMMA SessionOK ==
  ASSUME NEW c1, NEW v, Wire(c1, v), c1.state \in {"login", "ready"},
         NEW n \in 0..Len(c1.tx), NEW due \in BOOLEAN, due => v.verified,
         NEW c3, c3 = WithBeacon(Sent(c1, n), due), NEW m \in 0..Len(c3.tx)
  PROVE  /\ Wire(Sent(c3, m), ReceiveAll(v, Take(c1.tx, n) \o Take(c3.tx, m)))
         /\ Sent(c3, m).state = c1.state /\ Sent(c3, m).nodes = c1.nodes
<1>0. PICK t \in Seq(Part) : t = c1.tx
  BY ClientIs DEF Wire
<1>1. PICK c2 : c2 = Sent(c1, n)
  OBVIOUS
<1>2. c1 \in ClientType /\ c1.waited <= c1.backoff /\ Len(t) <= TxSize /\ v \in ServerType
  BY <1>0 DEF Wire
<1>3. c2 \in ClientType /\ c2.tx = Drop(t, n) /\ c2 = [c1 EXCEPT !.tx = Drop(t, n)]
  BY <1>0, <1>1, <1>2, SentIs
<1>4. n \in 0..Len(t)
  BY <1>0
<1>5. Drop(t, n) \in Seq(Part) /\ Len(Drop(t, n)) = Len(t) - n
  BY <1>4, TakeIs, Zenon
<1>6. Len(c2.tx) <= TxSize
  BY <1>2, <1>3, <1>4, <1>5, Sizes
<1>7. c2.state = c1.state /\ c2.waited = c1.waited /\ c2.backoff = c1.backoff /\ c2.nodes = c1.nodes
  <2>1. PICK u \in Seq(Part) : u = Drop(t, n)
    BY <1>5
  <2>2. QED
    BY <1>2, <1>3, <2>1 DEF ClientType
<1>8. /\ c3 \in ClientType /\ c3.state = c1.state /\ c3.waited = c1.waited
      /\ c3.backoff = c1.backoff /\ c3.nodes = c1.nodes /\ Len(c3.tx) <= TxSize
      /\ \E x \in {<<>>, Parts("beacon")} : c3.tx = c2.tx \o x /\ (x # <<>> => due)
  <2> DEFINE e == WithBeacon(c2, due)
  <2>1. /\ e \in ClientType /\ e.state = c2.state /\ e.waited = c2.waited
        /\ e.backoff = c2.backoff /\ e.nodes = c2.nodes /\ Len(e.tx) <= TxSize
        /\ \E x \in {<<>>, Parts("beacon")} : e.tx = c2.tx \o x /\ (x # <<>> => due)
    BY <1>3, <1>6, WithBeaconIs, Zenon
  <2>2. c3 = e
    BY <1>1
  <2> HIDE DEF e
  <2>3. QED
    BY <1>7, <2>1, <2>2
<1>9. PICK x \in Seq(Part) :
        /\ x \in {<<>>, Parts("beacon")} /\ c3.tx = Drop(t, n) \o x
        /\ x # <<>> => v.verified
  <2>1. PICK x \in {<<>>, Parts("beacon")} : c3.tx = c2.tx \o x /\ (x # <<>> => due)
    BY <1>8
  <2>2. x \in Seq(Part)
    <3>1. <<>> \in Seq(Part)
      OBVIOUS
    <3>2. Parts("beacon") \in Seq(Part)
      BY PartsType, "beacon" \in Line DEF Line
    <3>3. QED
      BY <3>1, <3>2
  <2>3. QED
    BY <1>3, <2>1, <2>2
<1>10. PICK b \in Seq(Part) : b = c3.tx
  BY <1>8, ClientIs
<1>11. b = Drop(t, n) \o x /\ m \in 0..Len(b)
  BY <1>9, <1>10
<1>12. PICK s, q \in Seq(Part) :
         /\ s = Take(t, n) \o Take(b, m) /\ q = t \o x
         /\ Len(q) = Len(s) + Len(Drop(b, m))
         /\ \A i \in 1..Len(s) : q[i] = s[i]
         /\ \A i \in 1..Len(Drop(b, m)) : q[Len(s) + i] = Drop(b, m)[i]
  <2>1. b = Drop(t, n) \o x
    BY <1>11
  <2>2. m \in 0..Len(b)
    BY <1>11
  <2>3. Joined(t, n, x, b, m)
    BY <1>4, <2>1, <2>2, TwoSends
  <2>4. QED
    BY <2>3, Zenon DEF Joined
<1>13. PICK r \in Seq(Part) : r = Drop(b, m) /\ Len(r) = Len(b) - m
  <2>1. Drop(b, m) \in Seq(Part) /\ Len(Drop(b, m)) = Len(b) - m
    BY <1>11, TakeIs, Zenon
  <2>2. QED
    BY <2>1
<1>14. Whole(v.half, q) /\ Allowed(v, q)
  <2>1. Whole(v.half, t) /\ Allowed(v, t) /\ v.half \in Half
    BY <1>0, <1>2 DEF Wire, ServerType
  <2>2. CASE x = <<>>
    <3>1. q = t
      BY <2>2, <1>12, ConcatEmptySeq
    <3>2. QED
      BY <2>1, <3>1
  <2>3. CASE x # <<>>
    <3>1. x = Parts("beacon") /\ "beacon" \in Line /\ v.verified
      BY <2>3, <1>9 DEF Line
    <3>2. Whole(v.half, t \o Parts("beacon"))
      BY <2>1, <3>1, PartsWhole
    <3>3. QED
      BY <1>12, <3>1, <3>2 DEF Allowed
  <2>4. QED
    BY <2>2, <2>3
<1>15. PICK d : d = Sent(c3, m)
  OBVIOUS
<1>16. d \in ClientType /\ d.tx = r /\ d = [c3 EXCEPT !.tx = r]
  <2>1. m \in 0..Len(c3.tx)
    BY <1>10, <1>11
  <2>2. /\ Sent(c3, m) \in ClientType /\ Sent(c3, m).tx = Drop(c3.tx, m)
        /\ Sent(c3, m) = [c3 EXCEPT !.tx = Drop(c3.tx, m)]
    BY <1>8, <2>1, SentIs, Zenon
  <2>3. Drop(c3.tx, m) = r
    BY <1>10, <1>13
  <2>4. QED
    BY <1>15, <2>2, <2>3
<1>17. d.state = c1.state /\ d.waited <= d.backoff /\ d.nodes = c1.nodes
  BY <1>2, <1>8, <1>16 DEF ClientType
<1>18. Len(r) <= TxSize
  BY <1>8, <1>10, <1>11, <1>13, Sizes
<1>19. Wire(d, ReceiveAll(v, s))
  <2>1. Len(q) = Len(s) + Len(r)
    BY <1>12, <1>13
  <2>2. \A i \in 1..Len(s) : q[i] = s[i]
    BY <1>12
  <2>3. \A i \in 1..Len(r) : q[Len(s) + i] = r[i]
    BY <1>12, <1>13
  <2>4. QED
    BY <1>14, <1>16, <1>17, <1>18, <2>1, <2>2, <2>3, SendOK
<1>20. s = Take(c1.tx, n) \o Take(c3.tx, m)
  BY <1>0, <1>10, <1>12
<1>21. QED
  BY <1>15, <1>17, <1>19, <1>20
----------------------------------------------------------------------------
(* The table of stations and what was gated of them.                       *)
Table(nodes) ==
  /\ nodes \in Seq(Entry) /\ Len(nodes) <= MaxNodes
  /\ \A i, j \in 1..Len(nodes) : nodes[i].call = nodes[j].call => i = j

Gated == [at : Place \cup {"anywhere"}, age : Nat, since : SUBSET Call]

\* The table still knows when and where the station was gated, and has after it only
\* stations that were gated since.
Known(nodes, c, g) ==
  \E i \in 1..Len(nodes) :
    /\ nodes[i].call = c /\ nodes[i].at = g.at /\ nodes[i].age = g.age
    /\ \A j \in i + 1..Len(nodes) : nodes[j].call \in g.since

\* What the table and the history of the gate have to do with each other.
GateInv(nodes, h) ==
  /\ h \in [Call -> Gated] /\ \A c \in Call : IsFiniteSet(h[c].since)
  /\ \A c \in Call :
       h[c].at # "anywhere" =>
         h[c].age < NodeRate /\ (Known(nodes, c, h[c]) \/ Cardinality(h[c].since) >= MaxNodes)

\* r is what is left of the table for another entry of a station, m where it was.
Left(nodes, call, r, m) ==
  /\ r \in Seq(Entry) /\ Len(r) < MaxNodes
  /\ m \in [1..Len(r) -> 1..Len(nodes)]
  /\ \A j \in 1..Len(r) : r[j] = nodes[m[j]] /\ nodes[m[j]].call # call
  /\ \A j, k \in 1..Len(r) : j < k => m[j] < m[k]
  /\ \A i \in 1..Len(nodes) :
       \/ nodes[i].call = call
       \/ \E j \in 1..Len(r) : m[j] = i
       \/ i = 1 /\ Len(nodes) = MaxNodes /\ \A k \in 1..Len(nodes) : nodes[k].call # call

LEMMA OthersAre ==
  ASSUME NEW nodes, Table(nodes), NEW call \in Call
  PROVE  \E m : Left(nodes, call, Others(nodes, call), m)
<1>0. nodes \in Seq(Entry) /\ Len(nodes) \in Nat /\ Len(nodes) <= MaxNodes /\ DOMAIN nodes = 1..Len(nodes)
  BY DEF Table
<1>a. PICK n \in Nat : n = Len(nodes) /\ DOMAIN nodes = 1..n /\ n <= MaxNodes
  BY <1>0
<1>b. \A i \in 1..n : nodes[i] \in Entry
  BY <1>0, <1>a
<1>1. CASE \E i \in DOMAIN nodes : nodes[i].call = call
  <2> DEFINE k == CHOOSE i \in DOMAIN nodes : nodes[i].call = call
             s1 == SubSeq(nodes, 1, k - 1)
             s2 == SubSeq(nodes, k + 1, n)
             r == s1 \o s2
             m == [j \in 1..n - 1 |-> IF j < k THEN j ELSE j + 1]
  <2>1. k \in 1..n /\ nodes[k].call = call
    BY <1>1, <1>a
  <2>2. Others(nodes, call) = r
    BY <1>1, <1>a DEF Others, RemoveAt
  <2> HIDE DEF k
  <2>3. s1 \in Seq(Entry) /\ Len(s1) = k - 1 /\ \A i \in 1..k - 1 : s1[i] = nodes[i]
    <3>1. \A i \in 1..k - 1 : nodes[i] \in Entry
      BY <2>1, <1>b
    <3>2. /\ SubSeq(nodes, 1, k - 1) \in Seq(Entry)
          /\ Len(SubSeq(nodes, 1, k - 1)) = IF 1 <= k - 1 THEN (k - 1) - 1 + 1 ELSE 0
          /\ \A i \in 1..(k - 1) - 1 + 1 : SubSeq(nodes, 1, k - 1)[i] = nodes[1 + i - 1]
      BY <2>1, <3>1, SubSeqProperties
    <3>3. QED
      BY <2>1, <3>2
  <2>4. s2 \in Seq(Entry) /\ Len(s2) = n - k /\ \A i \in 1..n - k : s2[i] = nodes[k + i]
    <3>1. \A i \in k + 1..n : nodes[i] \in Entry
      BY <2>1, <1>b
    <3>2. /\ SubSeq(nodes, k + 1, n) \in Seq(Entry)
          /\ Len(SubSeq(nodes, k + 1, n)) = IF k + 1 <= n THEN n - (k + 1) + 1 ELSE 0
          /\ \A i \in 1..n - (k + 1) + 1 : SubSeq(nodes, k + 1, n)[i] = nodes[(k + 1) + i - 1]
      BY <2>1, <3>1, SubSeqProperties
    <3>3. QED
      BY <2>1, <3>2
  <2> HIDE DEF s1, s2
  <2>5. /\ r \in Seq(Entry) /\ Len(r) = Len(s1) + Len(s2)
        /\ \A i \in 1..Len(s1) + Len(s2) : r[i] = IF i <= Len(s1) THEN s1[i] ELSE s2[i - Len(s1)]
    BY <2>3, <2>4, ConcatProperties
  <2> HIDE DEF r
  <2>6. Len(r) = n - 1
    BY <2>1, <2>3, <2>4, <2>5
  <2>7. \A j \in 1..n - 1 : r[j] = nodes[IF j < k THEN j ELSE j + 1]
    <3>1. ASSUME NEW j \in 1..n - 1
          PROVE  r[j] = nodes[IF j < k THEN j ELSE j + 1]
      <4>1. j \in 1..Len(s1) + Len(s2)
        BY <2>1, <2>3, <2>4
      <4>2. CASE j < k
        <5>1. j <= Len(s1) /\ j \in 1..k - 1
          BY <2>1, <2>3, <4>2
        <5>2. r[j] = s1[j]
          BY <4>1, <5>1, <2>5
        <5>3. QED
          BY <4>2, <5>1, <5>2, <2>3
      <4>3. CASE ~(j < k)
        <5>1. ~(j <= Len(s1)) /\ j - Len(s1) = j - (k - 1) /\ j - (k - 1) \in 1..n - k
              /\ k + (j - (k - 1)) = j + 1
          BY <2>1, <2>3, <4>3
        <5>2. r[j] = s2[j - (k - 1)]
          BY <4>1, <5>1, <2>5
        <5>3. s2[j - (k - 1)] = nodes[k + (j - (k - 1))]
          BY <5>1, <2>4
        <5>4. QED
          BY <4>3, <5>1, <5>2, <5>3
      <4>4. QED
        BY <4>2, <4>3
    <3>2. QED
      BY <3>1
  <2>8. m \in [1..n - 1 -> 1..n]
    BY <2>1
  <2>9. \A j \in 1..n - 1 : r[j] = nodes[m[j]] /\ m[j] # k /\ m[j] \in 1..n
    BY <2>1, <2>7
  <2>10. \A i, j \in 1..n - 1 : i < j => m[i] < m[j]
    BY <2>1
  <2>11. \A i \in 1..n : i = k \/ \E j \in 1..n - 1 : m[j] = i
    <3>1. ASSUME NEW i \in 1..n, i # k
          PROVE  \E j \in 1..n - 1 : m[j] = i
      <4>1. CASE i < k
        <5>1. i \in 1..n - 1 /\ m[i] = i
          BY <2>1, <4>1
        <5>2. QED
          BY <5>1
      <4>2. CASE i > k
        <5>1. i - 1 \in 1..n - 1 /\ m[i - 1] = i
          BY <2>1, <4>2
        <5>2. QED
          BY <5>1
      <4>3. QED
        BY <2>1, <3>1, <4>1, <4>2
    <3>2. QED
      BY <3>1
  <2> HIDE DEF m
  <2>12. \A j \in 1..n - 1 : nodes[m[j]].call # call
    BY <2>1, <2>9, <1>a DEF Table
  <2>13. \A i \in 1..n : nodes[i].call = call \/ \E j \in 1..n - 1 : m[j] = i
    BY <2>1, <2>11
  <2>14. n - 1 < MaxNodes
    BY <1>a, Sizes
  <2>15. Left(nodes, call, r, m)
    BY <1>a, <2>5, <2>6, <2>8, <2>9, <2>10, <2>12, <2>13, <2>14 DEF Left
  <2>16. QED
    BY <2>2, <2>15
<1>2. CASE ~(\E i \in DOMAIN nodes : nodes[i].call = call)
  <2>0. \A i \in 1..n : nodes[i].call # call
    BY <1>2, <1>a
  <2>1. Others(nodes, call) = OldestOut(nodes)
    BY <1>2 DEF Others
  <2>2. CASE n < MaxNodes
    <3> DEFINE m == [j \in 1..n |-> j]
    <3>1. OldestOut(nodes) = nodes
      BY <2>2, <1>a DEF OldestOut
    <3>2. /\ m \in [1..n -> 1..n] /\ \A j \in 1..n : m[j] = j
      OBVIOUS
    <3> HIDE DEF m
    <3>3. \A j \in 1..n : nodes[j] = nodes[m[j]] /\ nodes[m[j]].call # call
      BY <2>0, <3>2
    <3>4. \A j, k \in 1..n : j < k => m[j] < m[k]
      BY <3>2
    <3>5. \A i \in 1..n : \E j \in 1..n : m[j] = i
      BY <3>2
    <3>6. Left(nodes, call, nodes, m)
      BY <1>0, <1>a, <2>2, <3>2, <3>3, <3>4, <3>5 DEF Left
    <3>7. QED
      BY <2>1, <3>1, <3>6
  <2>3. CASE ~(n < MaxNodes)
    <3> DEFINE r == Tail(nodes)
               m == [j \in 1..n - 1 |-> j + 1]
    <3>0. n = MaxNodes /\ n > 0 /\ nodes # <<>>
      BY <2>3, <1>a, Sizes
    <3>1. OldestOut(nodes) = r
      BY <2>3, <1>a DEF OldestOut
    <3>2. r \in Seq(Entry) /\ Len(r) = n - 1 /\ \A i \in 1..n - 1 : r[i] = nodes[i + 1]
      BY <3>0, <1>0, <1>a, HeadTailProperties
    <3>3. m \in [1..n - 1 -> 1..n] /\ \A j \in 1..n - 1 : m[j] = j + 1
      OBVIOUS
    <3> HIDE DEF m, r
    <3>4. \A j \in 1..n - 1 : r[j] = nodes[m[j]] /\ nodes[m[j]].call # call
      BY <2>0, <3>2, <3>3
    <3>5. \A j, k \in 1..n - 1 : j < k => m[j] < m[k]
      BY <3>3
    <3>6. \A i \in 1..n : i = 1 \/ \E j \in 1..n - 1 : m[j] = i
      <4>1. \A i \in 1..n : i # 1 => i - 1 \in 1..n - 1 /\ m[i - 1] = i
        BY <3>3
      <4>2. QED
        BY <4>1
    <3>7. n - 1 < MaxNodes
      BY <3>0
    <3>8. Left(nodes, call, r, m)
      BY <1>a, <2>0, <3>0, <3>2, <3>3, <3>4, <3>5, <3>6, <3>7 DEF Left
    <3>9. QED
      BY <2>1, <3>1, <3>8
  <2>4. QED
    BY <2>2, <2>3
<1>3. QED
  BY <1>1, <1>2
(* A station is gated.                                                     *)
Added(n2, r, this) ==
  /\ Table(n2) /\ Len(n2) = Len(r) + 1 /\ n2[Len(r) + 1] = this
  /\ \A j \in 1..Len(r) : n2[j] = r[j]

LEMMA TableGated ==
  ASSUME NEW nodes, Table(nodes), NEW call \in Call, NEW r, NEW m, Left(nodes, call, r, m),
         NEW this \in Entry, this.call = call
  PROVE  Added(Append(r, this), r, this)
<1>0. PICK n2 : n2 = Append(r, this)
  OBVIOUS
<1>1. r \in Seq(Entry) /\ Len(r) \in Nat /\ Len(r) < MaxNodes
  BY DEF Left
<1>2. /\ n2 \in Seq(Entry) /\ Len(n2) = Len(r) + 1 /\ n2[Len(r) + 1] = this
      /\ \A j \in 1..Len(r) : n2[j] = r[j]
  BY <1>0, <1>1, AppendProperties
<1>3. Len(n2) <= MaxNodes
  BY <1>1, <1>2, Sizes
<1>4. \A j \in 1..Len(r) : n2[j].call # call /\ m[j] \in 1..Len(nodes) /\ n2[j] = nodes[m[j]]
  BY <1>2 DEF Left
<1>5. ASSUME NEW i \in 1..Len(n2), NEW j \in 1..Len(n2), n2[i].call = n2[j].call, i < j
      PROVE  FALSE
  <2>1. i \in 1..Len(r) /\ (j \in 1..Len(r) \/ j = Len(r) + 1)
    BY <1>1, <1>2, <1>5
  <2>2. CASE j = Len(r) + 1
    BY <2>1, <2>2, <1>2, <1>4, <1>5
  <2>3. CASE j \in 1..Len(r)
    <3>1. m[i] < m[j] /\ m[i] \in 1..Len(nodes) /\ m[j] \in 1..Len(nodes)
      BY <2>1, <2>3, <1>4, <1>5 DEF Left
    <3>2. nodes[m[i]].call = nodes[m[j]].call
      BY <2>1, <2>3, <1>4, <1>5
    <3>3. m[i] = m[j]
      BY <3>1, <3>2 DEF Table
    <3>4. Len(nodes) \in Nat
      BY DEF Table
    <3>5. QED
      BY <3>1, <3>3, <3>4
  <2>4. QED
    BY <2>1, <2>2, <2>3
<1>6. \A i, j \in 1..Len(n2) : n2[i].call = n2[j].call => i = j
  <2>1. Len(n2) \in Nat
    BY <1>1, <1>2
  <2>2. \A i, j \in 1..Len(n2) : i < j \/ j < i \/ i = j
    BY <2>1
  <2>3. QED
    BY <1>5, <2>2
<1>7. QED
  BY <1>0, <1>2, <1>3, <1>6 DEF Table, Added

(* A station that the table forgets was followed by as many others.        *)
LEMMA Forgotten ==
  ASSUME NEW nodes, Table(nodes), Len(nodes) = MaxNodes, NEW call \in Call,
         \A k \in 1..Len(nodes) : nodes[k].call # call,
         NEW S \in SUBSET Call, IsFiniteSet(S), call \in S,
         \A j \in 2..MaxNodes : nodes[j].call \in S
  PROVE  Cardinality(S) >= MaxNodes
<1> DEFINE f == [j \in 1..MaxNodes |-> IF j = 1 THEN call ELSE nodes[j].call]
<1>0. MaxNodes \in Nat /\ 0 < MaxNodes
  BY Sizes
<1>1. f \in [1..MaxNodes -> S]
  <2>1. \A j \in 1..MaxNodes : j = 1 \/ j \in 2..MaxNodes
    BY <1>0
  <2>2. QED
    BY <2>1
<1>2. \A i, j \in 1..MaxNodes : f[i] = f[j] => i = j
  BY <1>0 DEF Table
<1> HIDE DEF f
<1>3. f \in Injection(1..MaxNodes, S)
  BY <1>1, <1>2 DEF Injection, IsInjective
<1>4. Cardinality(1..MaxNodes) = MaxNodes
  BY <1>0, FS_Interval
<1>5. Cardinality(1..MaxNodes) <= Cardinality(S)
  BY <1>3, FS_Injection
<1>6. Cardinality(S) \in Nat
  BY FS_CardinalityType
<1>7. QED
  BY <1>0, <1>4, <1>5, <1>6

\* What gating a station makes of the table and of the history.
TableNow(nodes, call, at) ==
  Append(Others(nodes, call), [call |-> call, at |-> at, age |-> 0])

GatedNow(h, call, at) ==
  [c \in Call |-> IF c = call THEN [at |-> at, age |-> 0, since |-> {}]
                 ELSE [h[c] EXCEPT !.since = @ \cup {call}]]

LEMMA GateOK ==
  ASSUME NEW nodes, Table(nodes), NEW h, GateInv(nodes, h), NEW call \in Call, NEW at \in Place,
         NEW n2, n2 = TableNow(nodes, call, at),
         NEW h2, h2 = GatedNow(h, call, at)
  PROVE  Table(n2) /\ GateInv(n2, h2)
<1>0. PICK this \in Entry : this = [call |-> call, at |-> at, age |-> 0] /\ this.call = call
  <2>1. 0 \in 0..NodeRate
    BY Sizes
  <2>2. [call |-> call, at |-> at, age |-> 0] \in Entry
    BY <2>1 DEF Entry
  <2>3. QED
    BY <2>2
<1>1. PICK r, m : r = Others(nodes, call) /\ Left(nodes, call, r, m)
  BY OthersAre
<1>2. /\ Table(n2) /\ Len(n2) = Len(r) + 1 /\ n2[Len(r) + 1] = this
      /\ \A j \in 1..Len(r) : n2[j] = r[j]
  <2>1. n2 = Append(r, this)
    BY <1>0, <1>1 DEF TableNow
  <2>2. Left(nodes, call, r, m)
    BY <1>1
  <2>3. Added(Append(r, this), r, this)
    BY <1>0, <2>2, TableGated
  <2>4. QED
    BY <1>0, <2>1, <2>3 DEF Added
<1>3. \A c \in Call : h[c] \in Gated /\ IsFiniteSet(h[c].since)
  BY DEF GateInv
<1>4. /\ h2[call] = [at |-> at, age |-> 0, since |-> {}]
      /\ \A c \in Call : c # call => h2[c] = [h[c] EXCEPT !.since = @ \cup {call}]
  BY DEF GatedNow
<1>5. ASSUME NEW c \in Call, c # call
      PROVE  /\ h2[c] \in Gated /\ h2[c].at = h[c].at /\ h2[c].age = h[c].age
             /\ h2[c].since = h[c].since \cup {call} /\ IsFiniteSet(h2[c].since)
             /\ Cardinality(h2[c].since) >= Cardinality(h[c].since)
  <2>1. /\ h2[c] \in Gated /\ h2[c].at = h[c].at /\ h2[c].age = h[c].age
        /\ h2[c].since = h[c].since \cup {call}
    <3>1. PICK e \in Gated : e = h[c]
      BY <1>3
    <3>2. PICK S \in SUBSET Call : S = e.since \cup {call}
      BY DEF Gated
    <3>3. h2[c] = [e EXCEPT !.since = S]
      BY <1>4, <1>5, <3>1, <3>2
    <3>4. QED
      BY <3>1, <3>2, <3>3 DEF Gated
  <2>2. /\ IsFiniteSet(h[c].since \cup {call})
        /\ Cardinality(h[c].since \cup {call}) =
             IF call \in h[c].since THEN Cardinality(h[c].since) ELSE Cardinality(h[c].since) + 1
        /\ Cardinality(h[c].since) \in Nat
    BY <1>3, FS_AddElement, FS_CardinalityType
  <2>3. QED
    BY <2>1, <2>2
<1>6. h2[call] \in Gated /\ IsFiniteSet(h2[call].since)
  BY <1>4, FS_EmptySet DEF Gated
<1>7. h2 \in [Call -> Gated] /\ \A c \in Call : IsFiniteSet(h2[c].since)
  <2>1. \A c \in Call : h2[c] \in Gated /\ IsFiniteSet(h2[c].since)
    BY <1>5, <1>6
  <2>2. DOMAIN h2 = Call /\ h2 = [c \in Call |-> h2[c]]
    BY DEF GatedNow
  <2>3. QED
    BY <2>1, <2>2, Zenon
<1>8. ASSUME NEW c \in Call, h2[c].at # "anywhere"
      PROVE  h2[c].age < NodeRate /\ (Known(n2, c, h2[c]) \/ Cardinality(h2[c].since) >= MaxNodes)
  <2>0. Len(r) \in Nat /\ Len(nodes) \in Nat /\ m \in [1..Len(r) -> 1..Len(nodes)]
    BY <1>1 DEF Left, Table
  <2>1. CASE c = call
    <3>1. h2[c].age = 0 /\ h2[c].at = at
      BY <1>4, <2>1
    <3>2. /\ Len(r) + 1 \in 1..Len(n2)
          /\ n2[Len(r) + 1].call = c /\ n2[Len(r) + 1].at = at /\ n2[Len(r) + 1].age = 0
          /\ (Len(r) + 1) + 1..Len(n2) = {}
      BY <1>0, <1>2, <2>0, <2>1
    <3>3. Known(n2, c, h2[c])
      BY <3>1, <3>2 DEF Known
    <3>4. QED
      BY <3>1, <3>3, Sizes
  <2>2. CASE c # call
    <3>1. /\ h2[c].at = h[c].at /\ h2[c].age = h[c].age /\ h2[c].since = h[c].since \cup {call}
          /\ Cardinality(h2[c].since) >= Cardinality(h[c].since)
          /\ IsFiniteSet(h2[c].since) /\ h2[c] \in Gated
      BY <1>5, <2>2
    <3>2. h[c].age < NodeRate /\ (Known(nodes, c, h[c]) \/ Cardinality(h[c].since) >= MaxNodes)
      BY <1>8, <3>1 DEF GateInv
    <3>3. CASE Cardinality(h[c].since) >= MaxNodes
      <4>1. Cardinality(h[c].since) \in Nat /\ Cardinality(h2[c].since) \in Nat
        BY <1>3, <3>1, FS_CardinalityType
      <4>2. QED
        BY <3>1, <3>2, <3>3, <4>1, Sizes
    <3>4. CASE Known(nodes, c, h[c])
      <4>1. PICK i \in 1..Len(nodes) :
              /\ nodes[i].call = c /\ nodes[i].at = h[c].at /\ nodes[i].age = h[c].age
              /\ \A j \in i + 1..Len(nodes) : nodes[j].call \in h[c].since
        BY <3>4 DEF Known
      <4>2. \/ \E j \in 1..Len(r) : m[j] = i
            \/ i = 1 /\ Len(nodes) = MaxNodes /\ \A k \in 1..Len(nodes) : nodes[k].call # call
        BY <1>1, <2>2, <4>1 DEF Left
      <4>3. ASSUME NEW j \in 1..Len(r), m[j] = i
            PROVE  Known(n2, c, h2[c])
        <5>1. j \in 1..Len(n2) /\ n2[j] = nodes[i]
          BY <1>1, <1>2, <2>0, <4>3 DEF Left
        <5>2. \A k \in j + 1..Len(n2) : n2[k].call \in h2[c].since
          <6>1. ASSUME NEW k \in j + 1..Len(n2)
                PROVE  n2[k].call \in h2[c].since
            <7>1. CASE k = Len(r) + 1
              BY <7>1, <1>0, <1>2, <3>1
            <7>2. CASE k \in 1..Len(r)
              <8>1. n2[k] = nodes[m[k]] /\ m[j] < m[k] /\ m[k] \in 1..Len(nodes)
                BY <7>2, <1>1, <1>2, <2>0 DEF Left
              <8>2. m[k] \in i + 1..Len(nodes)
                BY <8>1, <4>3, <2>0
              <8>3. QED
                BY <8>1, <8>2, <4>1, <3>1
            <7>3. QED
              BY <7>1, <7>2, <1>2, <2>0
          <6>2. QED
            BY <6>1
        <5>3. QED
          BY <3>1, <4>1, <5>1, <5>2 DEF Known
      <4>4. ASSUME i = 1, Len(nodes) = MaxNodes, \A k \in 1..Len(nodes) : nodes[k].call # call
            PROVE  Cardinality(h2[c].since) >= MaxNodes
        <5>1. \A j \in 2..MaxNodes : nodes[j].call \in h2[c].since
          BY <3>1, <4>1, <4>4
        <5>2. h2[c].since \in SUBSET Call /\ call \in h2[c].since
          BY <3>1 DEF Gated
        <5>3. QED
          BY <3>1, <4>4, <5>1, <5>2, Forgotten
      <4>5. QED
        BY <3>1, <3>2, <4>2, <4>3, <4>4
    <3>5. QED
      BY <3>2, <3>3, <3>4
  <2>3. QED
    BY <2>1, <2>2
<1>9. GateInv(n2, h2)
  BY <1>7, <1>8 DEF GateInv
<1>10. QED
  BY <1>2, <1>9

(* Time passes for the table and for the history alike.                    *)
LEMMA TickOK ==
  ASSUME NEW nodes, Table(nodes), NEW h, GateInv(nodes, h),
         NEW n2, n2 = Older(nodes),
         NEW h2, h2 = [c \in Call |-> IF h[c].age + 1 >= NodeRate THEN LongAgo
                                      ELSE [h[c] EXCEPT !.age = @ + 1]]
  PROVE  Table(n2) /\ GateInv(n2, h2)
<1>1. PICK n \in Nat : n = Len(nodes) /\ DOMAIN nodes = 1..n /\ n <= MaxNodes
  BY DEF Table
<1>2. \A i \in 1..n : nodes[i] \in Entry
  BY <1>1 DEF Table
<1>3. \A i \in 1..n : n2[i] = [nodes[i] EXCEPT !.age = Least(@ + 1, NodeRate)]
  BY <1>1 DEF Older
<1>4. DOMAIN n2 = 1..n
  BY <1>1 DEF Older
<1>5. ASSUME NEW i \in 1..n
      PROVE  /\ n2[i] \in Entry /\ n2[i].call = nodes[i].call /\ n2[i].at = nodes[i].at
             /\ n2[i].age = Least(nodes[i].age + 1, NodeRate)
  <2>1. nodes[i].age \in 0..NodeRate
    BY <1>2 DEF Entry
  <2>2. PICK x \in 0..NodeRate : x = Least(nodes[i].age + 1, NodeRate)
    BY <2>1, Sizes DEF Least
  <2>3. n2[i] = [nodes[i] EXCEPT !.age = x]
    BY <1>3, <2>2
  <2>4. QED
    BY <1>2, <2>2, <2>3 DEF Entry
<1>6. n2 \in Seq(Entry) /\ Len(n2) = n
  <2>1. n2 = [i \in 1..n |-> n2[i]]
    BY <1>1 DEF Older
  <2>2. \A i \in 1..n : n2[i] \in Entry
    BY <1>5
  <2>3. n2 \in [1..n -> Entry]
    <3> QED
      BY <2>1, <2>2, Zenon
  <2>4. QED
    BY <2>3, <1>4, IsASeq, LenProperties
<1>7. Table(n2)
  BY <1>1, <1>5, <1>6 DEF Table
<1>8. \A c \in Call : h[c] \in Gated /\ IsFiniteSet(h[c].since)
  BY DEF GateInv
<1>9. LongAgo \in Gated /\ LongAgo.at = "anywhere" /\ IsFiniteSet(LongAgo.since)
  BY Sizes, FS_EmptySet DEF LongAgo, Gated
<1>10. ASSUME NEW c \in Call
       PROVE  /\ h2[c] \in Gated /\ IsFiniteSet(h2[c].since)
              /\ h2[c].at # "anywhere" =>
                   /\ h2[c].at = h[c].at /\ h2[c].age = h[c].age + 1 /\ h[c].age + 1 < NodeRate
                   /\ h2[c].since = h[c].since
  <2>1. h[c].age \in Nat
    BY <1>8 DEF Gated
  <2>2. CASE h[c].age + 1 >= NodeRate
    BY <2>2, <1>9
  <2>3. CASE ~(h[c].age + 1 >= NodeRate)
    <3>1. h2[c] = [h[c] EXCEPT !.age = @ + 1] /\ h[c].age + 1 < NodeRate
      BY <2>1, <2>3, Sizes
    <3>2. QED
      BY <2>1, <3>1, <1>8 DEF Gated
  <2>4. QED
    BY <2>2, <2>3
<1>11. h2 \in [Call -> Gated]
  <2>1. DOMAIN h2 = Call /\ h2 = [c \in Call |-> h2[c]]
    OBVIOUS
  <2>2. \A c \in Call : h2[c] \in Gated
    BY <1>10
  <2>3. QED
    BY <2>1, <2>2, Zenon
<1>12. ASSUME NEW c \in Call, h2[c].at # "anywhere"
       PROVE  h2[c].age < NodeRate /\ (Known(n2, c, h2[c]) \/ Cardinality(h2[c].since) >= MaxNodes)
  <2>1. /\ h2[c].at = h[c].at /\ h2[c].age = h[c].age + 1 /\ h[c].age + 1 < NodeRate
        /\ h2[c].since = h[c].since /\ h[c].age \in Nat
    BY <1>8, <1>10, <1>12 DEF Gated
  <2>2. Known(nodes, c, h[c]) \/ Cardinality(h[c].since) >= MaxNodes
    BY <1>12, <2>1 DEF GateInv
  <2>3. CASE Known(nodes, c, h[c])
    <3>1. PICK i \in 1..n :
            /\ nodes[i].call = c /\ nodes[i].at = h[c].at /\ nodes[i].age = h[c].age
            /\ \A j \in i + 1..n : nodes[j].call \in h[c].since
      BY <1>1, <2>3 DEF Known
    <3>2. n2[i].age = h[c].age + 1
      BY <1>5, <2>1, <3>1, Sizes DEF Least
    <3>3. \A j \in i + 1..n : n2[j].call \in h2[c].since
      <4>1. ASSUME NEW j \in i + 1..n
            PROVE  n2[j].call \in h2[c].since
        <5>1. j \in 1..n
          OBVIOUS
        <5>2. n2[j].call = nodes[j].call
          BY <1>5, <5>1
        <5>3. QED
          BY <2>1, <3>1, <5>2
      <4>2. QED
        BY <4>1
    <3>4. n2[i].call = c /\ n2[i].at = h2[c].at
      BY <1>5, <2>1, <3>1
    <3>5. Known(n2, c, h2[c])
      BY <1>6, <2>1, <3>2, <3>3, <3>4 DEF Known
    <3>6. QED
      BY <2>1, <3>5
  <2>4. CASE Cardinality(h[c].since) >= MaxNodes
    BY <2>1, <2>4
  <2>5. QED
    BY <2>2, <2>3, <2>4
<1>13. GateInv(n2, h2)
  BY <1>10, <1>11, <1>12 DEF GateInv
<1>14. QED
  BY <1>7, <1>13
----------------------------------------------------------------------------
(* The invariant.                                                          *)
IInv ==
  /\ Wire(a, srv) /\ Table(a.nodes) /\ GateInv(a.nodes, last)
  /\ up \in 0..BeaconEvery /\ faults \in 0..MaxFaults

LEMMA InitOK == Init => IInv
<1>1. SUFFICES ASSUME Init PROVE IInv
  OBVIOUS
<1>2. a \in ClientType /\ a.tx = <<>> /\ a.nodes = <<>> /\ a.state = "off" /\ a.waited = 0
  <2>1. <<>> \in Seq(Part) /\ <<>> \in Seq(Entry)
    OBVIOUS
  <2>2. 0 \in 0..LastWait /\ FirstWait \in FirstWait..LastWait /\ 0 \in 0..Timeout + 1
        /\ 0 \in 0..BeaconEvery
    BY Sizes
  <2>3. a = [state |-> "off", wait |-> 0, backoff |-> FirstWait, left |-> 0, beacon |-> 0,
             tx |-> <<>>, nodes |-> <<>>, waited |-> 0]
    BY <1>1 DEF Init
  <2>4. QED
    BY <2>1, <2>2, <2>3 DEF ClientType
<1>3. Wire(a, srv)
  <2>1. srv = NoServer
    BY <1>1 DEF Init
  <2>2. Whole(srv.half, a.tx) /\ Allowed(srv, a.tx)
    BY <1>2, <2>1, EmptyWhole, NoServerIs DEF Allowed
  <2>3. a.backoff \in FirstWait..LastWait
    BY <1>2, ClientIs
  <2>4. a.waited <= a.backoff /\ Len(a.tx) <= TxSize
    BY <1>2, <2>3, Sizes
  <2>5. \A i \in 1..Len(srv.in) : srv.in[i] # "verified"
    BY <2>1, NoServerIs
  <2>6. QED
    BY <1>2, <2>1, <2>2, <2>4, <2>5, NoServerIs DEF Wire
<1>4. Table(a.nodes)
  BY <1>2, Sizes DEF Table
<1>5. GateInv(a.nodes, last)
  <2>1. last = [c \in Call |-> LongAgo]
    BY <1>1 DEF Init
  <2>2. LongAgo \in Gated /\ LongAgo.at = "anywhere" /\ IsFiniteSet(LongAgo.since)
    BY Sizes, FS_EmptySet DEF LongAgo, Gated
  <2>3. QED
    BY <2>1, <2>2 DEF GateInv
<1>6. up \in 0..BeaconEvery /\ faults \in 0..MaxFaults
  BY <1>1, Sizes DEF Init
<1>7. QED
  BY <1>3, <1>4, <1>5, <1>6 DEF IInv

LEMMA FaultOK ==
  ASSUME IInv, faults' = faults \/ Fault
  PROVE  faults' \in 0..MaxFaults
BY Sizes DEF IInv, Fault

(* What the server and the network do.                                     *)
LEMMA ServerOK ==
  ASSUME NEW c, NEW v, Wire(c, v), v.sock # "none", NEW w \in ServerType, w.sock # "none",
         w.half = v.half, w.garbled = v.garbled, w.early = v.early, v.verified => w.verified,
         w.verified \/ \A i \in 1..Len(w.in) : w.in[i] # "verified"
  PROVE  Wire(c, w)
<1>1. c.state # "off"
  BY NoServerIs DEF Wire
<1>2. Allowed(w, c.tx)
  BY DEF Wire, Allowed
<1>3. QED
  BY <1>1, <1>2 DEF Wire

LEMMA AcceptOK == IInv /\ Accept => IInv'
<1>1. SUFFICES ASSUME IInv, Accept PROVE IInv'
  OBVIOUS
<1>2. Wire(a, srv) /\ srv \in ServerType /\ srv.sock = "asked"
  BY <1>1 DEF IInv, Accept, Wire
<1>3. PICK in \in {<<>>, <<"banner">>} : srv' = [srv EXCEPT !.sock = "open", !.in = in]
  BY <1>1 DEF Accept
<1>4. in \in Seq({"banner", "verified", "unverified"}) /\ \A i \in 1..Len(in) : in[i] # "verified"
  <2>1. CASE in = <<>>
    BY <2>1
  <2>2. CASE in = <<"banner">>
    BY <2>2
  <2>3. QED
    BY <1>3, <2>1, <2>2
<1>5. /\ srv' \in ServerType /\ srv'.sock = "open" /\ srv'.in = in /\ srv'.half = srv.half
      /\ srv'.garbled = srv.garbled /\ srv'.early = srv.early /\ srv'.verified = srv.verified
  BY <1>2, <1>3, <1>4 DEF ServerType
<1>6. Wire(a, srv')
  BY <1>2, <1>4, <1>5, ServerOK
<1>7. QED
  BY <1>1, <1>6 DEF IInv, Accept

LEMMA AnswerOK == IInv /\ Answer => IInv'
<1>1. SUFFICES ASSUME IInv, Answer PROVE IInv'
  OBVIOUS
<1>2. /\ Wire(a, srv) /\ srv \in ServerType /\ srv.sock = "open" /\ ~srv.verified
      /\ srv.in \in Seq({"banner", "verified", "unverified"})
      /\ \A i \in 1..Len(srv.in) : srv.in[i] # "verified"
  BY <1>1 DEF IInv, Answer, Wire, ServerType
<1>3. faults' \in 0..MaxFaults
  BY <1>1, FaultOK DEF Answer
<1>4. CASE srv' = [srv EXCEPT !.in = Append(@, "verified"), !.verified = TRUE]
  <2>1. PICK in \in Seq({"banner", "verified", "unverified"}) : in = Append(srv.in, "verified")
    <3>1. PICK q \in Seq({"banner", "verified", "unverified"}) : q = srv.in
      BY <1>2
    <3>2. Append(q, "verified") \in Seq({"banner", "verified", "unverified"})
      BY AppendProperties
    <3>3. QED
      BY <3>1, <3>2
  <2>2. srv' = [srv EXCEPT !.in = in, !.verified = TRUE]
    BY <1>4, <2>1
  <2>3. /\ srv' \in ServerType /\ srv'.sock = "open" /\ srv'.half = srv.half
        /\ srv'.garbled = srv.garbled /\ srv'.early = srv.early /\ srv'.verified
    BY <1>2, <2>2 DEF ServerType
  <2>4. Wire(a, srv')
    BY <1>2, <2>3, ServerOK
  <2>5. QED
    BY <1>1, <1>3, <2>4 DEF IInv, Answer
<1>5. CASE srv' = [srv EXCEPT !.in = Append(@, "unverified"), !.login = FALSE]
  <2>1. PICK in \in Seq({"banner", "verified", "unverified"}) :
          in = Append(srv.in, "unverified") /\ \A i \in 1..Len(in) : in[i] # "verified"
    <3>1. PICK q \in Seq({"banner", "verified", "unverified"}) : q = srv.in
      BY <1>2
    <3>2. /\ Append(q, "unverified") \in Seq({"banner", "verified", "unverified"})
          /\ Len(Append(q, "unverified")) = Len(q) + 1
          /\ \A i \in 1..Len(q) : Append(q, "unverified")[i] = q[i]
          /\ Append(q, "unverified")[Len(q) + 1] = "unverified"
      BY AppendProperties
    <3>3. \A i \in 1..Len(q) + 1 : Append(q, "unverified")[i] # "verified"
      <4>1. \A i \in 1..Len(q) + 1 : i \in 1..Len(q) \/ i = Len(q) + 1
        OBVIOUS
      <4>2. \A i \in 1..Len(q) : Append(q, "unverified")[i] # "verified"
        BY <1>2, <3>1, <3>2
      <4>3. QED
        BY <4>1, <4>2, <3>2
    <3>4. QED
      BY <3>1, <3>2, <3>3
  <2>2. srv' = [srv EXCEPT !.in = in, !.login = FALSE]
    BY <1>5, <2>1
  <2>3. /\ srv' \in ServerType /\ srv'.sock = "open" /\ srv'.half = srv.half /\ srv'.in = in
        /\ srv'.garbled = srv.garbled /\ srv'.early = srv.early /\ srv'.verified = srv.verified
    BY <1>2, <2>2 DEF ServerType
  <2>4. Wire(a, srv')
    BY <1>2, <2>1, <2>3, ServerOK
  <2>5. QED
    BY <1>1, <1>3, <2>4 DEF IInv, Answer
<1>6. QED
  BY <1>1, <1>4, <1>5 DEF Answer

LEMMA BreakOK == IInv /\ Break => IInv'
<1>1. SUFFICES ASSUME IInv, Break PROVE IInv'
  OBVIOUS
<1>2. /\ Wire(a, srv) /\ srv \in ServerType /\ srv.sock # "none"
      /\ srv.verified \/ \A i \in 1..Len(srv.in) : srv.in[i] # "verified"
  BY <1>1 DEF IInv, Break, Wire
<1>3. PICK sock \in {"failed", "hung", "closed", "mute"} : srv' = [srv EXCEPT !.sock = sock]
  BY <1>1 DEF Break
<1>4. /\ srv' \in ServerType /\ srv'.sock = sock /\ srv'.half = srv.half /\ srv'.in = srv.in
      /\ srv'.garbled = srv.garbled /\ srv'.early = srv.early /\ srv'.verified = srv.verified
  BY <1>2, <1>3 DEF ServerType
<1>5. Wire(a, srv')
  BY <1>2, <1>4, ServerOK
<1>6. faults' \in 0..MaxFaults
  BY <1>1, FaultOK DEF Break
<1>7. QED
  BY <1>1, <1>5, <1>6 DEF IInv, Break
\* What BacksOff says of a step.
BackedOff == Failed => a'.waited > a.waited \/ a'.waited = LastWait

(* A connection that is given up keeps the table.                          *)
LEMMA GivenUp ==
  ASSUME IInv, NEW c \in ClientType, c.waited <= c.backoff, c.nodes = a.nodes,
         c.waited = a.waited, a' = Disconnected(c), srv' = NoServer,
         faults' = faults \/ Fault, UNCHANGED <<up, last>>
  PROVE  IInv' /\ BackedOff
<1>1. /\ Wire(a', srv') /\ a'.nodes = a.nodes
      /\ a'.waited > a.waited \/ a'.waited = LastWait
  BY DisconnectedOK
<1>2. faults' \in 0..MaxFaults
  BY FaultOK
<1>3. QED
  BY <1>1, <1>2 DEF IInv, BackedOff

LEMMA ClientOf ==
  ASSUME IInv
  PROVE  /\ Wire(a, srv) /\ a \in ClientType /\ srv \in ServerType /\ a.waited <= a.backoff
         /\ a.state = "off" => srv = NoServer /\ a.tx = <<>>
BY DEF IInv, Wire

LEMMA StartConnectOK == IInv /\ StartConnect => IInv' /\ BackedOff
<1>1. SUFFICES ASSUME IInv, StartConnect PROVE IInv' /\ BackedOff
  OBVIOUS
<1>2. /\ Wire(a, srv) /\ a \in ClientType /\ a.waited <= a.backoff /\ srv = NoServer /\ a.tx = <<>>
      /\ a.state = "off" /\ UNCHANGED <<up, last>>
  BY <1>1, ClientOf DEF StartConnect
<1>3. CASE /\ a' = [a EXCEPT !.state = "connecting", !.left = Timeout + 1]
           /\ srv' = [NoServer EXCEPT !.sock = "asked"] /\ UNCHANGED faults
  <2>1. Timeout + 1 \in 0..Timeout + 1
    BY Sizes
  <2>2. /\ a' \in ClientType /\ a'.state = "connecting" /\ a'.tx = <<>> /\ a'.nodes = a.nodes
        /\ a'.waited = a.waited /\ a'.backoff = a.backoff
    BY <1>2, <1>3, <2>1 DEF ClientType
  <2>3. /\ srv' \in ServerType /\ srv'.sock = "asked" /\ srv'.half = "none" /\ srv'.in = <<>>
        /\ ~srv'.garbled /\ ~srv'.early
    BY <1>3, NoServerIs DEF ServerType
  <2>4. Whole(srv'.half, a'.tx) /\ Allowed(srv', a'.tx)
    BY <2>2, <2>3, EmptyWhole DEF Allowed
  <2>5. Len(a'.tx) <= TxSize /\ \A i \in 1..Len(srv'.in) : srv'.in[i] # "verified"
    BY <2>2, <2>3, Sizes
  <2>6. Wire(a', srv')
    BY <1>2, <2>2, <2>3, <2>4, <2>5 DEF Wire
  <2>7. QED
    BY <1>1, <1>2, <1>3, <2>2, <2>6 DEF IInv, BackedOff, Failed
<1>4. CASE a' = Disconnected(a) /\ UNCHANGED srv /\ Fault
  BY <1>1, <1>2, <1>4, GivenUp
<1>5. QED
  BY <1>1, <1>3, <1>4 DEF StartConnect

LEMMA FailsOK == IInv /\ Fails => IInv' /\ BackedOff
<1>1. SUFFICES ASSUME IInv, Fails PROVE IInv' /\ BackedOff
  OBVIOUS
<1>2. a \in ClientType /\ a.waited <= a.backoff
  BY <1>1, ClientOf
<1>3. /\ a' = Disconnected(a) /\ srv' = NoServer /\ UNCHANGED <<up, last>>
      /\ faults' = faults \/ Fault
  BY <1>1 DEF Fails, Unless
<1>4. QED
  BY <1>1, <1>2, <1>3, GivenUp

LEMMA ConnectStepOK == IInv /\ Connect => IInv' /\ BackedOff
<1>1. SUFFICES ASSUME IInv, Connect PROVE IInv' /\ BackedOff
  OBVIOUS
<1>2. /\ Wire(a, srv) /\ a \in ClientType /\ a.waited <= a.backoff
      /\ a.state = "connecting" /\ UNCHANGED <<up, last>>
  BY <1>1, ClientOf DEF Connect
<1>3. ASSUME Unless(Writable), NEW n \in (IF Writable THEN 0..2 ELSE {0}),
             a' = Sent(LoggingIn(a), n), srv' = ReceiveAll(srv, Take(LoggingIn(a).tx, n))
      PROVE  IInv' /\ BackedOff
  <2>1. n \in 0..Len(LoggingIn(a).tx)
    <3>1. PICK p \in Seq(Part) : p = Parts("login") /\ Len(p) = 2
      BY PartsType, "login" \in Line DEF Line
    <3>2. a.tx = <<>> /\ Len(a.tx) = 0
      BY <1>2 DEF Wire
    <3>3. LoggingIn(a).tx = <<>> \o p
      <4> DEFINE d == [a EXCEPT !.state = "login", !.left = Timeout + 1]
      <4>1. d.tx = <<>> /\ d \in ClientType
        <5>1. Timeout + 1 \in 0..Timeout + 1
          BY Sizes
        <5>2. QED
          BY <1>2, <3>2, <5>1 DEF ClientType
      <4>2. LoggingIn(a) = TxQueue(d, "login")
        BY DEF LoggingIn
      <4> HIDE DEF d
      <4>3. TxQueue(d, "login") = [d EXCEPT !.tx = <<>> \o p]
        <5>1. ~(Len(d.tx) + 2 > TxSize)
          BY <4>1, Sizes
        <5>2. TxQueue(d, "login") = [d EXCEPT !.tx = d.tx \o Parts("login")]
          BY <5>1 DEF TxQueue
        <5>3. QED
          BY <3>1, <4>1, <5>2
      <4>4. QED
        BY <4>1, <4>2, <4>3 DEF ClientType
    <3>4. LoggingIn(a).tx = p
      BY <3>1, <3>3, ConcatEmptySeq
    <3>5. QED
      BY <3>1, <3>4
  <2>2. Wire(a', srv') /\ a'.state = "login" /\ a'.nodes = a.nodes
    BY <1>2, <1>3, <2>1, ConnectOK
  <2>3. faults' \in 0..MaxFaults
    BY <1>1, <1>3, FaultOK DEF Unless
  <2>4. QED
    BY <1>1, <1>2, <2>2, <2>3 DEF IInv, BackedOff, Failed
<1>4. CASE a' = Disconnected(a) /\ srv' = NoServer /\ UNCHANGED faults
  BY <1>1, <1>2, <1>4, GivenUp
<1>5. QED
  BY <1>1, <1>3, <1>4 DEF Connect

\* A visit of aprsis_service that reads k lines and sends n and m parts.
Visit(k, n, m) ==
  LET c1 == HandleAll(a, Take(srv.in, k))
      c2 == Sent(c1, n)
      due == c2.state = "ready" /\ c2.beacon = 0
      c3 == IF due THEN [TxQueue(c2, "beacon") EXCEPT !.beacon = BeaconEvery] ELSE c2
  IN /\ Sends(c1, n) /\ m <= IF due THEN Len(c3.tx) ELSE 0
     /\ IF c1.state = "off" THEN a' = c1 /\ srv' = NoServer
        ELSE IF c2.state = "login" /\ Late(c2)
        THEN a' = Disconnected(c2) /\ srv' = NoServer
        ELSE /\ a' = Sent(c3, m)
             /\ srv' = ReceiveAll([srv EXCEPT !.in = Drop(@, k)],
                                  Take(c1.tx, n) \o Take(c3.tx, m))

LEMMA SessionStepOK == IInv /\ Session => IInv' /\ BackedOff
<1>1. SUFFICES ASSUME IInv, Session PROVE IInv' /\ BackedOff
  OBVIOUS
<1>2. /\ Wire(a, srv) /\ a \in ClientType /\ a.waited <= a.backoff
      /\ a.state \in {"login", "ready"} /\ UNCHANGED <<up, last>>
      /\ up \in 0..BeaconEvery
  BY <1>1, ClientOf DEF Session, IInv
<1>3. CASE a' = Disconnected(a) /\ srv' = NoServer /\ UNCHANGED faults
  BY <1>1, <1>2, <1>3, GivenUp
<1>4. ASSUME NEW k \in (IF srv.in = <<>> THEN {0} ELSE 1..Len(srv.in)),
             NEW n \in 0..TxSize, NEW m \in 0..TxSize, Visit(k, n, m)
      PROVE  IInv' /\ BackedOff
  <2>a. PICK c1, c2, due, c3 :
          /\ c1 = HandleAll(a, Take(srv.in, k)) /\ c2 = Sent(c1, n)
          /\ due = (c2.state = "ready" /\ c2.beacon = 0)
          /\ c3 = IF due THEN [TxQueue(c2, "beacon") EXCEPT !.beacon = BeaconEvery] ELSE c2
    OBVIOUS
  <2>b. /\ Sends(c1, n) /\ m <= IF due THEN Len(c3.tx) ELSE 0
        /\ IF c1.state = "off" THEN a' = c1 /\ srv' = NoServer
           ELSE IF c2.state = "login" /\ Late(c2)
           THEN a' = Disconnected(c2) /\ srv' = NoServer
           ELSE /\ a' = Sent(c3, m)
                /\ srv' = ReceiveAll([srv EXCEPT !.in = Drop(@, k)], Take(c1.tx, n) \o Take(c3.tx, m))
    BY <1>4, <2>a DEF Visit
  <2>1. k \in 0..Len(srv.in)
    <3>1. Len(srv.in) \in Nat
      BY <1>2 DEF Wire, ServerType
    <3>2. QED
      BY <3>1
  <2>2. c1 \in After(a, srv)
    BY <1>2, <2>a, <2>1, HandleAllOK
  <2>3. /\ c1 \in ClientType /\ c1.nodes = a.nodes /\ c1.waited <= c1.backoff
        /\ c1.state \in {"off", "login", "ready"}
        /\ c1.state = "off" => c1.tx = <<>> /\ c1.waited = LastWait
        /\ c1.state = "login" => c1 = a
    BY <2>2 DEF After
  <2>4. n \in 0..Len(c1.tx)
    <3>1. Len(c1.tx) \in Nat
      BY <2>3, ClientIs
    <3>2. n = 0 \/ n \in 0..Len(c1.tx)
      BY <2>a, <2>b DEF Sends
    <3>3. QED
      BY <3>1, <3>2
  <2>5. faults' = faults \/ Fault
    BY <2>a, <2>b DEF Sends, Unless
  <2>6. faults' \in 0..MaxFaults
    BY <1>1, <2>5, FaultOK
  <2>7. PICK t \in Seq(Part) : t = Drop(c1.tx, n)
    <3>1. PICK q \in Seq(Part) : q = c1.tx
      BY <2>3, ClientIs
    <3>2. Drop(q, n) \in Seq(Part)
      BY <2>4, <3>1, TakeIs
    <3>3. QED
      BY <3>1, <3>2
  <2>8. c2 \in ClientType /\ c2 = [c1 EXCEPT !.tx = t]
    BY <2>a, <2>b, <2>3, <2>4, <2>7, SentIs
  <2>9. c2.state = c1.state /\ c2.nodes = c1.nodes /\ c2.waited = c1.waited /\ c2.backoff = c1.backoff
    BY <2>3, <2>8 DEF ClientType
  <2>10. CASE c1.state = "off"
    <3>1. a' = c1 /\ srv' = NoServer
      BY <2>a, <2>b, <2>10
    <3>2. Wire(c1, NoServer)
      <4>1. Whole(NoServer.half, c1.tx) /\ Allowed(NoServer, c1.tx) /\ Len(c1.tx) <= TxSize
        BY <2>3, <2>10, EmptyWhole, NoServerIs, Sizes DEF Allowed
      <4>2. \A i \in 1..Len(NoServer.in) : NoServer.in[i] # "verified"
        BY NoServerIs
      <4>3. QED
        BY <2>3, <2>10, <4>1, <4>2, NoServerIs DEF Wire
    <3>3. QED
      BY <1>1, <1>2, <2>3, <2>6, <2>10, <3>1, <3>2 DEF IInv, BackedOff
  <2>11. CASE c1.state # "off" /\ c2.state = "login" /\ Late(c2)
    <3>1. a' = Disconnected(c2) /\ srv' = NoServer
      BY <2>a, <2>b, <2>11
    <3>2. c2.waited <= c2.backoff /\ c2.nodes = a.nodes /\ c2.waited = a.waited
      BY <2>3, <2>9, <2>11
    <3>3. QED
      BY <1>1, <1>2, <2>5, <2>8, <3>1, <3>2, GivenUp
  <2>12. CASE c1.state # "off" /\ ~(c2.state = "login" /\ Late(c2))
    <3>1. PICK v : v = [srv EXCEPT !.in = Drop(@, k)]
      OBVIOUS
    <3>2. /\ Wire(c1, v) /\ c1.state \in {"login", "ready"} /\ (c1.state = "ready" => v.verified)
      <4>1. c1 = HandleAll(a, Take(srv.in, k)) /\ c1.state # "off"
        BY <2>a, <2>12
      <4>2. ReadBy(a, c1, v)
        BY <1>2, <2>1, <3>1, <4>1, ReadOK
      <4>3. QED
        BY <4>2 DEF ReadBy
    <3>3. due \in BOOLEAN /\ (due => v.verified)
      BY <2>a, <2>b, <2>9, <3>2
    <3>4. c3 = WithBeacon(Sent(c1, n), due)
      BY <2>a, <2>b DEF WithBeacon
    <3>5. m \in 0..Len(c3.tx)
      <4>1. Len(c2.tx) <= TxSize
        <5>1. c2.tx = t /\ Len(t) = Len(c1.tx) - n
          <6>1. PICK q \in Seq(Part) : q = c1.tx
            BY <2>3, ClientIs
          <6>2. n \in 0..Len(q)
            BY <2>4, <6>1
          <6>3. Len(Drop(q, n)) = Len(q) - n
            BY <6>2, TakeIs, Zenon
          <6>4. c2.tx = t
            BY <2>3, <2>8 DEF ClientType
          <6>5. QED
            BY <2>7, <6>1, <6>3, <6>4
        <5>2. Len(c1.tx) <= TxSize
          BY <3>2 DEF Wire
        <5>3. Len(c1.tx) \in Nat
          BY <2>3, ClientIs
        <5>4. QED
          BY <5>1, <5>2, <5>3, <2>4, Sizes
      <4>2. c3 \in ClientType
        <5>1. c3 = WithBeacon(c2, due)
          BY <2>a, <2>b DEF WithBeacon
        <5>2. WithBeacon(c2, due) \in ClientType
          BY <2>8, <3>3, <4>1, WithBeaconIs, Zenon
        <5>3. QED
          BY <5>1, <5>2
      <4>3. Len(c3.tx) \in Nat
        BY <4>2, ClientIs
      <4>4. QED
        BY <2>a, <2>b, <3>3, <4>3
    <3>6. /\ Wire(Sent(c3, m), ReceiveAll(v, Take(c1.tx, n) \o Take(c3.tx, m)))
          /\ Sent(c3, m).state = c1.state /\ Sent(c3, m).nodes = c1.nodes
      BY <2>4, <3>2, <3>3, <3>4, <3>5, SessionOK
    <3>7. a' = Sent(c3, m) /\ srv' = ReceiveAll(v, Take(c1.tx, n) \o Take(c3.tx, m))
      BY <2>a, <2>b, <2>12, <3>1
    <3>8. Wire(a', srv') /\ a'.nodes = a.nodes /\ a'.state # "off"
      BY <2>3, <2>12, <3>6, <3>7
    <3>9. QED
      BY <1>1, <1>2, <2>6, <3>8 DEF IInv, BackedOff, Failed
  <2>13. QED
    BY <2>10, <2>11, <2>12
<1>5. CASE ~(a' = Disconnected(a) /\ srv' = NoServer /\ UNCHANGED faults)
  <2>1. \E k \in (IF srv.in = <<>> THEN {0} ELSE 1..Len(srv.in)), n, m \in 0..TxSize : Visit(k, n, m)
    BY <1>1, <1>5, Zenon DEF Session, Visit
  <2>2. QED
    BY <1>4, <2>1, Zenon
<1>6. QED
  BY <1>3, <1>5
LEMMA TickStepOK == IInv /\ Tick => IInv' /\ BackedOff
<1>1. SUFFICES ASSUME IInv, Tick PROVE IInv' /\ BackedOff
  OBVIOUS
<1>2. Wire(a, srv) /\ a \in ClientType
  BY <1>1, ClientOf
<1>3. \A n \in Nat : \A k \in 0..n : Less(k) \in 0..n /\ Less(k) <= k
  BY DEF Less
<1>4. PICK nodes : nodes = Older(a.nodes)
  OBVIOUS
<1>5. a' = [a EXCEPT !.wait = Less(@), !.left = Less(@), !.beacon = Less(@), !.nodes = nodes]
  BY <1>1, <1>4 DEF Tick
<1>6. Table(nodes) /\ GateInv(nodes, last')
  BY <1>1, <1>4, TickOK DEF IInv, Tick
<1>7. nodes \in Seq(Entry)
  BY <1>6 DEF Table
<1>8. Less(a.wait) \in 0..LastWait /\ Less(a.left) \in 0..Timeout + 1 /\ Less(a.beacon) \in 0..BeaconEvery
      /\ Less(a.wait) <= a.wait
  <2>1. a.wait \in 0..LastWait /\ LastWait \in Nat
    BY <1>2, ClientIs, Sizes
  <2>2. a.left \in 0..Timeout + 1 /\ Timeout + 1 \in Nat
    BY <1>2, ClientIs, Sizes
  <2>3. a.beacon \in 0..BeaconEvery /\ BeaconEvery \in Nat
    BY <1>2, ClientIs, Sizes
  <2>4. QED
    BY <1>3, <2>1, <2>2, <2>3
<1>9. /\ a' \in ClientType /\ a'.tx = a.tx /\ a'.nodes = nodes /\ a'.state = a.state
      /\ a'.waited = a.waited /\ a'.backoff = a.backoff /\ a'.wait = Less(a.wait)
  BY <1>2, <1>5, <1>7, <1>8 DEF ClientType
<1>10. Wire(a', srv)
  BY <1>2, <1>9 DEF Wire
<1>11. up' \in 0..BeaconEvery /\ srv' = srv
  BY <1>1, Sizes DEF IInv, Tick, Least
<1>12. faults' \in 0..MaxFaults
  BY <1>1, FaultOK DEF Tick, Unless
<1>13. ~Failed
  <2>1. a.wait \in Nat /\ Less(a.wait) \in Nat
    BY <1>2, <1>8, ClientIs, Sizes
  <2>2. QED
    BY <1>8, <1>9, <2>1 DEF Failed
<1>14. QED
  BY <1>6, <1>9, <1>10, <1>11, <1>12, <1>13 DEF IInv, BackedOff

LEMMA GateStepOK ==
  ASSUME IInv, NEW call \in Call, NEW at \in Place, GateNode(call, at)
  PROVE  /\ IInv' /\ BackedOff
         /\ last[call].at = at => Cardinality(last[call].since) >= MaxNodes
<1>1. Wire(a, srv) /\ a \in ClientType /\ a.state = "ready" /\ Table(a.nodes) /\ GateInv(a.nodes, last)
  BY ClientOf DEF IInv, GateNode
<1>2. PICK nodes : nodes = TableNow(a.nodes, call, at)
  OBVIOUS
<1>3. PICK b : b = [a EXCEPT !.nodes = nodes]
  OBVIOUS
<1>4. a' = TxQueue(b, "position") /\ UNCHANGED <<srv, up, faults>>
  BY <1>2, <1>3 DEF GateNode, TableNow
<1>5. Table(nodes) /\ GateInv(nodes, last')
  <2>1. last' = GatedNow(last, call, at)
    BY DEF GateNode, GatedNow
  <2>2. QED
    BY <1>1, <1>2, <2>1, GateOK
<1>6. nodes \in Seq(Entry)
  BY <1>5 DEF Table
<1>7. /\ b \in ClientType /\ b.nodes = nodes /\ b.state = "ready" /\ b.tx = a.tx
      /\ b.waited = a.waited /\ b.backoff = a.backoff
  BY <1>1, <1>3, <1>6 DEF ClientType
<1>8. Wire(b, srv)
  BY <1>1, <1>7 DEF Wire
<1>9. srv.verified /\ "position" \in Line
  BY <1>7, <1>8 DEF Wire, Line
<1>10. PICK t : t = TxQueue(b, "position").tx
  OBVIOUS
<1>11. Wire(a', srv') /\ a' = [b EXCEPT !.tx = t]
  <2>1. /\ Wire(TxQueue(b, "position"), srv)
        /\ TxQueue(b, "position") = [b EXCEPT !.tx = TxQueue(b, "position").tx]
    BY <1>7, <1>8, <1>9, TxQueueOK
  <2>2. QED
    BY <1>4, <1>10, <2>1
<1>12. a'.nodes = nodes /\ a'.state = "ready"
  BY <1>7, <1>11 DEF ClientType
<1>13. IInv' /\ BackedOff
  BY <1>4, <1>5, <1>11, <1>12 DEF IInv, BackedOff, Failed
<1>14. ASSUME last[call].at = at
       PROVE  Cardinality(last[call].since) >= MaxNodes
  <2>1. last[call].at # "anywhere"
    BY <1>14, Sizes
  <2>2. last[call].age < NodeRate
        /\ (Known(a.nodes, call, last[call]) \/ Cardinality(last[call].since) >= MaxNodes)
    BY <1>1, <2>1 DEF GateInv
  <2>3. ~Known(a.nodes, call, last[call])
    <3>1. SUFFICES ASSUME NEW i \in 1..Len(a.nodes), a.nodes[i].call = call,
                          a.nodes[i].at = last[call].at, a.nodes[i].age = last[call].age
                   PROVE  FALSE
      BY DEF Known
    <3>2. i \in DOMAIN a.nodes
      BY <1>1 DEF Table
    <3>3. a.nodes[i].age >= NodeRate \/ a.nodes[i].at # at
      BY <3>1, <3>2 DEF GateNode, RateOk
    <3>4. last[call].age \in Nat
      BY <1>1 DEF GateInv, Gated
    <3>5. QED
      BY <1>14, <2>2, <3>1, <3>3, <3>4, Sizes
  <2>4. QED
    BY <2>2, <2>3
<1>15. QED
  BY <1>13, <1>14

\* What GateSpaced says of a step.
GatedRarely ==
  \A call \in Call, at \in Place :
    GateNode(call, at) /\ last[call].at = at => Cardinality(last[call].since) >= MaxNodes

(* Every step keeps the invariant, and BacksOff.                           *)
LEMMA StepOK == IInv /\ [Next]_vars => IInv' /\ BackedOff
<1>1. SUFFICES ASSUME IInv, [Next]_vars PROVE IInv' /\ BackedOff
  OBVIOUS
<1>2. ASSUME UNCHANGED a
      PROVE  BackedOff
  <2>1. a.wait \in Nat
    BY <1>1, ClientOf, ClientIs, Sizes
  <2>2. QED
    BY <1>2, <2>1 DEF BackedOff, Failed
<1>3. CASE Client
  BY <1>1, <1>3, StartConnectOK, FailsOK, ConnectStepOK, SessionStepOK DEF Client
<1>4. CASE Accept
  <2>1. UNCHANGED a
    BY <1>4 DEF Accept
  <2>2. QED
    BY <1>1, <1>2, <1>4, <2>1, AcceptOK
<1>5. CASE Answer
  <2>1. UNCHANGED a
    BY <1>5 DEF Answer
  <2>2. QED
    BY <1>1, <1>2, <1>5, <2>1, AnswerOK
<1>6. CASE Break
  <2>1. UNCHANGED a
    BY <1>6 DEF Break
  <2>2. QED
    BY <1>1, <1>2, <1>6, <2>1, BreakOK
<1>7. CASE Tick
  BY <1>1, <1>7, TickStepOK
<1>8. CASE \E call \in Call, at \in Place : GateNode(call, at)
  BY <1>1, <1>8, GateStepOK
<1>9. CASE UNCHANGED vars
  <2>1. IInv'
    BY <1>1, <1>9 DEF IInv, vars, Wire, Whole, Before, Open, Allowed, Table, GateInv, Known
  <2>2. QED
    BY <1>2, <1>9, <2>1 DEF vars
<1>10. QED
  BY <1>1, <1>3, <1>4, <1>5, <1>6, <1>7, <1>8, <1>9 DEF Next

LEMMA Invariant == Spec => []IInv
<1>1. IInv /\ [Next]_vars => IInv'
  BY StepOK
<1>2. QED
  BY <1>1, InitOK, PTL DEF Spec
----------------------------------------------------------------------------
(* The theorems.                                                           *)

\* The buffer of 3000 bytes, the table of 64 stations and the waits stay within their
\* limits, and without a connection nothing waits to be sent (tx_queue, rate_ok,
\* go_disconnected).
THEOREM Typed == Spec => []TypeOK
<1>1. IInv => TypeOK
  <2>1. SUFFICES ASSUME IInv PROVE TypeOK
    OBVIOUS
  <2>2. Wire(a, srv) /\ a \in ClientType /\ Table(a.nodes)
    BY <2>1, ClientOf DEF IInv
  <2>3. DOMAIN a.nodes = 1..Len(a.nodes)
    BY <2>2 DEF Table
  <2>4. a.nodes \in Seq([call : Call, at : Place, age : 0..NodeRate]) /\ Len(a.nodes) <= MaxNodes
        /\ \A i, j \in DOMAIN a.nodes : a.nodes[i].call = a.nodes[j].call => i = j
    BY <2>2, <2>3 DEF Table, Entry
  <2>5. a.tx \in Seq([line : Line, first : BOOLEAN])
    BY <2>2, ClientIs DEF Part
  <2>6. Len(a.tx) <= TxSize /\ (a.state \in {"off", "connecting"} => a.tx = <<>>)
        /\ (srv.sock = "none") = (a.state = "off")
    BY <2>2, NoServerIs DEF Wire
  <2>7. up \in 0..BeaconEvery /\ faults \in 0..MaxFaults
    BY <2>1 DEF IInv
  <2>8. QED
    BY <2>2, <2>4, <2>5, <2>6, <2>7, ClientIs DEF TypeOK
<1>2. QED
  BY <1>1, Invariant, PTL

\* However sends are cut and connections lost, the server gets whole lines, and nothing
\* but the login before it has verified it (tx_flush, tx_queue, go_disconnected,
\* aprsis_gate_node).
THEOREM StreamIsWhole == Spec => []StreamWhole
<1>1. IInv => StreamWhole
  BY DEF IInv, Wire, StreamWhole
<1>2. QED
  BY <1>1, Invariant, PTL

\* A station that stays where it is is gated again only after aprs_node_rate, or after
\* as many others as the table holds (rate_ok).
THEOREM GateIsSpaced == Spec => GateSpaced
<1>1. IInv /\ [Next]_vars => GatedRarely
  BY GateStepOK DEF GatedRarely
<1>2. Spec => [][GatedRarely]_vars
  BY <1>1, Invariant, PTL DEF Spec
<1>3. QED
  BY <1>2 DEF GateSpaced, GatedRarely

\* Each failure before a verified login makes the client wait longer than the one before
\* it, until the wait is the longest (go_disconnected, handle_server_line).
THEOREM Patient == Spec => BacksOff
<1>1. IInv /\ [Next]_vars => [BackedOff]_vars
  BY StepOK
<1>2. Spec => [][BackedOff]_vars
  BY <1>1, Invariant, PTL DEF Spec
<1>3. QED
  BY <1>2 DEF BacksOff, BackedOff
=============================================================================
