-------------------------- MODULE Backbone_proofs --------------------------
(***************************************************************************)
(* The session with the hub is sound for all timeouts and intervals, for   *)
(* any number of faults and of frames: datagrams may be lost, repeated or  *)
(* late, and either side may restart, as often as they like. The argument  *)
(* follows the keys: a session id is given once, an ephemeral key is used  *)
(* once, so whatever is in flight under a key belongs to one session.      *)
(***************************************************************************)
EXTENDS Backbone, SequenceTheorems, TLAPS

\* What is in r is in q: datagrams were lost, repeated or reordered.
Among(r, q) == \A j \in 1..Len(r) : \E i \in 1..Len(q) : r[j] = q[i]

\* A key that is, or was, of a session of the hub: its id names no other key.
Agrees(key, h) ==
  /\ key \in Key /\ key.sid \in 1..h.sid
  /\ \A s \in {h.pending, h.active} : s.key.sid = key.sid => s.key = key

\* Ids come from the counter.
HubOK(h) == h.pending.key.sid <= h.sid /\ h.active.key.sid <= h.sid

\* A datagram under a key of the client: the key is no newer than the last HELLO,
\* and its number no later than the last of the session.
UpOK(d, b, h) ==
  d.kind # "HELLO" =>
    /\ Agrees(d.key, h)
    /\ d.key.eph <= b.eph
    /\ b.state = "hello" => d.key.eph < b.eph
    /\ b.state = "up" /\ d.key = b.key => d.seq <= b.seq

\* A datagram of the hub: it welcomes to a key of its own, resets one it does not
\* hold, and sends frames only as sealed.
DownOK(d, h, sl) ==
  /\ d.kind = "WELCOME" => Agrees([eph |-> d.eph, sid |-> d.sid], h)
  /\ d.kind = "RESET" =>
       d.sid \in 1..h.sid /\ \A s \in {h.pending, h.active} : s.key.sid # d.sid
  /\ d.kind = "FRAME" => [key |-> d.key, seq |-> d.seq] \in sl

\* A frame that arrived: its key is no newer than the last HELLO, and under the
\* key of the session its number is not accepted again.
GotOK(f, b) ==
  /\ f.key.eph <= b.eph
  /\ b.state = "hello" => f.key.eph < b.eph
  /\ b.state = "up" /\ f.key = b.key => ~Accepts(b.win, f.seq)

Frames == [key : Key, seq : Nat]

ClientOK(b, h, got) ==
  /\ b \in ClientType /\ got \in Seq(Frames)
  /\ b.state = "up" => Agrees(b.key, h) /\ b.key.eph = b.eph
  /\ \A i \in 1..Len(b.up) : UpOK(b.up[i], b, h)
  /\ \A i \in 1..Len(got) : GotOK(got[i], b)

NetOK(q, h, sl) ==
  /\ q \in Seq(DownMsg)
  /\ \A i \in 1..Len(q) : DownOK(q[i], h, sl)

UsedType == [{"faults", "traffic", "calm"} -> Nat]

HubType == [last : Nat, sid : Nat, pending : HubSide, active : HubSide]

IInv ==
  /\ ClientOK(bb, hub, injected) /\ HubOK(hub) /\ NetOK(down, hub, sealed)
  /\ hub \in HubType /\ sealed \in SUBSET Frames
  /\ dns \in {"none", "busy", "done", "failed"}
  /\ used \in UsedType
----------------------------------------------------------------------------
(* Sequences of datagrams.                                                 *)
LEMMA RemovedAt ==
  ASSUME NEW S, NEW q \in Seq(S), NEW i \in 1..Len(q)
  PROVE  RemoveAt(q, i) \in Seq(S) /\ Among(RemoveAt(q, i), q)
<1> DEFINE a == SubSeq(q, 1, i - 1)
           z == SubSeq(q, i + 1, Len(q))
<1>1. Len(q) \in Nat /\ i \in Nat
  OBVIOUS
<1>2. /\ a \in Seq(S) /\ Len(a) = i - 1
      /\ \A j \in 1..Len(a) : a[j] = q[j]
  BY <1>1
<1>3. /\ z \in Seq(S) /\ Len(z) = Len(q) - i
      /\ \A j \in 1..Len(z) : z[j] = q[i + j]
  <2>1. \A k \in i + 1..Len(q) : q[k] \in S
    BY <1>1
  <2>2. /\ z \in Seq(S) /\ Len(z) = (IF i + 1 <= Len(q) THEN Len(q) - (i + 1) + 1 ELSE 0)
        /\ \A j \in 1..Len(q) - (i + 1) + 1 : z[j] = q[(i + 1) + j - 1]
    BY <1>1, <2>1, SubSeqProperties
  <2> HIDE DEF z
  <2>3. Len(z) = Len(q) - i
    BY <1>1, <2>2
  <2>4. ASSUME NEW j \in 1..Len(z)
        PROVE  z[j] = q[i + j]
    <3>1. j \in 1..Len(q) - (i + 1) + 1 /\ (i + 1) + j - 1 = i + j
      BY <1>1, <2>3
    <3>2. QED
      BY <2>2, <3>1
  <2>5. z \in Seq(S)
    BY <2>2
  <2>6. QED
    BY <2>3, <2>4, <2>5
<1> HIDE DEF a, z
<1>4. /\ a \o z \in Seq(S) /\ Len(a \o z) = Len(a) + Len(z)
      /\ \A j \in 1..Len(a) + Len(z) : (a \o z)[j] = IF j <= Len(a) THEN a[j] ELSE z[j - Len(a)]
  BY <1>2, <1>3, ConcatProperties
<1>5. ASSUME NEW j \in 1..Len(a \o z)
      PROVE  \E k \in 1..Len(q) : (a \o z)[j] = q[k]
  <2>1. CASE j <= i - 1
    <3>1. j \in 1..Len(a) /\ j \in 1..Len(q)
      BY <1>1, <1>2, <2>1
    <3>2. QED
      BY <1>2, <1>4, <3>1
  <2>2. CASE j > i - 1
    <3> DEFINE k == j - Len(a)
    <3>1. k \in 1..Len(z) /\ i + k \in 1..Len(q)
      BY <1>1, <1>2, <1>3, <1>4, <2>2
    <3>2. (a \o z)[j] = z[k]
      BY <1>1, <1>2, <1>4, <2>2, <3>1
    <3> HIDE DEF k
    <3>3. QED
      BY <1>3, <3>1, <3>2
  <2>3. QED
    BY <1>1, <2>1, <2>2
<1>6. QED
  BY <1>4, <1>5 DEF RemoveAt, Among, a, z

LEMMA Arrives ==
  ASSUME NEW S, NEW q \in Seq(S), NEW i \in 1..Len(q),
         NEW r \in InOrder(q, i) \cup OutOfOrder(q, i)
  PROVE  r \in Seq(S) /\ Among(r, q)
<1>1. Len(q) \in Nat /\ q # <<>>
  OBVIOUS
<1>2. CASE r = Tail(q)
  <2>1. r \in Seq(S) /\ Len(r) = Len(q) - 1 /\ \A j \in 1..Len(r) : r[j] = q[j + 1]
    BY <1>1, <1>2
  <2>2. \A j \in 1..Len(r) : j + 1 \in 1..Len(q)
    BY <1>1, <2>1
  <2>3. QED
    BY <2>1, <2>2 DEF Among
<1>3. CASE r = Append(Tail(q), Head(q))
  <2>1. /\ Tail(q) \in Seq(S) /\ Len(Tail(q)) = Len(q) - 1 /\ Head(q) \in S /\ Head(q) = q[1]
        /\ \A j \in 1..Len(Tail(q)) : Tail(q)[j] = q[j + 1]
    BY <1>1
  <2>2. /\ r \in Seq(S) /\ Len(r) = Len(q) /\ r[Len(q)] = Head(q)
        /\ \A j \in 1..Len(Tail(q)) : r[j] = Tail(q)[j]
    BY <1>1, <1>3, <2>1
  <2>3. ASSUME NEW j \in 1..Len(r)
        PROVE  \E k \in 1..Len(q) : r[j] = q[k]
    <3>1. CASE j = Len(q)
      BY <1>1, <2>1, <2>2, <3>1
    <3>2. CASE j < Len(q)
      <4>1. j \in 1..Len(Tail(q)) /\ j + 1 \in 1..Len(q)
        BY <1>1, <2>1, <2>2, <3>2
      <4>2. QED
        BY <2>1, <2>2, <4>1
    <3>3. QED
      BY <1>1, <2>2, <3>1, <3>2
  <2>4. QED
    BY <2>2, <2>3 DEF Among
<1>4. CASE r = RemoveAt(q, i)
  BY <1>4, RemovedAt
<1>5. QED
  BY <1>2, <1>3, <1>4 DEF InOrder, OutOfOrder

LEMMA Appended ==
  ASSUME NEW S, NEW q \in Seq(S), NEW d \in S
  PROVE  /\ Append(q, d) \in Seq(S) /\ Len(Append(q, d)) = Len(q) + 1
         /\ \A j \in 1..Len(Append(q, d)) :
              Append(q, d)[j] = d \/ (j \in 1..Len(q) /\ Append(q, d)[j] = q[j])
<1>1. Len(q) \in Nat
  OBVIOUS
<1>2. QED
  BY <1>1
----------------------------------------------------------------------------
(* The replay window: a number accepted, or turned away before, is never   *)
(* accepted again.                                                         *)
LEMMA WindowCloses ==
  ASSUME NEW w \in Window, NEW n \in Nat, Accepts(w, n)
  PROVE  /\ Accepted(w, n) \in Window /\ ~Accepts(Accepted(w, n), n)
         /\ \A k \in Nat : ~Accepts(w, k) => ~Accepts(Accepted(w, n), k)
<1>1. w.top \in Nat /\ w.bits \in SUBSET (0..Width - 1) /\ Width \in Nat \ {0}
  BY WidthAssumption DEF Window
<1>2. CASE n > w.top
  <2> DEFINE bits == {0} \cup {i \in 0..Width - 1 : i - (n - w.top) \in w.bits}
  <2>1. Accepted(w, n) = [top |-> n, bits |-> bits]
    BY <1>2 DEF Accepted
  <2>2. bits \in SUBSET (0..Width - 1)
    BY <1>1
  <2>3. Accepted(w, n).top = n /\ Accepted(w, n).bits = bits
    BY <2>1
  <2>4. ~Accepts(Accepted(w, n), n)
    BY <1>1, <2>3 DEF Accepts
  <2>5. ASSUME NEW k \in Nat, ~Accepts(w, k)
        PROVE  ~Accepts(Accepted(w, n), k)
    <3>1. k <= w.top /\ (k = 0 \/ w.top - k >= Width \/ (w.top - k) \in w.bits)
      BY <1>1, <2>5 DEF Accepts
    <3>2. CASE k = 0 \/ w.top - k >= Width
      BY <1>1, <1>2, <2>3, <3>1, <3>2 DEF Accepts
    <3>3. CASE (w.top - k) \in w.bits
      <4>1. (n - k) - (n - w.top) = w.top - k
        BY <1>1
      <4>2. n - k < Width => n - k \in bits
        BY <1>1, <1>2, <3>1, <3>3, <4>1
      <4> HIDE DEF bits
      <4>3. QED
        BY <1>1, <1>2, <2>3, <3>1, <4>2 DEF Accepts
    <3>4. QED
      BY <3>1, <3>2, <3>3
  <2>6. Accepted(w, n) \in Window
    BY <2>1, <2>2 DEF Window
  <2> HIDE DEF bits
  <2>7. QED
    BY <2>4, <2>5, <2>6
<1>3. CASE n <= w.top
  <2>1. n > 0 /\ w.top - n \in 0..Width - 1
    BY <1>1, <1>3 DEF Accepts
  <2>2. Accepted(w, n) = [top |-> w.top, bits |-> w.bits \cup {w.top - n}]
    BY <1>1, <1>3 DEF Accepted, Window
  <2>3. QED
    BY <1>1, <1>3, <2>1, <2>2 DEF Accepts, Window
<1>4. QED
  BY <1>1, <1>2, <1>3

LEMMA EmptyWindowIs == EmptyWindow \in Window
BY WidthAssumption DEF EmptyWindow, Window

(* The intervals and what is made of them are numbers.                     *)
LEMMA Numbers ==
  /\ BackoffMin \in Nat /\ BackoffMax \in Nat /\ BackoffMin <= BackoffMax /\ 0 < BackoffMin
  /\ WelcomeWait \in Nat /\ KeepaliveEvery \in Nat /\ StatusEvery \in Nat
  /\ NeighboursEvery \in Nat /\ Grace \in Nat /\ ResetPause \in Nat /\ LostAfter \in Nat
<1>1. \A n \in {HelloTries, WelcomeWait, BackoffMin, KeepaliveEvery, ResetWindow, SeqLimit} :
        n \in Nat /\ 0 < n
  <2>1. \A n \in {HelloTries, WelcomeWait, BackoffMin, KeepaliveEvery, ResetWindow, SeqLimit} :
          n \in Nat \ {0}
    BY SessionAssumption
  <2>2. \A n \in Nat \ {0} : n \in Nat /\ 0 < n
    OBVIOUS
  <2>3. QED
    BY <2>1, <2>2, Zenon
<1>2. \A n \in {StatusEvery, NeighboursEvery, Grace, ResetPause} : n \in Nat
  BY SessionAssumption
<1>3. BackoffMax \in Nat /\ BackoffMin <= BackoffMax
  BY SessionAssumption
<1>4. /\ BackoffMin \in Nat /\ 0 < BackoffMin /\ WelcomeWait \in Nat
      /\ KeepaliveEvery \in Nat
  BY <1>1
<1>5. /\ StatusEvery \in Nat /\ NeighboursEvery \in Nat /\ Grace \in Nat
      /\ ResetPause \in Nat
  BY <1>2
<1>6. LostAfter \in Nat
  BY <1>4, <1>5 DEF LostAfter
<1>7. QED
  BY <1>3, <1>4, <1>5, <1>6

LEMMA JitterIsNat ==
  ASSUME NEW b \in ClientType, NEW j \in Jitters(b)
  PROVE  j \in Nat
<1>1. b.backoff \in Nat
  BY Numbers DEF ClientType
<1>2. QED
  BY <1>1 DEF Jitters

(* What an attempt, a datagram sent and a report change of the client.     *)
LEMMA UpType ==
  ASSUME NEW b \in ClientType, NEW key \in Key, NEW w \in Window, NEW n \in 0..LostAfter + 1,
         NEW k \in BackoffMin..BackoffMax
  PROVE  [b EXCEPT !.state = "up", !.key = key, !.seq = 0, !.win = w, !.quiet = n,
                   !.backoff = k] \in ClientType
BY DEF ClientType

LEMMA OpenedType ==
  ASSUME NEW b \in ClientType, NEW w \in Window, NEW c, c = [b EXCEPT !.win = w, !.quiet = 0]
  PROVE  c \in ClientType
<1>1. 0 \in 0..LostAfter + 1
  BY Numbers
<1>2. QED
  BY <1>1 DEF ClientType

LEMMA AttemptType ==
  ASSUME NEW b \in ClientType, NEW c, c = [b EXCEPT !.tries = 0, !.state = "resolving"]
  PROVE  c \in ClientType
BY DEF ClientType

LEMMA NumberedType ==
  ASSUME NEW b \in ClientType, NEW n \in Nat, NEW q \in Seq(HelloMsg \cup UpMsg),
         NEW c, c = [b EXCEPT !.seq = n, !.up = q]
  PROVE  c \in ClientType
BY DEF ClientType

LEMMA TimerType ==
  ASSUME NEW b \in ClientType, NEW n \in Nat
  PROVE  /\ [b EXCEPT !.keepalive = n] \in ClientType
         /\ [b EXCEPT !.status = n] \in ClientType
         /\ [b EXCEPT !.neighbours = n] \in ClientType
BY DEF ClientType

LEMMA HelloType ==
  ASSUME NEW b \in ClientType, NEW q \in Seq(HelloMsg \cup UpMsg),
         NEW eph \in Nat, NEW ts \in Nat, NEW n \in Nat, NEW w \in 0..WelcomeWait
  PROVE  [b EXCEPT !.eph = eph, !.ts = ts, !.tries = n, !.state = "hello", !.deadline = w,
                   !.up = q] \in ClientType
BY DEF ClientType
----------------------------------------------------------------------------
(* The parts of backbone_service.                                          *)

(* A client without a session.                                             *)
LEMMA NoSessionOK ==
  ASSUME NEW h, NEW got, NEW b, ClientOK(b, h, got),
         NEW c \in ClientType, c.state \in {"idle", "resolving"}, c.eph = b.eph, c.up = b.up
  PROVE  ClientOK(c, h, got)
BY DEF ClientOK, UpOK, GotOK

(* A client in the same session.                                           *)
LEMMA SameSessionOK ==
  ASSUME NEW h, NEW got, NEW b, ClientOK(b, h, got),
         NEW c \in ClientType, c.state = b.state, c.eph = b.eph, c.up = b.up,
         c.key = b.key, c.seq = b.seq, c.win = b.win
  PROVE  ClientOK(c, h, got)
BY DEF ClientOK, UpOK, GotOK

LEMMA ForgetOK ==
  ASSUME NEW h, NEW got, NEW b, ClientOK(b, h, got), NEW c, c = Forget(b)
  PROVE  ClientOK(c, h, got) /\ c.state = "idle" /\ c.next = b.next
<1>1. b \in ClientType
  BY DEF ClientOK
<1>2. NoKey \in Key /\ EmptyWindow \in Window
  BY EmptyWindowIs DEF NoKey, Key
<1>3. c \in ClientType /\ c.state = "idle" /\ c.eph = b.eph /\ c.up = b.up /\ c.next = b.next
  BY <1>1, <1>2 DEF Forget, ClientType
<1>4. QED
  BY <1>3, NoSessionOK

LEMMA RetryLaterOK ==
  ASSUME NEW h, NEW got, NEW b, ClientOK(b, h, got), NEW j \in Jitters(b),
         NEW c, c = RetryLater(b, j)
  PROVE  ClientOK(c, h, got) /\ c.state = "idle"
<1> DEFINE f == Forget(b)
           n == IF 2 * b.backoff > BackoffMax THEN BackoffMax ELSE 2 * b.backoff
<1>1. ClientOK(f, h, got) /\ f.state = "idle"
  BY ForgetOK
<1>2. b \in ClientType /\ f \in ClientType
  BY <1>1 DEF ClientOK
<1>3. j \in Nat
  BY <1>2, JitterIsNat
<1>4. b.backoff \in BackoffMin..BackoffMax
  BY <1>2 DEF ClientType
<1>5. b.backoff + j \in Nat /\ n \in BackoffMin..BackoffMax
  BY <1>3, <1>4, Numbers
<1>6. c = [f EXCEPT !.next = b.backoff + j, !.backoff = n]
  BY DEF RetryLater
<1> HIDE DEF f, n
<1>7. c \in ClientType /\ c.state = f.state /\ c.eph = f.eph /\ c.up = f.up
  BY <1>2, <1>5, <1>6 DEF ClientType
<1>8. QED
  BY <1>1, <1>7, NoSessionOK

(* on_session: a BYE of the hub.                                           *)
LEMMA DismissedOK ==
  ASSUME NEW h, NEW got, NEW b, ClientOK(b, h, got), NEW j \in Jitters(b), NEW d,
         NEW c, c = Dismissed(b, d, j)
  PROVE  ClientOK(c, h, got)
<1> DEFINE f == Forget(b)
<1>1. ClientOK(f, h, got) /\ f.state = "idle" /\ f \in ClientType
  <2>1. ClientOK(f, h, got) /\ f.state = "idle"
    BY ForgetOK
  <2>2. QED
    BY <2>1 DEF ClientOK
<1>2. CASE c = [f EXCEPT !.backoff = BackoffMax, !.next = BackoffMax]
  <2> HIDE DEF f
  <2>1. BackoffMax \in Nat /\ BackoffMax \in BackoffMin..BackoffMax
    BY Numbers
  <2>2. c \in ClientType /\ c.state = f.state /\ c.eph = f.eph /\ c.up = f.up
    BY <1>1, <1>2, <2>1 DEF ClientType
  <2>3. QED
    BY <1>1, <2>2, NoSessionOK
<1>3. CASE c = RetryLater(b, j)
  BY <1>3, RetryLaterOK
<1>4. QED
  BY <1>2, <1>3 DEF Dismissed

(* on_reset.                                                               *)
LEMMA RestartedOK ==
  ASSUME NEW h, NEW got, NEW b, ClientOK(b, h, got), NEW c, c = Restarted(b)
  PROVE  ClientOK(c, h, got) /\ c.state = "idle"
<1> DEFINE f == Forget(b)
<1>1. ClientOK(f, h, got) /\ f.state = "idle"
  BY ForgetOK
<1>2. f \in ClientType /\ b \in ClientType
  BY <1>1 DEF ClientOK
<1>3. b.pause \in Nat /\ ResetPause \in 0..ResetPause
  BY <1>2, Numbers DEF ClientType
<1>4. c = [f EXCEPT !.next = b.pause, !.pause = ResetPause]
  BY DEF Restarted
<1> HIDE DEF f
<1>5. c \in ClientType /\ c.state = f.state /\ c.eph = f.eph /\ c.up = f.up
  BY <1>2, <1>3, <1>4 DEF ClientType
<1>6. QED
  BY <1>1, <1>5, NoSessionOK

(* start_attempt.                                                          *)
LEMMA ResolveOK ==
  ASSUME NEW h, NEW got, NEW b, ClientOK(b, h, got), NEW c, c = Resolve(b)
  PROVE  ClientOK(c, h, got) /\ c.state = "resolving"
<1> DEFINE f == Forget(b)
<1>1. ClientOK(f, h, got)
  BY ForgetOK
<1>2. f \in ClientType
  BY <1>1 DEF ClientOK
<1>3. c = [f EXCEPT !.tries = 0, !.state = "resolving"]
  BY DEF Resolve
<1> HIDE DEF f
<1>4. c \in ClientType
  BY <1>2, <1>3, AttemptType
<1>5. c.state = "resolving" /\ c.eph = f.eph /\ c.up = f.up
  BY <1>2, <1>3 DEF ClientType
<1>6. QED
  BY <1>1, <1>4, <1>5, NoSessionOK

(* A process that starts, or starts again.                                 *)
LEMMA StartedOK ==
  ASSUME NEW h, NEW got, NEW b, ClientOK(b, h, got), NEW c, NEW ts \in Nat,
         c = Started(b.eph, ts, b.up)
  PROVE  ClientOK(c, h, got)
<1>1. b \in ClientType
  BY DEF ClientOK
<1>2. /\ NoKey \in Key /\ EmptyWindow \in Window /\ b.eph \in Nat
      /\ b.up \in Seq(HelloMsg \cup UpMsg)
  BY <1>1, EmptyWindowIs DEF NoKey, Key, ClientType
<1>3. 0 \in 0..WelcomeWait /\ 0 \in 0..LostAfter + 1 /\ 0 \in 0..ResetPause
      /\ BackoffMin \in BackoffMin..BackoffMax
  BY Numbers
<1>4. c \in ClientType /\ c.state = "idle" /\ c.eph = b.eph /\ c.up = b.up
  BY <1>2, <1>3 DEF Started, ClientType
<1>5. QED
  BY <1>4, NoSessionOK

(* A tick for the timers.                                                  *)
LEMMA TimersType ==
  ASSUME NEW b \in ClientType, NEW n \in Nat, NEW k \in Nat, NEW st \in Nat, NEW nb \in Nat
  PROVE  [b EXCEPT !.next = n, !.keepalive = k, !.status = st, !.neighbours = nb] \in ClientType
BY DEF ClientType

LEMMA WaitsType ==
  ASSUME NEW b \in ClientType, NEW w \in 0..WelcomeWait, NEW p \in 0..ResetPause,
         NEW q \in 0..LostAfter + 1
  PROVE  [b EXCEPT !.deadline = w, !.pause = p, !.quiet = q] \in ClientType
BY DEF ClientType

LEMMA DownIsNat == \A n \in Nat : Down(n) \in Nat /\ Down(n) <= n
BY DEF Down

LEMMA LaterOK ==
  ASSUME NEW h, NEW got, NEW b, ClientOK(b, h, got), NEW c, c = Later(b)
  PROVE  ClientOK(c, h, got)
<1> DEFINE q == IF b.quiet > LostAfter THEN b.quiet ELSE b.quiet + 1
<1>1. b \in ClientType
  BY DEF ClientOK
<1>2. /\ b.next \in Nat /\ b.keepalive \in Nat /\ b.status \in Nat /\ b.neighbours \in Nat
      /\ b.deadline \in 0..WelcomeWait /\ b.pause \in 0..ResetPause
      /\ b.quiet \in 0..LostAfter + 1
  BY <1>1 DEF ClientType
<1>3. /\ Down(b.next) \in Nat /\ Down(b.keepalive) \in Nat /\ Down(b.status) \in Nat
      /\ Down(b.neighbours) \in Nat
  BY <1>2, DownIsNat
<1>4. Down(b.deadline) \in 0..WelcomeWait /\ Down(b.pause) \in 0..ResetPause
  BY <1>2, Numbers DEF Down
<1>5. q \in 0..LostAfter + 1
  BY <1>2, Numbers
<1>6. c = [b EXCEPT !.next = Down(b.next), !.deadline = Down(b.deadline),
                    !.pause = Down(b.pause), !.keepalive = Down(b.keepalive),
                    !.status = Down(b.status), !.neighbours = Down(b.neighbours), !.quiet = q]
  BY DEF Later
<1> HIDE DEF q
<1> DEFINE d == [b EXCEPT !.next = Down(b.next), !.keepalive = Down(b.keepalive),
                          !.status = Down(b.status), !.neighbours = Down(b.neighbours)]
<1>a. d \in ClientType
  BY <1>1, <1>3, TimersType
<1>b. [d EXCEPT !.deadline = Down(b.deadline), !.pause = Down(b.pause), !.quiet = q]
        \in ClientType
  <2> HIDE DEF d
  <2>1. QED
    BY <1>a, <1>4, <1>5, WaitsType
<1>7. c \in ClientType
  <2>1. c = [d EXCEPT !.deadline = Down(b.deadline), !.pause = Down(b.pause), !.quiet = q]
    BY <1>6
  <2>2. QED
    BY <2>1, <1>b, Zenon
<1>8. /\ c.state = b.state /\ c.eph = b.eph /\ c.up = b.up
      /\ c.key = b.key /\ c.seq = b.seq /\ c.win = b.win
  BY <1>1, <1>6 DEF ClientType
<1>9. QED
  BY <1>7, <1>8, SameSessionOK

(* send_session: the next number, under the session's key.                 *)
LEMMA SendSessionOK ==
  ASSUME NEW h, NEW got, NEW b, ClientOK(b, h, got), b.state = "up",
         NEW kind \in {"KEEPALIVE", "STATUS", "NEIGHBOURS", "OBSERVE", "BRIDGE", "BYE"},
         NEW c, c = SendSession(b, kind)
  PROVE  ClientOK(c, h, got) /\ c.state = "up"
<1> DEFINE d == [kind |-> kind, key |-> b.key, seq |-> b.seq + 1]
           q == Append(b.up, d)
<1>1. b \in ClientType /\ Agrees(b.key, h) /\ b.key.eph = b.eph
  BY DEF ClientOK
<1>2. b.seq \in Nat /\ b.key \in Key /\ b.eph \in Nat /\ b.up \in Seq(HelloMsg \cup UpMsg)
  BY <1>1 DEF ClientType
<1>3. d \in HelloMsg \cup UpMsg /\ d.key = b.key /\ d.seq = b.seq + 1
  BY <1>2 DEF UpMsg
<1>4. c = [b EXCEPT !.seq = b.seq + 1, !.up = q]
  BY DEF SendSession
<1> HIDE DEF d
<1>5. /\ q \in Seq(HelloMsg \cup UpMsg)
      /\ \A j \in 1..Len(q) : q[j] = d \/ (j \in 1..Len(b.up) /\ q[j] = b.up[j])
  BY <1>2, <1>3, Appended
<1> HIDE DEF q
<1>6. c \in ClientType
  <2>1. b.seq + 1 \in Nat
    BY <1>2
  <2>2. QED
    BY <1>1, <1>4, <1>5, <2>1, NumberedType
<1>7. /\ c.state = "up" /\ c.eph = b.eph /\ c.up = q /\ c.seq = b.seq + 1
      /\ c.key = b.key /\ c.win = b.win
  BY <1>1, <1>4 DEF ClientType
<1>8. ASSUME NEW i \in 1..Len(q)
      PROVE  UpOK(q[i], c, h)
  <2>1. CASE q[i] = d
    BY <1>1, <1>2, <1>3, <1>7, <2>1 DEF UpOK, Key
  <2>2. CASE i \in 1..Len(b.up) /\ q[i] = b.up[i]
    <3>1. UpOK(q[i], b, h)
      BY <2>2 DEF ClientOK
    <3>2. q[i] \in HelloMsg \cup UpMsg
      BY <1>2, <2>2
    <3>3. q[i].kind # "HELLO" => q[i].seq \in Nat
      BY <3>2 DEF HelloMsg, UpMsg
    <3>4. QED
      BY <1>2, <1>7, <3>1, <3>3 DEF UpOK
  <2>3. QED
    BY <1>5, <2>1, <2>2
<1>9. \A i \in 1..Len(got) : GotOK(got[i], c)
  BY <1>7 DEF ClientOK, GotOK
<1>10. QED
  BY <1>1, <1>6, <1>7, <1>8, <1>9 DEF ClientOK

LEMMA StatusOK ==
  ASSUME NEW h, NEW got, NEW b, ClientOK(b, h, got), b.state = "up", NEW c,
         c \in {Keepalive(b), Status(b), Neighbours(b)}
  PROVE  ClientOK(c, h, got) /\ c.state = "up"
<1>1. PICK kind \in {"KEEPALIVE", "STATUS", "NEIGHBOURS"} :
        LET s == SendSession(b, kind)
        IN c \in {[s EXCEPT !.keepalive = KeepaliveEvery], [s EXCEPT !.status = StatusEvery],
                  [s EXCEPT !.neighbours = NeighboursEvery]}
  BY DEF Keepalive, Status, Neighbours
<1> DEFINE s == SendSession(b, kind)
<1>2. ClientOK(s, h, got) /\ s.state = "up"
  BY SendSessionOK
<1>3. s \in ClientType
  BY <1>2 DEF ClientOK
<1> HIDE DEF s
<1>4. c \in {[s EXCEPT !.keepalive = KeepaliveEvery], [s EXCEPT !.status = StatusEvery],
             [s EXCEPT !.neighbours = NeighboursEvery]}
  BY <1>1 DEF s
<1>5. c \in ClientType
  BY <1>3, <1>4, Numbers, TimerType
<1>6. /\ c.state = s.state /\ c.eph = s.eph /\ c.up = s.up
      /\ c.key = s.key /\ c.seq = s.seq /\ c.win = s.win
  BY <1>3, <1>4 DEF ClientType
<1>7. QED
  BY <1>2, <1>5, <1>6, SameSessionOK

(* The reports of backbone_service.                                        *)
LEMMA ReportedOK ==
  ASSUME NEW h, NEW got, NEW b, ClientOK(b, h, got), b.state = "up", NEW c, c = Reported(b)
  PROVE  ClientOK(c, h, got)
<1> DEFINE k == IF b.keepalive = 0 THEN Keepalive(b) ELSE b
           s == IF Observe /\ k.status = 0 THEN Status(k) ELSE k
<1>1. ClientOK(k, h, got) /\ k.state = "up"
  BY StatusOK
<1>2. s \in {k, Status(k)} /\ c \in {s, Neighbours(s)}
  BY DEF Reported
<1> HIDE DEF k, s
<1>3. ClientOK(s, h, got) /\ s.state = "up"
  BY <1>1, <1>2, StatusOK
<1>4. QED
  BY <1>2, <1>3, StatusOK

(* The hub's copy of a datagram arrives, or is lost.                       *)
LEMMA FewerUpOK ==
  ASSUME NEW h, NEW got, NEW b, ClientOK(b, h, got),
         NEW r \in Seq(HelloMsg \cup UpMsg), Among(r, b.up), NEW c, c = [b EXCEPT !.up = r]
  PROVE  ClientOK(c, h, got)
<1>1. b \in ClientType
  BY DEF ClientOK
<1>2. c \in ClientType
  BY <1>1 DEF ClientType
<1>3. /\ c.state = b.state /\ c.eph = b.eph /\ c.up = r /\ c.key = b.key
      /\ c.seq = b.seq /\ c.win = b.win
  BY <1>1 DEF ClientType
<1>4. \A i \in 1..Len(r) : UpOK(r[i], b, h)
  BY DEF ClientOK, Among
<1>5. QED
  BY <1>2, <1>3, <1>4 DEF ClientOK, UpOK, GotOK

(* send_hello: what was sent under a key before is older than this one.    *)
LEMMA SendHelloOK ==
  ASSUME NEW h, NEW got, NEW b, ClientOK(b, h, got), b.state \in {"resolving", "hello"},
         NEW c, c = SendHello(b)
  PROVE  ClientOK(c, h, got)
<1> DEFINE d == [kind |-> "HELLO", eph |-> b.eph + 1, ts |-> b.ts + 1]
           q == Append(b.up, d)
<1>1. b \in ClientType
  BY DEF ClientOK
<1>2. b.eph \in Nat /\ b.ts \in Nat /\ b.tries \in Nat /\ b.up \in Seq(HelloMsg \cup UpMsg)
  BY <1>1 DEF ClientType
<1>3. d \in HelloMsg \cup UpMsg /\ d.kind = "HELLO"
  BY <1>2 DEF HelloMsg
<1>4. c = [b EXCEPT !.eph = b.eph + 1, !.ts = b.ts + 1, !.tries = b.tries + 1,
                    !.state = "hello", !.deadline = WelcomeWait, !.up = q]
  BY DEF SendHello
<1> HIDE DEF d
<1>5. /\ q \in Seq(HelloMsg \cup UpMsg)
      /\ \A j \in 1..Len(q) : q[j] = d \/ (j \in 1..Len(b.up) /\ q[j] = b.up[j])
  BY <1>2, <1>3, Appended
<1> HIDE DEF q
<1>6. c \in ClientType
  <2>1. b.eph + 1 \in Nat /\ b.ts + 1 \in Nat /\ b.tries + 1 \in Nat /\ WelcomeWait \in 0..WelcomeWait
    BY <1>2, Numbers
  <2>2. b \in ClientType /\ q \in Seq(HelloMsg \cup UpMsg)
    BY <1>1, <1>5
  <2>3. [b EXCEPT !.eph = b.eph + 1, !.ts = b.ts + 1, !.tries = b.tries + 1,
                  !.state = "hello", !.deadline = WelcomeWait, !.up = q] \in ClientType
    BY <2>1, <2>2, HelloType, Zenon
  <2>4. QED
    BY <1>4, <2>3, Zenon
<1>7. c.state = "hello" /\ c.eph = b.eph + 1 /\ c.up = q
  BY <1>1, <1>4 DEF ClientType
<1>8. ASSUME NEW i \in 1..Len(q)
      PROVE  UpOK(q[i], c, h)
  <2>1. CASE q[i] = d
    BY <1>3, <2>1 DEF UpOK
  <2>2. CASE i \in 1..Len(b.up) /\ q[i] = b.up[i]
    <3>1. UpOK(q[i], b, h)
      BY <2>2 DEF ClientOK
    <3>2. q[i].kind # "HELLO" => q[i].key.eph \in Nat
      BY <3>1 DEF UpOK, Agrees, Key
    <3>3. QED
      BY <1>2, <1>7, <3>1, <3>2 DEF UpOK
  <2>3. QED
    BY <1>5, <2>1, <2>2
<1>9. ASSUME NEW i \in 1..Len(got)
      PROVE  GotOK(got[i], c)
  <2>1. GotOK(got[i], b) /\ got[i] \in Frames
    BY DEF ClientOK
  <2>2. QED
    BY <1>2, <1>7, <2>1 DEF GotOK, Frames, Key
<1>10. QED
  BY <1>6, <1>7, <1>8, <1>9 DEF ClientOK

(* on_welcome: nothing was sent, and nothing arrived, under the new key.   *)
LEMMA WelcomedOK ==
  ASSUME NEW h, NEW got, NEW b, ClientOK(b, h, got), NEW d, Welcomes(b, d),
         Agrees([eph |-> d.eph, sid |-> d.sid], h), NEW c, c = Welcomed(b, d)
  PROVE  ClientOK(c, h, got)
<1> DEFINE key == [eph |-> b.eph, sid |-> d.sid]
           e == [b EXCEPT !.state = "up", !.key = key, !.seq = 0,
                          !.win = EmptyWindow, !.quiet = 0, !.backoff = BackoffMin]
           u == Keepalive(e)
           s == Status(u)
<1>1. b \in ClientType /\ b.state = "hello" /\ b.eph = d.eph
  BY DEF ClientOK, Welcomes
<1>2. key = [eph |-> d.eph, sid |-> d.sid] /\ Agrees(key, h) /\ key \in Key /\ key.eph = b.eph
  BY <1>1 DEF Agrees
<1>3. EmptyWindow \in Window /\ 0 \in 0..LostAfter + 1 /\ BackoffMin \in BackoffMin..BackoffMax
  BY EmptyWindowIs, Numbers
<1> HIDE DEF key
<1>4. e \in ClientType
  BY <1>1, <1>2, <1>3, UpType
<1>5. e.state = "up" /\ e.key = key /\ e.eph = b.eph /\ e.up = b.up
  BY <1>1 DEF ClientType
<1> HIDE DEF e
<1>6. ASSUME NEW i \in 1..Len(b.up)
      PROVE  UpOK(b.up[i], e, h)
  <2>1. UpOK(b.up[i], b, h) /\ b.eph \in Nat
    BY <1>1 DEF ClientOK, ClientType
  <2>2. b.up[i].kind # "HELLO" => b.up[i].key.eph \in Nat /\ b.up[i].key # key
    BY <1>1, <1>2, <2>1 DEF UpOK, Agrees, Key
  <2>3. QED
    BY <1>1, <1>5, <2>1, <2>2 DEF UpOK
<1>7. ASSUME NEW i \in 1..Len(got)
      PROVE  GotOK(got[i], e)
  <2>1. GotOK(got[i], b) /\ got[i] \in Frames /\ b.eph \in Nat
    BY <1>1 DEF ClientOK, ClientType
  <2>2. got[i].key # key
    BY <1>1, <1>2, <2>1 DEF GotOK, Frames, Key
  <2>3. QED
    BY <1>1, <1>5, <2>1, <2>2 DEF GotOK
<1>8. ClientOK(e, h, got)
  BY <1>2, <1>4, <1>5, <1>6, <1>7 DEF ClientOK
<1>9. ClientOK(u, h, got) /\ u.state = "up"
  BY <1>5, <1>8, StatusOK
<1>10. c = IF Observe THEN [s EXCEPT !.neighbours = Grace] ELSE u
  BY DEF Welcomed, e, key
<1> HIDE DEF u
<1>11. ClientOK(s, h, got) /\ s.state = "up"
  BY <1>9, StatusOK
<1>12. s \in ClientType
  BY <1>11 DEF ClientOK
<1> HIDE DEF s
<1>13. CASE c = [s EXCEPT !.neighbours = Grace]
  <2>1. c \in ClientType
    BY <1>12, <1>13, Numbers, TimerType
  <2>2. /\ c.state = s.state /\ c.eph = s.eph /\ c.up = s.up
        /\ c.key = s.key /\ c.seq = s.seq /\ c.win = s.win
    BY <1>12, <1>13 DEF ClientType
  <2>3. QED
    BY <1>11, <2>1, <2>2, SameSessionOK
<1>14. QED
  BY <1>9, <1>10, <1>13

(* on_session: a datagram under the session's key, with a new number.      *)
LEMMA OpenedOK ==
  ASSUME NEW h, NEW got, NEW b, ClientOK(b, h, got), NEW d, Opens(b, d), d.seq \in Nat,
         NEW more, more \in {got, Append(got, [key |-> d.key, seq |-> d.seq])},
         NEW c, c = Opened(b, d)
  PROVE  ClientOK(c, h, more) /\ c.state = "up"
<1> DEFINE f == [key |-> d.key, seq |-> d.seq]
           w == Accepted(b.win, d.seq)
<1>1. b \in ClientType /\ b.state = "up" /\ d.key = b.key /\ Accepts(b.win, d.seq)
  BY DEF ClientOK, Opens
<1>2. /\ b.win \in Window /\ b.key \in Key /\ b.eph \in Nat /\ b.key.eph = b.eph
      /\ got \in Seq(Frames)
  BY <1>1 DEF ClientOK, ClientType
<1>3. /\ w \in Window /\ ~Accepts(w, d.seq)
      /\ \A k \in Nat : ~Accepts(b.win, k) => ~Accepts(w, k)
  BY <1>1, <1>2, WindowCloses
<1>4. f \in Frames /\ f.key = b.key /\ f.seq = d.seq
  BY <1>1, <1>2 DEF Frames
<1>5. c = [b EXCEPT !.win = w, !.quiet = 0]
  BY DEF Opened
<1> HIDE DEF w, f
<1>6. c \in ClientType
  BY <1>1, <1>3, <1>5, OpenedType
<1>7. /\ c.state = "up" /\ c.eph = b.eph /\ c.up = b.up /\ c.key = b.key
      /\ c.seq = b.seq /\ c.win = w
  BY <1>1, <1>5 DEF ClientType
<1>8. /\ more \in Seq(Frames)
      /\ \A j \in 1..Len(more) : more[j] = f \/ (j \in 1..Len(got) /\ more[j] = got[j])
  <2>1. CASE more = got
    BY <1>2, <2>1
  <2>2. CASE more = Append(got, f)
    BY <1>2, <1>4, <2>2, Appended
  <2>3. QED
    BY <2>1, <2>2 DEF f
<1>9. GotOK(f, c)
  BY <1>2, <1>3, <1>4, <1>7 DEF GotOK
<1>10. ASSUME NEW j \in 1..Len(got)
       PROVE  GotOK(got[j], c)
  <2>1. GotOK(got[j], b) /\ got[j] \in Frames
    BY <1>2 DEF ClientOK
  <2>2. QED
    BY <1>1, <1>3, <1>7, <2>1 DEF GotOK, Frames
<1>11. \A j \in 1..Len(more) : GotOK(more[j], c)
  BY <1>8, <1>9, <1>10
<1>12. \A i \in 1..Len(b.up) : UpOK(b.up[i], c, h)
  BY <1>1, <1>7 DEF ClientOK, UpOK
<1>13. QED
  BY <1>1, <1>6, <1>7, <1>8, <1>11, <1>12 DEF ClientOK
----------------------------------------------------------------------------
(* The hub: its keys are those it had, none, or one of a new id.           *)
HubGoes(h, k) ==
  /\ k \in HubType /\ HubOK(k) /\ h.sid <= k.sid
  /\ \A s \in {k.pending, k.active} :
       s.key \in {h.pending.key, h.active.key, NoKey} \/ s.key.sid > h.sid

LEMMA AgreesOn ==
  ASSUME NEW h \in HubType, NEW k, HubGoes(h, k), NEW key, Agrees(key, h)
  PROVE  Agrees(key, k)
<1>1. /\ key \in Key /\ key.sid \in Nat /\ 1 <= key.sid /\ key.sid <= h.sid
      /\ h.sid \in Nat /\ k.sid \in Nat /\ h.sid <= k.sid
  BY DEF Agrees, HubGoes, HubType, Key
<1>2. ASSUME NEW s \in {k.pending, k.active}, s.key.sid = key.sid
      PROVE  s.key = key
  <2>1. s.key \in {h.pending.key, h.active.key, NoKey}
    BY <1>1, <1>2 DEF HubGoes
  <2>2. s.key # NoKey
    BY <1>1, <1>2 DEF NoKey
  <2>3. QED
    BY <1>2, <2>1, <2>2 DEF Agrees
<1>3. QED
  BY <1>1, <1>2 DEF Agrees

LEMMA DownOn ==
  ASSUME NEW h \in HubType, NEW k, HubGoes(h, k), NEW sl, NEW sm, sl \subseteq sm,
         NEW d, DownOK(d, h, sl)
  PROVE  DownOK(d, k, sm)
<1>1. h.sid \in Nat /\ k.sid \in Nat /\ h.sid <= k.sid
  BY DEF HubGoes, HubType
<1>2. d.kind = "WELCOME" => Agrees([eph |-> d.eph, sid |-> d.sid], k)
  BY AgreesOn DEF DownOK
<1>3. ASSUME d.kind = "RESET"
      PROVE  d.sid \in 1..k.sid /\ \A s \in {k.pending, k.active} : s.key.sid # d.sid
  <2>1. d.sid \in 1..h.sid /\ \A s \in {h.pending, h.active} : s.key.sid # d.sid
    BY <1>3 DEF DownOK
  <2>2. ASSUME NEW s \in {k.pending, k.active}
        PROVE  s.key.sid # d.sid
    <3>1. CASE s.key \in {h.pending.key, h.active.key}
      BY <2>1, <3>1
    <3>2. CASE s.key = NoKey
      BY <1>1, <2>1, <3>2 DEF NoKey
    <3>3. CASE s.key.sid > h.sid
      BY <1>1, <2>1, <3>3
    <3>4. QED
      BY <3>1, <3>2, <3>3 DEF HubGoes
  <2>3. QED
    BY <1>1, <2>1, <2>2
<1>4. QED
  BY <1>2, <1>3 DEF DownOK

LEMMA HubStepOK ==
  ASSUME NEW h \in HubType, NEW k, HubGoes(h, k), NEW b, NEW got, ClientOK(b, h, got),
         NEW sl, NEW sm, sl \subseteq sm, NEW q, NetOK(q, h, sl)
  PROVE  ClientOK(b, k, got) /\ NetOK(q, k, sm)
<1>1. \A key : Agrees(key, h) => Agrees(key, k)
  BY AgreesOn
<1>2. ClientOK(b, k, got)
  BY <1>1 DEF ClientOK, UpOK
<1>3. \A i \in 1..Len(q) : DownOK(q[i], k, sm)
  BY DownOn DEF NetOK
<1>4. QED
  BY <1>2, <1>3 DEF NetOK

(* The network.                                                            *)
LEMMA FewerDownOK ==
  ASSUME NEW h, NEW sl, NEW q, NetOK(q, h, sl), NEW r \in Seq(DownMsg), Among(r, q)
  PROVE  NetOK(r, h, sl)
BY DEF NetOK, Among

LEMMA MoreDownOK ==
  ASSUME NEW h, NEW sl, NEW q, NetOK(q, h, sl), NEW d \in DownMsg, DownOK(d, h, sl)
  PROVE  NetOK(Append(q, d), h, sl)
<1>1. q \in Seq(DownMsg)
  BY DEF NetOK
<1>2. QED
  BY <1>1, Appended DEF NetOK

LEMMA LingeringOK ==
  ASSUME IInv, NEW q \in Lingering
  PROVE  NetOK(q, hub, sealed)
<1>1. NetOK(<<>>, hub, sealed)
  BY DEF NetOK
<1>2. QED
  BY <1>1 DEF IInv, Lingering

LEMMA CountOK ==
  ASSUME used \in UsedType, NEW what \in {"faults", "traffic", "calm"}, Count(what)
  PROVE  used' \in UsedType
<1>1. used[what] + 1 \in Nat
  BY DEF UsedType
<1>2. QED
  BY <1>1 DEF Count, UsedType

LEMMA FaultOK ==
  ASSUME used \in UsedType, Fault
  PROVE  used' \in UsedType
BY CountOK DEF Fault

LEMMA ReadOK ==
  ASSUME IInv, NEW i \in 1..Len(down), Read(i)
  PROVE  NetOK(down', hub, sealed) /\ used' \in UsedType
<1>1. NetOK(down, hub, sealed) /\ down \in Seq(DownMsg) /\ used \in UsedType
  BY DEF IInv, NetOK
<1>2. down' \in InOrder(down, i) \cup OutOfOrder(down, i)
  BY DEF Read
<1>3. down' \in Seq(DownMsg) /\ Among(down', down)
  BY <1>1, <1>2, Arrives
<1>4. used' \in UsedType
  BY <1>1, FaultOK DEF Read
<1>5. QED
  BY <1>1, <1>3, <1>4, FewerDownOK

LEMMA ArriveOK ==
  ASSUME IInv, NEW i \in 1..Len(bb.up), Arrive(i)
  PROVE  ClientOK(bb', hub, injected) /\ used' \in UsedType
<1>1. ClientOK(bb, hub, injected) /\ bb.up \in Seq(HelloMsg \cup UpMsg) /\ used \in UsedType
  BY DEF IInv, ClientOK, ClientType
<1>2. PICK r \in InOrder(bb.up, i) \cup OutOfOrder(bb.up, i) : bb' = [bb EXCEPT !.up = r]
  BY DEF Arrive
<1>3. r \in Seq(HelloMsg \cup UpMsg) /\ Among(r, bb.up)
  BY <1>1, <1>2, Arrives
<1>4. used' \in UsedType
  BY <1>1, FaultOK DEF Arrive
<1>5. QED
  BY <1>1, <1>2, <1>3, <1>4, FewerUpOK
----------------------------------------------------------------------------
(* The actions of the client.                                              *)
Lookups == {"none", "busy", "done", "failed"}

LEMMA ClientStep ==
  ASSUME IInv, UNCHANGED <<hub, sealed>>, ClientOK(bb', hub, injected'),
         NetOK(down', hub, sealed), dns' \in Lookups, used' \in UsedType
  PROVE  IInv'
BY DEF IInv, Lookups

\* What IInv says of the parts.
LEMMA Parts ==
  ASSUME IInv
  PROVE  /\ ClientOK(bb, hub, injected) /\ HubOK(hub) /\ NetOK(down, hub, sealed)
         /\ hub \in HubType /\ dns \in Lookups /\ used \in UsedType
         /\ bb \in ClientType /\ down \in Seq(DownMsg) /\ injected \in Seq(Frames)
BY DEF IInv, Lookups, ClientOK, NetOK

LEMMA StartAttemptOK ==
  ASSUME IInv, StartAttempt
  PROVE  IInv'
<1>1. UNCHANGED <<hub, down, sealed, injected>>
  BY DEF StartAttempt
<1>2. CASE bb' = Resolve(bb) /\ dns' = "busy" /\ UNCHANGED used
  <2>1. ClientOK(bb', hub, injected)
    BY <1>2, Parts, ResolveOK
  <2>2. QED
    BY <1>1, <1>2, <2>1, Parts, ClientStep DEF Lookups
<1>3. ASSUME NEW j \in Jitters(bb), bb' = [RetryLater(bb, j) EXCEPT !.tries = 0],
             UNCHANGED dns, Fault
      PROVE  IInv'
  <2> DEFINE f == RetryLater(bb, j)
  <2>1. ClientOK(f, hub, injected) /\ f.state = "idle"
    BY Parts, RetryLaterOK
  <2>2. f \in ClientType
    BY <2>1 DEF ClientOK
  <2>3. bb' = [f EXCEPT !.tries = 0]
    BY <1>3
  <2> HIDE DEF f
  <2>4. bb' \in ClientType /\ bb'.state = f.state /\ bb'.eph = f.eph /\ bb'.up = f.up
    BY <2>2, <2>3 DEF ClientType
  <2>5. ClientOK(bb', hub, injected)
    BY <2>1, <2>4, NoSessionOK
  <2>6. QED
    BY <1>1, <1>3, <2>5, Parts, FaultOK, ClientStep
<1>4. QED
  BY <1>2, <1>3 DEF StartAttempt

LEMMA CheckResolvedOK ==
  ASSUME IInv, CheckResolved
  PROVE  IInv'
<1>1. UNCHANGED <<hub, down, sealed, injected, used>> /\ dns' = "none" /\ bb.state = "resolving"
  BY DEF CheckResolved
<1>2. ClientOK(bb', hub, injected)
  <2>1. CASE bb' = SendHello(bb)
    BY <1>1, <2>1, Parts, SendHelloOK
  <2>2. CASE \E j \in Jitters(bb) : bb' = RetryLater(bb, j)
    BY <2>2, Parts, RetryLaterOK
  <2>3. QED
    BY <2>1, <2>2 DEF CheckResolved
<1>3. QED
  BY <1>1, <1>2, Parts, ClientStep DEF Lookups

LEMMA TimerOK ==
  ASSUME IInv, Timer
  PROVE  IInv'
<1>1. UNCHANGED <<dns, hub, sealed, injected, used>> /\ (UNCHANGED down \/ down' \in Lingering)
  BY DEF Timer, HelloAgain, GiveUp, SessionLost, Rekey, Report
<1>2. NetOK(down', hub, sealed)
  BY <1>1, Parts, LingeringOK
<1>3. ASSUME NEW b, ClientOK(b, hub, injected), bb' = [Forget(b) EXCEPT !.next = 0]
      PROVE  ClientOK(bb', hub, injected)
  <2> DEFINE f == Forget(b)
  <2>1. ClientOK(f, hub, injected) /\ f.state = "idle"
    BY <1>3, ForgetOK
  <2>2. f \in ClientType
    BY <2>1 DEF ClientOK
  <2>3. bb' = [f EXCEPT !.next = 0]
    BY <1>3
  <2> HIDE DEF f
  <2>4. bb' \in ClientType /\ bb'.state = f.state /\ bb'.eph = f.eph /\ bb'.up = f.up
    BY <2>2, <2>3 DEF ClientType
  <2>5. QED
    BY <2>1, <2>4, NoSessionOK
<1>4. ClientOK(bb', hub, injected)
  <2>1. CASE HelloAgain
    BY <2>1, Parts, SendHelloOK DEF HelloAgain
  <2>2. CASE GiveUp
    BY <2>2, Parts, RetryLaterOK DEF GiveUp
  <2>3. CASE SessionLost
    BY <1>3, <2>3, Parts DEF SessionLost
  <2>4. CASE Rekey
    <3>1. ClientOK(SendSession(bb, "BYE"), hub, injected)
      BY <2>4, Parts, SendSessionOK DEF Rekey
    <3>2. QED
      BY <1>3, <2>4, <3>1 DEF Rekey
  <2>5. CASE Report
    BY <2>5, Parts, ReportedOK DEF Report
  <2>6. QED
    BY <2>1, <2>2, <2>3, <2>4, <2>5 DEF Timer
<1>5. QED
  BY <1>1, <1>2, <1>4, Parts, ClientStep

LEMMA MeshCallsOK ==
  ASSUME IInv, MeshCalls
  PROVE  IInv'
<1>1. UNCHANGED <<dns, hub, down, sealed, injected>> /\ bb.state = "up" /\ used' \in UsedType
  BY Parts, CountOK DEF MeshCalls
<1>2. ClientOK(bb', hub, injected)
  <2>1. CASE bb' = SendSession(bb, "OBSERVE")
    BY <1>1, <2>1, Parts, SendSessionOK
  <2>2. CASE bb' = SendSession(bb, "BRIDGE")
    BY <1>1, <2>2, Parts, SendSessionOK
  <2>3. CASE bb' = [bb EXCEPT !.status = 0]
    <3>1. bb' \in ClientType
      BY <2>3, Parts, TimerType
    <3>2. /\ bb'.state = bb.state /\ bb'.eph = bb.eph /\ bb'.up = bb.up
          /\ bb'.key = bb.key /\ bb'.seq = bb.seq /\ bb'.win = bb.win
      BY <2>3, Parts DEF ClientType
    <3>3. QED
      BY <3>1, <3>2, Parts, SameSessionOK
  <2>4. QED
    BY <2>1, <2>2, <2>3 DEF MeshCalls
<1>3. QED
  BY <1>1, <1>2, Parts, ClientStep

LEMMA RestartOK ==
  ASSUME IInv, Restart
  PROVE  IInv'
<1>1. UNCHANGED <<hub, sealed, injected>> /\ dns' = "none" /\ used' \in UsedType
  BY Parts, FaultOK DEF Restart
<1>2. NetOK(down', hub, sealed)
  BY LingeringOK DEF Restart
<1>3. ClientOK(bb', hub, injected)
  <2> PICK ts \in {bb.ts, Down(bb.ts)} :
         \/ bb' = Started(bb.eph, ts, bb.up)
         \/ bb.state = "up" /\ bb' = Started(bb.eph, ts, SendSession(bb, "BYE").up)
    BY DEF Restart
  <2>0. ts \in Nat
    BY Parts DEF Down, ClientOK, ClientType
  <2>1. CASE bb' = Started(bb.eph, ts, bb.up)
    BY <2>0, <2>1, Parts, StartedOK
  <2>2. CASE bb.state = "up" /\ bb' = Started(bb.eph, ts, SendSession(bb, "BYE").up)
    <3> DEFINE b == SendSession(bb, "BYE")
    <3>1. ClientOK(b, hub, injected)
      BY <2>2, Parts, SendSessionOK
    <3>2. b.eph = bb.eph
      BY Parts DEF SendSession, ClientType
    <3>3. bb' = Started(b.eph, ts, b.up)
      BY <2>2, <3>2
    <3> HIDE DEF b
    <3>4. QED
      BY <2>0, <3>1, <3>3, StartedOK
  <2>3. QED
    BY <2>1, <2>2
<1>4. QED
  BY <1>1, <1>2, <1>3, ClientStep DEF Lookups

LEMMA DatagramType ==
  ASSUME NEW d \in DownMsg
  PROVE  /\ d.kind \in {"ACK", "FRAME", "BYE"} => d.seq \in Nat /\ d.key \in Key
         /\ d.kind \in {"WELCOME", "RESET"} => d.sid \in Nat
BY DEF DownMsg

LEMMA ReceiveOK ==
  ASSUME IInv, NEW i \in 1..Len(down), Receive(i)
  PROVE  IInv'
<1> DEFINE d == down[i]
<1>1. DownOK(d, hub, sealed) /\ d \in DownMsg
  BY Parts DEF NetOK
<1> HIDE DEF d
<1>2. CASE OnWelcome(i, d)
  <2>1. d.kind = "WELCOME" /\ Read(i) /\ UNCHANGED <<dns, hub, sealed, injected>>
    BY <1>2 DEF OnWelcome
  <2>2. Agrees([eph |-> d.eph, sid |-> d.sid], hub)
    BY <1>1, <2>1 DEF DownOK
  <2>3. ClientOK(bb', hub, injected)
    BY <1>2, <2>2, Parts, WelcomedOK DEF OnWelcome
  <2>4. QED
    BY <2>1, <2>3, Parts, ReadOK, ClientStep
<1>3. CASE OnReset(i, d)
  <2>1. UNCHANGED <<dns, hub, sealed, injected>>
    BY <1>3 DEF OnReset
  <2>2. CASE bb' = Restarted(bb) /\ down' \in Lingering /\ UNCHANGED used
    <3>1. ClientOK(bb', hub, injected)
      BY <2>2, Parts, RestartedOK
    <3>2. QED
      BY <2>1, <2>2, <3>1, Parts, LingeringOK, ClientStep
  <2>3. CASE bb' = bb /\ Read(i)
    BY <2>1, <2>3, Parts, ReadOK, ClientStep
  <2>4. QED
    BY <1>3, <2>2, <2>3 DEF OnReset
<1>4. CASE OnOther(i, d)
  <2>1. UNCHANGED <<bb, dns, hub, sealed, injected>> /\ Read(i)
    BY <1>4 DEF OnOther
  <2>2. QED
    BY <2>1, Parts, ReadOK, ClientStep
<1>5. CASE OnAck(i, d)
  <2>1. /\ d.seq \in Nat /\ Opens(bb, d) /\ bb' = Opened(bb, d) /\ Read(i)
        /\ UNCHANGED <<dns, hub, sealed, injected>>
    BY <1>1, <1>5, DatagramType DEF OnAck
  <2>2. ClientOK(bb', hub, injected)
    BY <2>1, Parts, OpenedOK
  <2>3. QED
    BY <2>1, <2>2, Parts, ReadOK, ClientStep
<1>6. CASE OnFrame(i, d)
  <2> DEFINE b == Opened(bb, d)
  <2>1. /\ d.seq \in Nat /\ Opens(bb, d) /\ Read(i) /\ UNCHANGED <<dns, hub, sealed>>
        /\ injected' \in {injected, Append(injected, [key |-> d.key, seq |-> d.seq])}
        /\ bb' \in {b, SendSession(b, "OBSERVE")}
    BY <1>1, <1>6, DatagramType DEF OnFrame
  <2>2. ClientOK(b, hub, injected') /\ b.state = "up"
    BY <2>1, Parts, OpenedOK
  <2> HIDE DEF b
  <2>3. ClientOK(bb', hub, injected')
    BY <2>1, <2>2, SendSessionOK
  <2>4. QED
    BY <2>1, <2>3, Parts, ReadOK, ClientStep
<1>7. CASE OnBye(i, d)
  <2>1. UNCHANGED <<dns, hub, sealed, injected, used>> /\ down' \in Lingering
    BY <1>7 DEF OnBye
  <2>2. ClientOK(bb', hub, injected)
    BY <1>7, Parts, DismissedOK DEF OnBye
  <2>3. QED
    BY <2>1, <2>2, Parts, LingeringOK, ClientStep
<1>8. QED
  BY <1>2, <1>3, <1>4, <1>5, <1>6, <1>7 DEF Receive, d
----------------------------------------------------------------------------
(* The actions of the hub and of the network.                              *)
LEMMA SameKeys ==
  ASSUME IInv, NEW k \in HubType, k.sid = hub.sid,
         \A s \in {k.pending, k.active} : s.key \in {hub.pending.key, hub.active.key, NoKey}
  PROVE  HubGoes(hub, k)
<1>1. hub \in HubType /\ HubOK(hub) /\ hub.sid \in Nat
  BY Parts DEF HubType
<1>2. NoKey.sid = 0
  BY DEF NoKey
<1>3. \A s \in {k.pending, k.active} : s.key.sid <= k.sid
  BY <1>1, <1>2 DEF HubOK
<1>4. QED
  BY <1>1, <1>3 DEF HubGoes, HubOK

LEMMA NoSessionType == NoSession \in HubSide /\ NoSession.key = NoKey
<1>1. 0 \in 0..LostAfter + 1
  BY Numbers
<1>2. QED
  BY <1>1 DEF NoSession, NoKey, HubSide, Key

\* The hub changes its sessions and sends one datagram at most.
LEMMA HubStep ==
  ASSUME IInv, ClientOK(bb', hub, injected), HubGoes(hub, hub'), sealed \subseteq sealed',
         sealed' \in SUBSET Frames,
         down' = down \/ \E d \in DownMsg : down' = Append(down, d) /\ DownOK(d, hub', sealed'),
         UNCHANGED <<dns, injected>>, used' \in UsedType
  PROVE  IInv'
<1>1. ClientOK(bb', hub', injected) /\ NetOK(down, hub', sealed')
  BY Parts, HubStepOK
<1>2. NetOK(down', hub', sealed')
  BY <1>1, MoreDownOK
<1>3. QED
  BY <1>1, <1>2, Parts DEF IInv, HubGoes, Lookups

LEMMA UpDatagram ==
  ASSUME IInv, NEW i \in 1..Len(bb.up)
  PROVE  /\ bb.up[i] \in HelloMsg \cup UpMsg /\ UpOK(bb.up[i], bb, hub)
         /\ bb.up[i].kind = "HELLO" => bb.up[i].eph \in Nat /\ bb.up[i].ts \in Nat
         /\ bb.up[i].kind # "HELLO" => bb.up[i].key \in Key /\ bb.up[i].seq \in Nat
<1>1. bb.up[i] \in HelloMsg \cup UpMsg /\ UpOK(bb.up[i], bb, hub)
  BY Parts DEF ClientOK, ClientType
<1>2. QED
  BY <1>1 DEF HelloMsg, UpMsg

LEMMA PendingType ==
  ASSUME NEW h \in HubType, NEW t \in Nat, NEW n \in Nat, NEW p \in HubSide
  PROVE  [h EXCEPT !.last = t, !.sid = n, !.pending = p] \in HubType
BY DEF HubType

LEMMA HubHelloOK ==
  ASSUME IInv, NEW i \in 1..Len(bb.up), HubHello(i, bb.up[i])
  PROVE  IInv'
<1> DEFINE d == bb.up[i]
           key == [eph |-> d.eph, sid |-> hub.sid + 1]
           p == [NoSession EXCEPT !.key = key]
           w == [kind |-> "WELCOME", eph |-> key.eph, sid |-> key.sid]
<1>1. d.eph \in Nat /\ d.ts \in Nat /\ Arrive(i) /\ UNCHANGED <<dns, sealed, injected>>
  BY UpDatagram DEF HubHello
<1>2. ClientOK(bb', hub, injected) /\ used' \in UsedType
  BY <1>1, ArriveOK
<1>3. CASE UNCHANGED <<hub, down>>
  <2>1. HubGoes(hub, hub)
    BY Parts, SameKeys DEF HubType
  <2>2. QED
    BY <1>1, <1>2, <1>3, <2>1, Parts, HubStep DEF IInv
<1>4. CASE /\ hub' = [hub EXCEPT !.last = d.ts, !.sid = @ + 1, !.pending = p]
           /\ down' = Append(down, w)
  <2>1. hub \in HubType /\ hub.sid \in Nat /\ HubOK(hub) /\ hub.active \in HubSide
    BY Parts DEF HubType
  <2>2. key \in Key /\ key.eph = d.eph /\ key.sid = hub.sid + 1
    BY <1>1, <2>1 DEF Key
  <2> HIDE DEF d, key
  <2>3. p \in HubSide /\ p.key = key
    BY <2>2, NoSessionType DEF HubSide
  <2> HIDE DEF p
  <2>4. /\ hub' \in HubType /\ hub'.sid = hub.sid + 1 /\ hub'.pending = p
        /\ hub'.active = hub.active
    <3>1. hub' \in HubType
      <4>1. hub.sid + 1 \in Nat
        BY <2>1
      <4>2. [hub EXCEPT !.last = d.ts, !.sid = hub.sid + 1, !.pending = p] \in HubType
        BY <1>1, <2>1, <2>3, <4>1, PendingType, Zenon
      <4>3. QED
        BY <1>4, <4>2
    <3>2. QED
      BY <1>4, <2>1, <3>1 DEF HubType
  <2>5. HubGoes(hub, hub')
    <3>1. hub'.pending.key.sid = hub.sid + 1 /\ hub'.active.key.sid <= hub.sid
      BY <2>1, <2>2, <2>3, <2>4 DEF HubOK
    <3>2. hub'.active.key.sid \in Nat
      BY <2>1, <2>4 DEF HubSide, Key
    <3>3. QED
      BY <2>1, <2>4, <3>1, <3>2 DEF HubGoes, HubOK
  <2>6. Agrees(key, hub')
    <3>1. hub.active.key.sid \in Nat /\ hub.active.key.sid <= hub.sid
      BY <2>1 DEF HubSide, Key, HubOK
    <3>2. QED
      BY <2>1, <2>2, <2>3, <2>4, <3>1 DEF Agrees
  <2>7. w \in DownMsg /\ DownOK(w, hub', sealed')
    <3>1. key = [eph |-> w.eph, sid |-> w.sid] /\ w.kind = "WELCOME" /\ w \in DownMsg
      BY <2>2 DEF key, Key, DownMsg
    <3>2. QED
      BY <2>6, <3>1 DEF DownOK
  <2>8. QED
    BY <1>1, <1>2, <1>4, <2>5, <2>7, Parts, HubStep DEF IInv
<1>5. QED
  BY <1>3, <1>4 DEF HubHello

\* What the hub sends in answer is an ACK, or a RESET of a session it does not hold.
LEMMA ConfirmedType ==
  ASSUME IInv, NEW key, key \in {hub.pending.key, hub.active.key}, NEW h, h = Confirmed(key)
  PROVE  /\ h \in HubType /\ h.sid = hub.sid
         /\ \A s \in {h.pending, h.active} : s.key \in {hub.pending.key, hub.active.key, NoKey}
<1>1. hub \in HubType /\ hub.active \in HubSide /\ hub.pending \in HubSide
  BY Parts DEF HubType
<1>2. CASE h = [hub EXCEPT !.active = hub.pending, !.pending = NoSession]
  <2>1. h \in HubType
    BY <1>1, <1>2, NoSessionType DEF HubType
  <2>2. h.sid = hub.sid /\ h.active = hub.pending /\ h.pending = NoSession
    BY <1>1, <1>2 DEF HubType
  <2>3. QED
    BY <2>1, <2>2, NoSessionType
<1>3. CASE h = [hub EXCEPT !.active.quiet = 0]
  <2> DEFINE a == [hub.active EXCEPT !.quiet = 0]
  <2>1. 0 \in 0..LostAfter + 1
    BY Numbers
  <2>2. a \in HubSide /\ a.key = hub.active.key
    BY <1>1, <2>1 DEF HubSide
  <2>3. h = [hub EXCEPT !.active = a]
    BY <1>1, <1>3 DEF HubType
  <2> HIDE DEF a
  <2>4. h \in HubType /\ h.sid = hub.sid /\ h.active = a /\ h.pending = hub.pending
    BY <1>1, <2>2, <2>3 DEF HubType
  <2>5. QED
    BY <2>2, <2>4
<1>4. QED
  BY <1>2, <1>3 DEF Confirmed

\* The hub's next number, or the end of its session.
LEMMA ActiveType ==
  ASSUME NEW h \in HubType
  PROVE  /\ h.active \in HubSide /\ h.active.seq + 1 \in Nat
         /\ \A k : k \in {[h EXCEPT !.active = NoSession], [h EXCEPT !.active.seq = @ + 1]} =>
              /\ k \in HubType /\ k.sid = h.sid /\ k.pending = h.pending
              /\ k.active.key \in {h.active.key, NoKey}
<1> DEFINE a == [h.active EXCEPT !.seq = h.active.seq + 1]
<1>1. h.active \in HubSide /\ h.active.seq + 1 \in Nat
  BY DEF HubType, HubSide
<1>2. a \in HubSide /\ a.key = h.active.key
  BY <1>1 DEF HubSide
<1>3. [h EXCEPT !.active.seq = @ + 1] = [h EXCEPT !.active = a]
  BY DEF HubType
<1> HIDE DEF a
<1>4. ASSUME NEW k, k = [h EXCEPT !.active = a]
      PROVE  k \in HubType /\ k.sid = h.sid /\ k.pending = h.pending /\ k.active = a
  BY <1>2, <1>4 DEF HubType
<1>5. ASSUME NEW k, k = [h EXCEPT !.active = NoSession]
      PROVE  k \in HubType /\ k.sid = h.sid /\ k.pending = h.pending /\ k.active = NoSession
  BY <1>5, NoSessionType DEF HubType
<1>6. QED
  BY <1>1, <1>2, <1>3, <1>4, <1>5, NoSessionType

LEMMA HubSessionOK ==
  ASSUME IInv, NEW i \in 1..Len(bb.up), HubSession(i, bb.up[i])
  PROVE  IInv'
<1> DEFINE d == bb.up[i]
           h == Confirmed(d.key)
           ack == [kind |-> "ACK", key |-> d.key, seq |-> h.active.seq + 1]
<1>1. /\ d.kind # "HELLO" /\ d.key \in {hub.pending.key, hub.active.key} /\ Arrive(i)
      /\ UNCHANGED <<dns, sealed, injected>>
  BY DEF HubSession
<1>2. ClientOK(bb', hub, injected) /\ used' \in UsedType
  BY <1>1, ArriveOK
<1>3. d.key \in Key
  BY <1>1, UpDatagram
<1>4. /\ h \in HubType /\ h.sid = hub.sid
      /\ \A s \in {h.pending, h.active} : s.key \in {hub.pending.key, hub.active.key, NoKey}
  BY <1>1, ConfirmedType
<1>5. \/ hub' = [h EXCEPT !.active = NoSession] /\ UNCHANGED down
      \/ hub' = [h EXCEPT !.active.seq = @ + 1] /\ down' = Append(down, ack)
      \/ hub' = h /\ UNCHANGED down
  BY <1>1 DEF HubSession
<1> HIDE DEF h, d
<1>6. ack \in DownMsg /\ DownOK(ack, hub', sealed')
  BY <1>3, <1>4, ActiveType DEF DownMsg, DownOK
<1>7. /\ hub' \in HubType /\ hub'.sid = hub.sid
      /\ \A s \in {hub'.pending, hub'.active} : s.key \in {hub.pending.key, hub.active.key, NoKey}
  BY <1>4, <1>5, ActiveType
<1>8. HubGoes(hub, hub')
  BY <1>7, SameKeys
<1> HIDE DEF ack
<1>9. QED
  BY <1>1, <1>2, <1>5, <1>6, <1>8, Parts, HubStep DEF IInv

LEMMA HubUnknownOK ==
  ASSUME IInv, NEW i \in 1..Len(bb.up), HubUnknown(i, bb.up[i])
  PROVE  IInv'
<1> DEFINE d == bb.up[i]
           e == [kind |-> "RESET", sid |-> d.key.sid, seq |-> d.seq]
<1>1. /\ d.kind # "HELLO" /\ d.key \notin {hub.pending.key, hub.active.key} /\ Arrive(i)
      /\ down' \in {down, Append(down, e)} /\ UNCHANGED <<dns, hub, sealed, injected>>
  BY DEF HubUnknown
<1>2. ClientOK(bb', hub, injected) /\ used' \in UsedType
  BY <1>1, ArriveOK
<1>3. Agrees(d.key, hub) /\ d.key \in Key /\ d.seq \in Nat
  BY <1>1, UpDatagram DEF UpOK
<1>4. e \in DownMsg
  BY <1>3 DEF DownMsg, Key
<1>5. DownOK(e, hub, sealed)
  BY <1>1, <1>3 DEF DownOK, Agrees
<1>6. NetOK(down', hub, sealed)
  BY <1>1, <1>4, <1>5, Parts, MoreDownOK
<1>7. QED
  BY <1>1, <1>2, <1>6, Parts, ClientStep

LEMMA HubActsOK ==
  ASSUME IInv, HubFrame \/ HubBye \/ HubExpires \/ HubRestart
  PROVE  IInv'
<1> DEFINE f == [key |-> hub.active.key, seq |-> hub.active.seq + 1]
           e == [kind |-> "FRAME", key |-> f.key, seq |-> f.seq]
           bye(why) == [kind |-> "BYE", key |-> hub.active.key, seq |-> hub.active.seq + 1,
                        why |-> why]
<1>1. UNCHANGED <<bb, dns, injected>> /\ ClientOK(bb', hub, injected)
  BY Parts DEF HubFrame, HubBye, HubExpires, HubRestart
<1>2. used' \in UsedType
  <2>1. CASE HubFrame
    BY <2>1, Parts, CountOK DEF HubFrame
  <2>2. CASE ~HubFrame
    BY <2>2, Parts, FaultOK DEF HubBye, HubExpires, HubRestart
  <2>3. QED
    BY <2>1, <2>2
<1>3. /\ hub \in HubType /\ hub.active \in HubSide /\ hub.active.key \in Key
      /\ hub.active.seq + 1 \in Nat
  BY Parts, ActiveType DEF HubType, HubSide
<1>4. f \in Frames /\ e \in DownMsg /\ \A why \in {"shutdown", "not_allowed"} : bye(why) \in DownMsg
  BY <1>3 DEF Frames, DownMsg
<1>5. /\ e.kind = "FRAME" /\ f = [key |-> e.key, seq |-> e.seq]
      /\ \A why : bye(why).kind = "BYE"
  OBVIOUS
<1>6. /\ sealed' \in {sealed, sealed \cup {f}}
      /\ \/ UNCHANGED down
         \/ down' = Append(down, e) /\ sealed' = sealed \cup {f}
         \/ \E why \in {"shutdown", "not_allowed"} : down' = Append(down, bye(why))
  BY DEF HubFrame, HubBye, HubExpires, HubRestart
<1> HIDE DEF f, e, bye
<1>7. /\ hub' \in HubType /\ hub'.sid = hub.sid
      /\ \A s \in {hub'.pending, hub'.active} : s.key \in {hub.pending.key, hub.active.key, NoKey}
  <2>1. CASE HubRestart
    <3>1. hub' = [hub EXCEPT !.last = 0, !.pending = NoSession, !.active = NoSession]
      BY <2>1 DEF HubRestart
    <3>2. /\ hub' \in HubType /\ hub'.sid = hub.sid /\ hub'.pending = NoSession
          /\ hub'.active = NoSession
      BY <1>3, <3>1, NoSessionType DEF HubType
    <3>3. QED
      BY <3>2, NoSessionType
  <2>2. CASE ~HubRestart
    <3>1. hub' \in {[hub EXCEPT !.active = NoSession], [hub EXCEPT !.active.seq = @ + 1]}
      BY <2>2 DEF HubFrame, HubBye, HubExpires
    <3>2. QED
      BY <1>3, <3>1, ActiveType
  <2>3. QED
    BY <2>1, <2>2
<1>8. HubGoes(hub, hub')
  BY <1>7, SameKeys
<1>9. sealed \subseteq sealed' /\ sealed' \in SUBSET Frames
  BY <1>4, <1>6 DEF IInv
<1>10. down' = down \/ \E d \in DownMsg : down' = Append(down, d) /\ DownOK(d, hub', sealed')
  BY <1>4, <1>5, <1>6 DEF DownOK
<1>11. QED
  BY <1>1, <1>2, <1>8, <1>9, <1>10, HubStep

LEMMA LoseOK ==
  ASSUME IInv, Lose
  PROVE  IInv'
<1>1. UNCHANGED <<dns, hub, sealed, injected>> /\ used' \in UsedType
  BY Parts, FaultOK DEF Lose
<1>2. ASSUME NEW i \in 1..Len(bb.up), bb' = [bb EXCEPT !.up = RemoveAt(bb.up, i)], UNCHANGED down
      PROVE  IInv'
  <2>1. bb.up \in Seq(HelloMsg \cup UpMsg)
    BY Parts DEF ClientType
  <2>2. RemoveAt(bb.up, i) \in Seq(HelloMsg \cup UpMsg) /\ Among(RemoveAt(bb.up, i), bb.up)
    BY <2>1, RemovedAt
  <2>3. ClientOK(bb', hub, injected)
    BY <1>2, <2>2, Parts, FewerUpOK
  <2>4. QED
    BY <1>1, <1>2, <2>3, Parts, ClientStep
<1>3. ASSUME NEW i \in 1..Len(down), down' = RemoveAt(down, i), UNCHANGED bb
      PROVE  IInv'
  <2>1. down' \in Seq(DownMsg) /\ Among(down', down)
    BY <1>3, Parts, RemovedAt
  <2>2. QED
    BY <1>1, <1>3, <2>1, Parts, FewerDownOK, ClientStep
<1>4. QED
  BY <1>2, <1>3 DEF Lose

LEMMA ResolverOK ==
  ASSUME IInv, Resolver
  PROVE  IInv'
<1>1. UNCHANGED <<bb, hub, down, sealed, injected>> /\ dns' \in Lookups /\ used' \in UsedType
  BY Parts, FaultOK DEF Resolver, Lookups
<1>2. QED
  BY <1>1, Parts, ClientStep

LEMMA TickOK ==
  ASSUME IInv, Tick
  PROVE  IInv'
<1>1. UNCHANGED <<dns, sealed, injected>> /\ bb' = Later(bb) /\ down' \in Lingering
  BY DEF Tick, Lingering
<1>2. used' \in UsedType
  BY Parts, FaultOK, CountOK DEF Tick
<1>3. ClientOK(bb', hub, injected) /\ NetOK(down', hub, sealed)
  BY <1>1, Parts, LaterOK, LingeringOK
<1> DEFINE q == IF hub.active = NoSession \/ hub.active.quiet > LostAfter
                THEN hub.active.quiet ELSE hub.active.quiet + 1
           a == [hub.active EXCEPT !.quiet = q]
<1>4. hub \in HubType /\ hub.active \in HubSide /\ hub.active.quiet \in 0..LostAfter + 1
  BY Parts DEF HubType, HubSide
<1>5. q \in 0..LostAfter + 1
  BY <1>4, Numbers
<1>6. hub' = [hub EXCEPT !.active = a]
  BY <1>4 DEF Tick, HubType
<1> HIDE DEF q
<1>7. a \in HubSide /\ a.key = hub.active.key
  BY <1>4, <1>5 DEF HubSide
<1> HIDE DEF a
<1>8. hub' \in HubType /\ hub'.sid = hub.sid /\ hub'.pending = hub.pending /\ hub'.active = a
  BY <1>4, <1>6, <1>7 DEF HubType
<1>9. HubGoes(hub, hub')
  BY <1>7, <1>8, SameKeys
<1>10. ClientOK(bb', hub', injected) /\ NetOK(down', hub', sealed')
  BY <1>1, <1>3, <1>4, <1>9, HubStepOK
<1>11. QED
  BY <1>1, <1>2, <1>9, <1>10, Parts DEF IInv, HubGoes, Lookups
----------------------------------------------------------------------------
LEMMA IInvInit == Init => IInv
<1> SUFFICES ASSUME Init
             PROVE  IInv
  OBVIOUS
<1>1. NoKey \in Key /\ EmptyWindow \in Window /\ NoSession \in HubSide /\ NoSession.key = NoKey
  BY EmptyWindowIs, NoSessionType DEF NoKey, Key
<1>2. 0 \in 0..WelcomeWait /\ 0 \in 0..LostAfter + 1 /\ 0 \in 0..ResetPause
      /\ BackoffMin \in BackoffMin..BackoffMax
  BY Numbers
<1>3. bb \in ClientType /\ bb.state = "idle" /\ bb.up = <<>>
  BY <1>1, <1>2 DEF Init, Started, ClientType
<1>4. ClientOK(bb, hub, injected)
  BY <1>3 DEF Init, ClientOK
<1>5. hub \in HubType /\ HubOK(hub)
  BY <1>1 DEF Init, HubType, HubOK, NoKey
<1>6. NetOK(down, hub, sealed)
  BY DEF Init, NetOK
<1>7. QED
  BY <1>4, <1>5, <1>6 DEF Init, IInv, UsedType

LEMMA IInvNext == IInv /\ [Next]_vars => IInv'
<1> SUFFICES ASSUME IInv, [Next]_vars
             PROVE  IInv'
  OBVIOUS
<1>1. CASE UNCHANGED vars
  BY <1>1, Parts, ClientStep DEF vars
<1>2. ASSUME NEW i \in 1..Len(bb.up), HubReceive(i)
      PROVE  IInv'
  BY <1>2, HubHelloOK, HubSessionOK, HubUnknownOK DEF HubReceive
<1>3. CASE Rest
  BY <1>1, <1>3 DEF Rest
<1>4. QED
  BY <1>1, <1>2, <1>3, StartAttemptOK, CheckResolvedOK, TimerOK, MeshCallsOK, RestartOK,
     ReceiveOK, ResolverOK, HubActsOK, LoseOK, TickOK DEF Next
----------------------------------------------------------------------------
(* The channel: only on_frame delivers, and what it delivers was sealed    *)
(* and has not arrived before.                                             *)
LEMMA ChannelInit == Init => Channel!Init
BY DEF Init, Channel!Init

LEMMA OnFrameDelivers ==
  ASSUME IInv, NEW i \in 1..Len(down), OnFrame(i, down[i])
  PROVE  Channel!Deliver \/ UNCHANGED <<sealed, injected>>
<1> DEFINE d == down[i]
           f == [key |-> d.key, seq |-> d.seq]
<1>1. DownOK(d, hub, sealed) /\ d.kind = "FRAME" /\ Opens(bb, d) /\ UNCHANGED sealed
  BY Parts DEF NetOK, OnFrame
<1>2. f \in sealed
  BY <1>1 DEF DownOK
<1>3. ASSUME NEW j \in 1..Len(injected)
      PROVE  injected[j] # f
  <2>1. GotOK(injected[j], bb)
    BY Parts DEF ClientOK
  <2>2. QED
    BY <1>1, <2>1 DEF GotOK, Opens
<1>4. f \notin Channel!Arrived
  BY <1>3 DEF Channel!Arrived
<1>5. injected' \in {injected, Append(injected, f)}
  BY DEF OnFrame
<1> HIDE DEF f
<1>6. QED
  BY <1>1, <1>2, <1>4, <1>5 DEF Channel!Deliver

LEMMA ChannelNext == IInv /\ [Next]_vars => [Channel!Next]_<<sealed, injected>>
<1> SUFFICES ASSUME IInv, [Next]_vars
             PROVE  [Channel!Next]_<<sealed, injected>>
  OBVIOUS
<1>1. CASE HubFrame
  BY <1>1 DEF HubFrame, Channel!Next, Channel!Send
<1>2. ASSUME NEW i \in 1..Len(down), Receive(i)
      PROVE  [Channel!Next]_<<sealed, injected>>
  <2>1. CASE OnFrame(i, down[i])
    BY <2>1, OnFrameDelivers DEF Channel!Next
  <2>2. CASE ~OnFrame(i, down[i])
    BY <1>2, <2>2 DEF Receive, OnWelcome, OnReset, OnOther, OnAck, OnBye
  <2>3. QED
    BY <2>1, <2>2
<1>3. ASSUME NEW i \in 1..Len(bb.up), HubReceive(i)
      PROVE  UNCHANGED <<sealed, injected>>
  BY <1>3 DEF HubReceive, HubHello, HubSession, HubUnknown
<1>4. CASE \/ StartAttempt \/ CheckResolved \/ Timer \/ MeshCalls \/ Restart \/ Resolver
           \/ HubBye \/ HubExpires \/ HubRestart \/ Lose \/ Tick \/ Rest \/ UNCHANGED vars
  BY <1>4 DEF StartAttempt, CheckResolved, Timer, HelloAgain, GiveUp, SessionLost, Rekey, Report,
     MeshCalls, Restart, Resolver, HubBye, HubExpires, HubRestart, Lose, Tick, Rest, vars
<1>5. QED
  BY <1>1, <1>2, <1>3, <1>4 DEF Next

LEMMA ResetStep ==
  ASSUME IInv, NEW i \in 1..Len(down), OnReset(i, down[i]), bb.state = "up", bb'.state = "idle"
  PROVE  bb.key \notin {hub.pending.key, hub.active.key}
<1>1. DownOK(down[i], hub, sealed) /\ down[i].kind = "RESET"
  BY Parts DEF NetOK, OnReset
<1>2. Resets(bb, down[i])
  BY DEF OnReset
<1>3. QED
  BY <1>1, <1>2 DEF Resets, DownOK
----------------------------------------------------------------------------
(* What Spec guarantees, for every value of the constants.                 *)

(* The state of the session keeps its type (backbone.c).                   *)
THEOREM SessionTypeCorrect == Spec => []TypeOK
<1>1. IInv => TypeOK
  BY DEF IInv, ClientOK, NetOK, HubType, UsedType, Frames, TypeOK
<1>2. QED
  BY IInvInit, IInvNext, <1>1, PTL DEF Spec

(* A client that is up and the hub have made the same keys, whatever       *)
(* HELLOs and WELCOMEs were lost, repeated or late (on_welcome).           *)
THEOREM KeysAlwaysAgree == Spec => []KeysAgree
<1>1. IInv => KeysAgree
  BY DEF IInv, ClientOK, Agrees, KeysAgree
<1>2. QED
  BY IInvInit, IInvNext, <1>1, PTL DEF Spec

(* No number is used twice under one key (send_session).                   *)
THEOREM NumbersAlwaysFresh == Spec => []NumbersFresh
<1>1. IInv => NumbersFresh
  BY DEF IInv, ClientOK, UpOK, NumbersFresh
<1>2. QED
  BY IInvInit, IInvNext, <1>1, PTL DEF Spec

(* A RESET, however old, ends only a session that the hub does not hold    *)
(* (on_reset).                                                             *)
THEOREM ResetsAreJustified == Spec => ResetJustified
<1>1. IInv /\ [Next]_vars =>
        [\A i \in 1..Len(down) :
           OnReset(i, down[i]) /\ bb.state = "up" /\ bb'.state = "idle"
             => bb.key \notin {hub.pending.key, hub.active.key}]_vars
  BY ResetStep
<1>2. QED
  BY IInvInit, IInvNext, <1>1, PTL DEF Spec, ResetJustified

(* The session implements the channel: frames arrive at most once and only *)
(* as sent (bb_replay_check, on_frame).                                    *)
THEOREM SessionImplementsChannel == Spec => ImplementsChannel
<1>1. QED
  BY IInvInit, IInvNext, ChannelInit, ChannelNext, PTL DEF Spec, ImplementsChannel, Channel!Spec
=============================================================================
