------------------------------ MODULE Ingress ------------------------------
(***************************************************************************)
(* How a frame reaches the dedup ring of a TX node: from its own radio,    *)
(* from the datagrams of remote ears (link.c) over a network that loses,   *)
(* copies, delays and reorders them, and from the hub through the token    *)
(* bucket of on_frame (backbone.c). One iteration of main's loop takes the *)
(* three in turn. Tokens are counted in Minute-ths.                        *)
(***************************************************************************)
EXTENDS SeenRing, FiniteSets

CONSTANTS
  Garbled,    \* a frame pkt_parse refuses
  TsWindow,   \* LINK_TS_WINDOW
  Skew,       \* how far the clocks of the ears may be off
  Minute,     \* ticks of a minute
  Rates, Top, \* values of backbone_rate, and the highest
  MaxTime, MaxSent, MaxSock, MaxAdmitted  \* bounds of the runs

ASSUME IngressAssumption ==
  /\ Minute \in Nat \ {0} /\ TsWindow \in Nat /\ \A s \in Skew : s \in Int
  /\ Top \in Rates /\ \A r \in Rates : r \in Nat /\ r <= Top
  /\ MaxTime \in Nat \ {0} /\ MaxAdmitted \in Nat

VARIABLES
  clock,      \* the time at the TX node
  loop,       \* where main's loop is: "radio", "link" or "hub"
  net,        \* every datagram the ears sent
  sock,       \* what lies in the UDP socket
  rate,       \* backbone_rate
  bucket,     \* the token bucket: tokens and tokens_ms
  admitted,   \* history: when each frame of the hub was let through
  acted       \* history: the datagrams whose frame was new, when and at which record

linkVars == <<net, sock, acted>>
hubVars == <<rate, bucket, admitted>>
ingressVars == <<ring, answer, clock, loop, linkVars, hubVars>>

Frame == Hash \cup {Garbled}

----------------------------------------------------------------------------
\* mesh_on_recv as far as the ring: a frame that does not parse never gets there.
OnRecv(f) ==
  IF f = Garbled THEN UNCHANGED <<ring, answer>> ELSE \E src \in Source : CheckAndAdd(f, src)

New(f) == f # Garbled /\ ~Seen(ring, f)

\* Step 1 of the loop: at most one packet of the own radio.
OwnRadio ==
  /\ loop = "radio" /\ loop' = "link"
  /\ UNCHANGED <<ring, answer>> \/ \E f \in Frame : OnRecv(f)
  /\ UNCHANGED <<clock, linkVars, hubVars>>

\* link_relay at an ear: the raw frame and the ear's own time.
LinkRelay ==
  /\ Cardinality(net) < MaxSent
  /\ \E f \in Frame, s \in Skew :
       net' = net \cup {[frame |-> f, ts |-> clock + s, intact |-> TRUE]}
  /\ UNCHANGED <<ring, answer, clock, loop, sock, acted, hubVars>>

\* The network delivers any datagram, any number of times, perhaps damaged.
Arrive ==
  /\ Len(sock) < MaxSock
  /\ \E d \in net, i \in BOOLEAN : sock' = Append(sock, [d EXCEPT !.intact = i])
  /\ UNCHANGED <<ring, answer, clock, loop, net, acted, hubVars>>

\* A faulty check that only looks for stamps of the future.
FreshNotAhead(d) == d.ts <= clock + TsWindow

\* The stamp is within the window, in either direction.
Fresh(d) == IF clock > d.ts THEN clock - d.ts <= TsWindow ELSE d.ts - clock <= TsWindow

\* link_recv returns 1, and the frame goes the way of one from the radio.
LinkRecv ==
  /\ loop = "link" /\ sock # <<>>
  /\ LET d == Head(sock)
     IN /\ d.intact /\ Fresh(d)
        /\ OnRecv(d.frame)
        /\ acted' = IF New(d.frame)
                    THEN acted \cup {[of |-> d, at |-> clock, pos |-> Len(ring.log) + 1]}
                    ELSE acted
  /\ sock' = Tail(sock)
  /\ UNCHANGED <<clock, loop, net, hubVars>>

\* link_recv returns 0: nothing is left, or the datagram was refused. Either
\* way main leaves its loop, and the rest waits for the next iteration.
LinkDone ==
  /\ loop = "link" /\ loop' = "hub"
  /\ \/ sock = <<>> /\ UNCHANGED sock
     \/ sock # <<>> /\ ~(Head(sock).intact /\ Fresh(Head(sock))) /\ sock' = Tail(sock)
  /\ UNCHANGED <<ring, answer, clock, net, acted, hubVars>>

----------------------------------------------------------------------------
\* The token bucket.

RateOf(r) == IF r = 0 THEN 1 ELSE r
Cap(r) == IF RateOf(r) \div 3 = 0 THEN 1 ELSE RateOf(r) \div 3

\* A faulty refill without the cap.
RefillUncapped(b, r, t) == IF b.at = 0 THEN Cap(r) * Minute ELSE b.tokens + (t - b.at) * RateOf(r)

\* The tokens at time t: the bucket is refilled when it is looked at, at the
\* rate of that moment; it starts full.
Refill(b, r, t) ==
  LET full == Cap(r) * Minute
      more == b.tokens + (t - b.at) * RateOf(r)
  IN IF b.at = 0 \/ more > full THEN full ELSE more

\* on_frame: a token and room in the transmit queue, or the frame is dropped.
\* The token is spent even if the frame then does not parse.
OnFrame(f) ==
  /\ loop = "hub" /\ Len(admitted) < MaxAdmitted
  /\ \E room \in BOOLEAN :
       LET tokens == Refill(bucket, rate, clock)
       IN IF tokens < Minute \/ ~room
            THEN /\ bucket' = [tokens |-> tokens, at |-> clock]
                 /\ UNCHANGED <<ring, answer, admitted>>
            ELSE /\ bucket' = [tokens |-> tokens - Minute, at |-> clock]
                 /\ admitted' = Append(admitted, clock)
                 /\ OnRecv(f)
  /\ UNCHANGED <<clock, loop, rate, linkVars>>

HubDone == loop = "hub" /\ loop' = "radio" /\ UNCHANGED <<ring, answer, clock, linkVars, hubVars>>

\* The CLI changes backbone_rate.
SetRate ==
  /\ loop = "hub" /\ rate' \in Rates
  /\ UNCHANGED <<ring, answer, clock, loop, linkVars, bucket, admitted>>

Tick ==
  /\ clock < MaxTime /\ clock' = clock + 1
  /\ UNCHANGED <<ring, answer, loop, linkVars, hubVars>>

IngressInit ==
  /\ Init /\ clock = 1 /\ loop = "radio" /\ net = {} /\ sock = <<>> /\ rate \in Rates
  /\ bucket = [tokens |-> 0, at |-> 0] /\ admitted = <<>> /\ acted = {}

\* The ears' side, and the hub's; main's loop and the clock belong to both.
EarsNext == OwnRadio \/ LinkRelay \/ Arrive \/ LinkRecv
HubNext == SetRate \/ \E f \in Frame : OnFrame(f)
LoopNext == LinkDone \/ HubDone \/ Tick

IngressNext == EarsNext \/ HubNext \/ LoopNext

IngressSpec == IngressInit /\ [][IngressNext]_ingressVars

----------------------------------------------------------------------------
\* The variables have their types.
IngressTypeOK ==
  /\ TypeOK
  /\ clock \in 1..MaxTime /\ loop \in {"radio", "link", "hub"} /\ rate \in Rates
  /\ bucket \in [tokens : Nat, at : 0..MaxTime]
  /\ admitted \in Seq(1..MaxTime)

\* However the bucket is refilled (late, after a pause, after a change of rate),
\* the hub never puts more frames through in a span of time than one full
\* bucket and what the highest rate earns in that span (on_frame).
HubRate ==
  \A i, j \in 1..Len(admitted) :
    i <= j => (j - i + 1) * Minute <= Cap(Top) * Minute + (admitted[j] - admitted[i]) * RateOf(Top)

\* A datagram the network repeats is acted on as new a second time only while
\* its stamp is fresh, within two windows of the first, and only after the
\* dedup ring has turned over (link_recv, seen_check_and_add).
ReplayBounded ==
  \A x, y \in acted :
    x.of = y.of /\ x.pos < y.pos =>
      y.at - x.at <= 2 * TsWindow /\ y.pos - x.pos > SeenSize
============================================================================
