------------------------------ MODULE Session ------------------------------
(***************************************************************************)
(* The client's side of a session with the hub (backbone.c), as operators  *)
(* on its state b (mc_backbone): each takes a state and returns the next.  *)
(*                                                                         *)
(* Timers are kept as the ticks still to go, last_rx_ms as the ticks since *)
(* then. b.up holds the datagrams handed to the socket and still on their  *)
(* way. A key stands for both directional keys: it is made of the HELLO,   *)
(* named by its ephemeral key, and of the WELCOME, named by the session id.*)
(* Ephemeral keys are numbered, since no two are the same; the ts of a     *)
(* HELLO is what the hub compares, and two of them may be the same.        *)
(***************************************************************************)
EXTENDS Naturals, Sequences, ReplayWindow

CONSTANTS
  HelloTries,     \* BB_HELLO_TRIES
  WelcomeWait,    \* BB_WELCOME_WAIT_MS
  BackoffMin,     \* where the back-off starts
  BackoffMax,     \* BB_BACKOFF_MAX
  KeepaliveEvery, StatusEvery, NeighboursEvery,   \* the intervals of the WELCOME
  Grace,          \* 5 s: beyond three keepalives, and before the first NEIGHBOURS
  ResetPause,     \* 5 s: between attempts that a RESET causes
  ResetWindow,    \* how many numbers back a RESET may name (64)
  SeqLimit,       \* where new keys are asked for (2^31)
  Observe, Bridge \* the roles granted

ASSUME SessionAssumption ==
  /\ \A n \in {HelloTries, WelcomeWait, BackoffMin, KeepaliveEvery, ResetWindow, SeqLimit} :
       n \in Nat \ {0}
  /\ \A n \in {StatusEvery, NeighboursEvery, Grace, ResetPause} : n \in Nat
  /\ BackoffMax \in Nat /\ BackoffMin <= BackoffMax
  /\ Observe \in BOOLEAN /\ Bridge \in BOOLEAN

NoKey == [eph |-> 0, sid |-> 0]

LostAfter == 3 * KeepaliveEvery + Grace

\* backbone_init: eph keys were made before, and the next HELLO is later than ts.
Started(eph, ts, up) ==
  [state |-> "idle", next |-> 0, deadline |-> 0, backoff |-> BackoffMin, tries |-> 0,
   eph |-> eph, ts |-> ts, key |-> NoKey, seq |-> 0, win |-> EmptyWindow, quiet |-> 0,
   keepalive |-> 0, status |-> 0, neighbours |-> 0, pause |-> 0, up |-> up]

\* send_session: sealed with the session's key under the next number.
SendSession(b, kind) ==
  [b EXCEPT !.seq = @ + 1,
            !.up = Append(@, [kind |-> kind, key |-> b.key, seq |-> b.seq + 1])]

\* forget_session: keys, numbers and socket are gone.
Forget(b) ==
  [b EXCEPT !.state = "idle", !.key = NoKey, !.seq = 0, !.win = EmptyWindow]

\* A back-off that doubles for ever.
RetryLaterUncapped(b, jitter) ==
  [Forget(b) EXCEPT !.next = b.backoff + jitter, !.backoff = 2 * b.backoff]

\* retry_later: wait the back-off and a jitter, then double it.
RetryLater(b, jitter) ==
  [Forget(b) EXCEPT !.next = b.backoff + jitter,
                    !.backoff = IF 2 * b.backoff > BackoffMax THEN BackoffMax ELSE 2 * b.backoff]

\* retry_later: up to a quarter of the back-off on top.
Jitters(b) == 0..(b.backoff \div 4)

\* send_hello: a fresh ephemeral key and a ts above the last.
SendHello(b) ==
  [b EXCEPT !.eph = @ + 1, !.ts = @ + 1, !.tries = @ + 1, !.state = "hello",
            !.deadline = WelcomeWait,
            !.up = Append(@, [kind |-> "HELLO", eph |-> b.eph + 1, ts |-> b.ts + 1])]

\* start_attempt, once the lookup of the hub is under way.
Resolve(b) == [Forget(b) EXCEPT !.tries = 0, !.state = "resolving"]

\* A client that takes any WELCOME of the hub for its own.
WelcomesAny(b, d) == b.state = "hello"

\* A client that takes its WELCOME a second time.
WelcomesAgain(b, d) == b.state \in {"hello", "up"} /\ d.eph = b.eph

\* on_welcome's test: one is awaited, and this one answers the last HELLO.
Welcomes(b, d) == b.state = "hello" /\ d.eph = b.eph

\* send_status, and its next time.
Status(b) == [SendSession(b, "STATUS") EXCEPT !.status = StatusEvery]

Keepalive(b) == [SendSession(b, "KEEPALIVE") EXCEPT !.keepalive = KeepaliveEvery]

Neighbours(b) == [SendSession(b, "NEIGHBOURS") EXCEPT !.neighbours = NeighboursEvery]

\* on_welcome: the session is up, confirmed by a KEEPALIVE, then a STATUS.
Welcomed(b, d) ==
  LET u == Keepalive([b EXCEPT
             !.state = "up", !.key = [eph |-> b.eph, sid |-> d.sid], !.seq = 0,
             !.win = EmptyWindow, !.quiet = 0, !.backoff = BackoffMin])
  IN IF Observe THEN [Status(u) EXCEPT !.neighbours = Grace] ELSE u

\* A client that takes a RESET of any session for one of its own.
ResetsAny(b, d) == b.state = "up" /\ d.seq <= b.seq /\ b.seq - d.seq < ResetWindow

\* on_reset's test: it names this session and a number sent lately.
Resets(b, d) ==
  /\ b.state = "up" /\ d.sid = b.key.sid
  /\ d.seq > 0 /\ d.seq <= b.seq /\ b.seq - d.seq < ResetWindow

\* on_reset: start again, at once or when the pause after the last RESET is over.
Restarted(b) == [Forget(b) EXCEPT !.next = b.pause, !.pause = ResetPause]

\* on_session's test: the session's own key, and a number not seen before.
Opens(b, d) == b.state = "up" /\ d.key = b.key /\ Accepts(b.win, d.seq)

\* A client that does not count an answer of the hub as a sign of life.
OpenedUnheard(b, d) == [b EXCEPT !.win = Accepted(@, d.seq)]

\* on_session, once a datagram is opened: the hub is there.
Opened(b, d) == [b EXCEPT !.win = Accepted(@, d.seq), !.quiet = 0]

\* on_session, BYE_DOWN: a node that is not allowed waits the longest.
Dismissed(b, d, jitter) ==
  IF d.why = "not_allowed"
  THEN [Forget(b) EXCEPT !.backoff = BackoffMax, !.next = BackoffMax]
  ELSE RetryLater(b, jitter)

\* backbone_service, the reports that are due.
ReportsDue(b) ==
  \/ b.keepalive = 0
  \/ Observe /\ (b.status = 0 \/ b.neighbours = 0)

Reported(b) ==
  LET k == IF b.keepalive = 0 THEN Keepalive(b) ELSE b
      s == IF Observe /\ k.status = 0 THEN Status(k) ELSE k
  IN IF Observe /\ s.neighbours = 0 THEN Neighbours(s) ELSE s

\* The time that passes for the client's timers.
Down(n) == IF n = 0 THEN 0 ELSE n - 1

Later(b) ==
  [b EXCEPT !.next = Down(@), !.deadline = Down(@), !.pause = Down(@),
            !.keepalive = Down(@), !.status = Down(@), !.neighbours = Down(@),
            !.quiet = IF @ > LostAfter THEN @ ELSE @ + 1]
=============================================================================
