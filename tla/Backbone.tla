------------------------------ MODULE Backbone ------------------------------
(***************************************************************************)
(* The session between the repeater (backbone.c) and its hub, over UDP.    *)
(*                                                                         *)
(* The client's actions are the parts of backbone_service: what the state  *)
(* calls for, each datagram read, each timer. A part with nothing to do    *)
(* changes nothing, so every interleaving of these actions is a sequence   *)
(* of calls. The hub is external: what docs/backbone.md asks of one. The   *)
(* network loses, duplicates, delays and reorders datagrams; each such     *)
(* fault, like a restart of either side, is counted against MaxFaults.     *)
(***************************************************************************)
EXTENDS Session, SequencesExt

CONSTANTS
  MaxFaults,      \* bound: faults of the network, the resolver and the hosts
  MaxTraffic,     \* bound: frames the hub sends, and calls of the mesh
  MaxCalm,        \* bound: ticks while both sides agree and nothing is in flight
  LastFault       \* bound: nothing fails any more after that many of them

ASSUME BackboneAssumption ==
  \A n \in {MaxFaults, MaxTraffic, MaxCalm, LastFault} : n \in Nat

VARIABLES
  bb,       \* mc_backbone, and the datagrams on their way up
  dns,      \* the lookup: "none", "busy", "done" or "failed"
  hub,      \* the hub's memory of this repeater
  down,     \* the datagrams on their way to the client
  sealed,   \* the frames the hub sent in a session
  injected, \* the frames handed to the mesh, in that order
  used      \* how much of each bound is used up

vars == <<bb, dns, hub, down, sealed, injected, used>>

NoSession == [key |-> NoKey, seq |-> 0, quiet |-> 0]

Count(what) == used' = [used EXCEPT ![what] = @ + 1]

Fault == used.faults < MaxFaults /\ used.calm <= LastFault /\ Count("faults")

Connected == bb.state \in {"hello", "up"}

\* The socket is closed when its session is forgotten. What is on its way to it is
\* lost, or reaches a socket that is given the same port.
Lingering == {<<>>, down}
----------------------------------------------------------------------------
(* The client.                                                             *)

\* start_attempt; getaddrinfo_a may refuse.
StartAttempt ==
  /\ bb.state = "idle" /\ bb.next = 0
  /\ \/ bb' = Resolve(bb) /\ dns' = "busy" /\ UNCHANGED used
     \/ \E j \in Jitters(bb) :
          bb' = [RetryLater(bb, j) EXCEPT !.tries = 0] /\ UNCHANGED dns /\ Fault
  /\ UNCHANGED <<hub, down, sealed, injected>>

\* check_resolved: a new socket and the first HELLO, or another attempt later.
CheckResolved ==
  /\ bb.state = "resolving" /\ dns \in {"done", "failed"}
  /\ \/ dns = "done" /\ bb' = SendHello(bb)
     \/ dns = "failed" /\ \E j \in Jitters(bb) : bb' = RetryLater(bb, j)
  /\ dns' = "none"
  /\ UNCHANGED <<hub, down, sealed, injected, used>>

\* What is left in flight once datagram i has arrived: the first one, or by a fault
\* one that overtakes others, or one that a copy of it follows.
InOrder(q, i) == IF i = 1 THEN {Tail(q)} ELSE {}
OutOfOrder(q, i) == IF i = 1 THEN {Append(Tail(q), Head(q))} ELSE {RemoveAt(q, i)}

\* read_datagrams reads one.
Read(i) ==
  \/ down' \in InOrder(down, i) /\ UNCHANGED used
  \/ down' \in OutOfOrder(down, i) /\ Fault

OnWelcome(i, d) ==
  /\ Connected /\ d.kind = "WELCOME"
  /\ bb' = IF Welcomes(bb, d) THEN Welcomed(bb, d) ELSE bb
  /\ Read(i)
  /\ UNCHANGED <<dns, hub, sealed, injected>>

OnReset(i, d) ==
  /\ Connected /\ d.kind = "RESET"
  /\ IF Resets(bb, d)
     THEN bb' = Restarted(bb) /\ down' \in Lingering /\ UNCHANGED used
     ELSE bb' = bb /\ Read(i)
  /\ UNCHANGED <<dns, hub, sealed, injected>>

\* A datagram that is not the session's, or was read before, is dropped.
OnOther(i, d) ==
  /\ Connected /\ d.kind \in {"ACK", "FRAME", "BYE"} /\ ~Opens(bb, d)
  /\ Read(i)
  /\ UNCHANGED <<bb, dns, hub, sealed, injected>>

OnAck(i, d) ==
  /\ d.kind = "ACK" /\ Opens(bb, d)
  /\ bb' = Opened(bb, d)
  /\ Read(i)
  /\ UNCHANGED <<dns, hub, sealed, injected>>

\* on_frame: with the bridge role, and if the rate and the TX queue allow, the mesh
\* gets the frame and the hub is told. One that is limited is only told of, one that
\* is malformed not even that.
OnFrame(i, d) ==
  /\ d.kind = "FRAME" /\ Opens(bb, d)
  /\ LET quiet == Opened(bb, d)
         observed == IF Bridge /\ Observe THEN SendSession(quiet, "OBSERVE") ELSE quiet
     IN \/ /\ Bridge /\ injected' = Append(injected, [key |-> d.key, seq |-> d.seq])
           /\ bb' = observed
        \/ bb' \in {quiet, observed} /\ UNCHANGED injected
  /\ Read(i)
  /\ UNCHANGED <<dns, hub, sealed>>

OnBye(i, d) ==
  /\ d.kind = "BYE" /\ Opens(bb, d)
  /\ \E j \in Jitters(bb) : bb' = Dismissed(bb, d, j)
  /\ down' \in Lingering
  /\ UNCHANGED <<dns, hub, sealed, injected, used>>

\* No WELCOME in time: another HELLO, while tries are left.
HelloAgain ==
  /\ bb.state = "hello" /\ bb.deadline = 0 /\ bb.tries < HelloTries
  /\ bb' = SendHello(bb)
  /\ UNCHANGED <<dns, hub, down, sealed, injected, used>>

GiveUp ==
  /\ bb.state = "hello" /\ bb.deadline = 0 /\ bb.tries >= HelloTries
  /\ \E j \in Jitters(bb) : bb' = RetryLater(bb, j)
  /\ down' \in Lingering
  /\ UNCHANGED <<dns, hub, sealed, injected, used>>

SessionLost ==
  /\ bb.state = "up" /\ bb.quiet > LostAfter
  /\ bb' = [Forget(bb) EXCEPT !.next = 0]
  /\ down' \in Lingering
  /\ UNCHANGED <<dns, hub, sealed, injected, used>>

\* New keys long before the number wraps.
Rekey ==
  /\ bb.state = "up" /\ bb.quiet <= LostAfter /\ bb.seq >= SeqLimit
  /\ bb' = [Forget(SendSession(bb, "BYE")) EXCEPT !.next = 0]
  /\ down' \in Lingering
  /\ UNCHANGED <<dns, hub, sealed, injected, used>>

Report ==
  /\ bb.state = "up" /\ bb.quiet <= LostAfter /\ bb.seq < SeqLimit /\ ReportsDue(bb)
  /\ bb' = Reported(bb)
  /\ UNCHANGED <<dns, hub, down, sealed, injected, used>>

\* The mesh between two calls: a frame heard, a frame queued, a STATUS wanted.
MeshCalls ==
  /\ bb.state = "up" /\ used.traffic < MaxTraffic
  /\ \/ Observe /\ bb' = SendSession(bb, "OBSERVE")
     \/ Bridge /\ bb' = SendSession(bb, "BRIDGE")
     \/ bb' = [bb EXCEPT !.status = 0]
  /\ Count("traffic")
  /\ UNCHANGED <<dns, hub, down, sealed, injected>>

\* The process ends, with a BYE (backbone_close) or without, and starts again: only
\* the wall clock remembers the last HELLO, and may still show the second of it.
Restart ==
  /\ Fault
  /\ \E ts \in {bb.ts, Down(bb.ts)} :
       \/ bb' = Started(bb.eph, ts, bb.up)
       \/ bb.state = "up" /\ bb' = Started(bb.eph, ts, SendSession(bb, "BYE").up)
  /\ dns' = "none" /\ down' \in Lingering
  /\ UNCHANGED <<hub, sealed, injected>>
----------------------------------------------------------------------------
(* The hub, the resolver and the network.                                  *)

Resolver ==
  /\ dns = "busy"
  /\ \/ dns' = "done" /\ UNCHANGED used
     \/ dns' = "failed" /\ Fault
  /\ UNCHANGED <<bb, hub, down, sealed, injected>>

\* A datagram of the client arrives at the hub.
Arrive(i) ==
  \/ \E rest \in InOrder(bb.up, i) : bb' = [bb EXCEPT !.up = rest] /\ UNCHANGED used
  \/ \E rest \in OutOfOrder(bb.up, i) : bb' = [bb EXCEPT !.up = rest] /\ Fault

\* A HELLO newer than the last one accepted makes a pending session.
HubHello(i, d) ==
  /\ d.kind = "HELLO"
  /\ Arrive(i)
  /\ LET key == [eph |-> d.eph, sid |-> hub.sid + 1]
     IN IF d.ts > hub.last
        THEN /\ hub' = [hub EXCEPT !.last = d.ts, !.sid = @ + 1,
                                   !.pending = [NoSession EXCEPT !.key = key]]
             /\ down' = Append(down, [kind |-> "WELCOME", eph |-> key.eph, sid |-> key.sid])
        ELSE UNCHANGED <<hub, down>>
  /\ UNCHANGED <<dns, sealed, injected>>

\* The first datagram of a pending session confirms it.
Confirmed(key) ==
  IF hub.pending.key = key
  THEN [hub EXCEPT !.active = hub.pending, !.pending = NoSession]
  ELSE [hub EXCEPT !.active.quiet = 0]

HubSession(i, d) ==
  /\ d.kind # "HELLO" /\ d.key \in {hub.pending.key, hub.active.key}
  /\ Arrive(i)
  /\ LET h == Confirmed(d.key)
     IN CASE d.kind = "BYE" -> hub' = [h EXCEPT !.active = NoSession] /\ UNCHANGED down
          [] d.kind = "KEEPALIVE" ->
               /\ hub' = [h EXCEPT !.active.seq = @ + 1]
               /\ down' = Append(down, [kind |-> "ACK", key |-> d.key, seq |-> h.active.seq + 1])
          [] OTHER -> hub' = h /\ UNCHANGED down
  /\ UNCHANGED <<dns, sealed, injected>>

\* A session the hub does not know: it may ask the client to register again.
HubUnknown(i, d) ==
  /\ d.kind # "HELLO" /\ d.key \notin {hub.pending.key, hub.active.key}
  /\ Arrive(i)
  /\ down' \in {down, Append(down, [kind |-> "RESET", sid |-> d.key.sid, seq |-> d.seq])}
  /\ UNCHANGED <<dns, hub, sealed, injected>>

HubFrame ==
  /\ hub.active # NoSession /\ used.traffic < MaxTraffic
  /\ LET f == [key |-> hub.active.key, seq |-> hub.active.seq + 1]
     IN /\ sealed' = sealed \cup {f}
        /\ down' = Append(down, [kind |-> "FRAME", key |-> f.key, seq |-> f.seq])
  /\ hub' = [hub EXCEPT !.active.seq = @ + 1]
  /\ Count("traffic")
  /\ UNCHANGED <<bb, dns, injected>>

\* The hub closes the session: it goes down, or the key left its allowlist.
HubBye ==
  /\ hub.active # NoSession /\ Fault
  /\ \E why \in {"shutdown", "not_allowed"} :
       down' = Append(down,
         [kind |-> "BYE", key |-> hub.active.key, seq |-> hub.active.seq + 1, why |-> why])
  /\ hub' = [hub EXCEPT !.active = NoSession]
  /\ UNCHANGED <<bb, dns, sealed, injected>>

\* Nothing from the repeater for as long as the client itself would wait.
HubExpires ==
  /\ hub.active # NoSession /\ hub.active.quiet > LostAfter
  /\ hub' = [hub EXCEPT !.active = NoSession]
  /\ UNCHANGED <<bb, dns, down, sealed, injected, used>>

\* The hub remembers nothing; a session id is never given twice.
HubRestart ==
  /\ Fault
  /\ hub' = [hub EXCEPT !.last = 0, !.pending = NoSession, !.active = NoSession]
  /\ UNCHANGED <<bb, dns, down, sealed, injected>>

Lose ==
  /\ Fault
  /\ \/ \E i \in 1..Len(bb.up) : bb' = [bb EXCEPT !.up = RemoveAt(@, i)] /\ UNCHANGED down
     \/ \E i \in 1..Len(down) : down' = RemoveAt(down, i) /\ UNCHANGED bb
  /\ UNCHANGED <<dns, hub, sealed, injected>>

Quiet == bb.up = <<>> /\ (Connected => down = <<>>)

Agreed == bb.state = "up" /\ hub.active.key = bb.key

\* The client has something to do: its loop turns many times a tick.
Busy ==
  \/ bb.state = "idle" /\ bb.next = 0
  \/ bb.state = "resolving" /\ dns # "busy"
  \/ bb.state = "hello" /\ bb.deadline = 0
  \/ bb.state = "up" /\ (bb.quiet > LostAfter \/ bb.seq >= SeqLimit \/ ReportsDue(bb))

\* A tick passes. What is in flight for that long is late, a fault; what was sent to
\* a closed socket is gone.
Tick ==
  /\ ~Busy
  /\ \/ Quiet /\ ~Agreed /\ UNCHANGED used
     \/ Quiet /\ Agreed /\ used.calm < MaxCalm /\ Count("calm")
     \/ ~Quiet /\ Fault
  /\ bb' = Later(bb)
  /\ down' = IF Connected THEN down ELSE <<>>
  /\ hub' = [hub EXCEPT !.active.quiet =
               IF hub.active = NoSession \/ @ > LostAfter THEN @ ELSE @ + 1]
  /\ UNCHANGED <<dns, sealed, injected>>

\* The end of a run: all its calm is used up, and nothing is left to do.
Rest == ~Busy /\ Quiet /\ Agreed /\ used.calm = MaxCalm /\ UNCHANGED vars

Receive(i) ==
  LET d == down[i]
  IN \/ OnWelcome(i, d) \/ OnReset(i, d) \/ OnOther(i, d)
     \/ OnAck(i, d) \/ OnFrame(i, d) \/ OnBye(i, d)

Timer == HelloAgain \/ GiveUp \/ SessionLost \/ Rekey \/ Report

HubReceive(i) ==
  LET d == bb.up[i]
  IN HubHello(i, d) \/ HubSession(i, d) \/ HubUnknown(i, d)

Next ==
  \/ StartAttempt \/ CheckResolved \/ Timer \/ MeshCalls \/ Restart
  \/ \E i \in 1..Len(down) : Receive(i)
  \/ \E i \in 1..Len(bb.up) : HubReceive(i)
  \/ Resolver \/ HubFrame \/ HubBye \/ HubExpires \/ HubRestart \/ Lose \/ Tick \/ Rest

Init ==
  /\ bb = Started(0, 0, <<>>) /\ dns = "none"
  /\ hub = [last |-> 0, sid |-> 0, pending |-> NoSession, active |-> NoSession]
  /\ down = <<>> /\ sealed = {} /\ injected = <<>>
  /\ used = [faults |-> 0, traffic |-> 0, calm |-> 0]

Spec == Init /\ [][Next]_vars

\* The loop runs, lookups end, time passes, and what is not lost arrives. Nothing
\* is assumed of the frames, of the mesh or of the faults, which are bounded.
FairSpec ==
  /\ Spec
  /\ WF_vars(StartAttempt) /\ WF_vars(CheckResolved) /\ WF_vars(Timer)
  /\ WF_vars(\E i \in 1..Len(down) : Receive(i))
  /\ WF_vars(\E i \in 1..Len(bb.up) : HubReceive(i))
  /\ WF_vars(Resolver) /\ WF_vars(Tick)
----------------------------------------------------------------------------
Key == [eph : Nat, sid : Nat]

HelloMsg == [kind : {"HELLO"}, eph : Nat, ts : Nat]
UpMsg == [kind : {"KEEPALIVE", "STATUS", "NEIGHBOURS", "OBSERVE", "BRIDGE", "BYE"},
          key : Key, seq : Nat]

ClientType ==
  [state : {"idle", "resolving", "hello", "up"}, next : Nat, deadline : 0..WelcomeWait,
   backoff : BackoffMin..BackoffMax, tries : Nat, eph : Nat, ts : Nat, key : Key, seq : Nat,
   win : Window, quiet : 0..LostAfter + 1, keepalive : Nat, status : Nat, neighbours : Nat,
   pause : 0..ResetPause, up : Seq(HelloMsg \cup UpMsg)]

DownMsg ==
  [kind : {"WELCOME"}, eph : Nat, sid : Nat]
    \cup [kind : {"RESET"}, sid : Nat, seq : Nat]
    \cup [kind : {"ACK", "FRAME"}, key : Key, seq : Nat]
    \cup [kind : {"BYE"}, key : Key, seq : Nat, why : {"shutdown", "not_allowed"}]

HubSide == [key : Key, seq : Nat, quiet : 0..LostAfter + 1]

TypeOK ==
  /\ bb \in ClientType
  /\ dns \in {"none", "busy", "done", "failed"}
  /\ hub \in [last : Nat, sid : Nat, pending : HubSide, active : HubSide]
  /\ down \in Seq(DownMsg)
  /\ sealed \in SUBSET [key : Key, seq : Nat] /\ injected \in Seq([key : Key, seq : Nat])
  /\ used \in [{"faults", "traffic", "calm"} -> Nat]

\* A client that is up and the hub that holds its session have made the same keys,
\* whichever HELLOs and WELCOMEs were lost, repeated or late (bb_check_welcome).
KeysAgree ==
  bb.state = "up" =>
    \A s \in {hub.pending, hub.active} : s.key.sid = bb.key.sid => s.key = bb.key

\* Within one key no number is used twice: whatever is still on its way under the
\* client's key was numbered before (send_session, on_welcome).
NumbersFresh ==
  bb.state = "up" =>
    \A i \in 1..Len(bb.up) :
      bb.up[i].kind # "HELLO" /\ bb.up[i].key = bb.key => bb.up[i].seq <= bb.seq

\* A RESET ends only a session that the hub does not hold (on_reset).
ResetJustified ==
  [][\A i \in 1..Len(down) :
       OnReset(i, down[i]) /\ bb.state = "up" /\ bb'.state = "idle"
         => bb.key \notin {hub.pending.key, hub.active.key}]_vars

\* Frames arrive at most once and only as sent (bb_replay_check, on_frame).
Channel == INSTANCE FrameChannel WITH sent <- sealed, got <- injected
ImplementsChannel == Channel!Spec

\* The client and the hub are in one session again and again, and leave it only for
\* new keys or because something failed: when it is an answer that is missing, at least
\* three keepalives or answers in a row (backbone_service, and what the hub does).
Settles ==
  /\ []<>Agreed
  /\ [][Agreed /\ ~Agreed' =>
          Rekey \/ used'.faults > used.faults \/ used.faults >= 3]_vars
=============================================================================
