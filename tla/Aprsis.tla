------------------------------- MODULE Aprsis --------------------------------
(***************************************************************************)
(* The client of APRS-IS (aprsis.c): a TCP connection that is opened,      *)
(* logged in, lost and opened again by aprsis_service, which the loop      *)
(* calls in every iteration, and the positions that the mesh gates over    *)
(* it (aprsis_gate_node).                                                  *)
(*                                                                         *)
(* Timers count down in ticks. A line is two parts long, so that a buffer  *)
(* may hold, and a send may take, half of one. What comes from the server  *)
(* matters line by line: half a line only waits in rxbuf. The server and   *)
(* the network are external.                                               *)
(***************************************************************************)
EXTENDS Naturals, SequencesExt, FiniteSetsExt

CONSTANTS
  Call,         \* callsigns of stations, as aprsis_valid_callsign passes them
  Place,        \* positions, at least 100 m apart
  MaxNodes,     \* APRSIS_MAX_NODES
  NodeRate,     \* aprs_node_rate
  BeaconEvery,  \* aprs_beacon_interval
  TxSize,       \* APRSIS_TXBUF, in parts of lines
  Timeout,      \* of a connect and of a login: 10 s
  FirstWait,    \* 5 s, the back-off after a verified login
  LastWait,     \* 300 s, its limit
  MaxFaults     \* bound: failures of the network, the server and poll

ASSUME AprsisAssumption ==
  /\ {MaxNodes, NodeRate, BeaconEvery, FirstWait, LastWait} \subseteq Nat \ {0}
  /\ {TxSize, Timeout, MaxFaults} \subseteq Nat
  /\ FirstWait <= LastWait /\ TxSize >= 2 /\ "anywhere" \notin Place

VARIABLES
  a,       \* mc_aprsis
  srv,     \* the server's end of the connection
  up,      \* time since the machine was booted, which hal_millis counts, up to BeaconEvery
  last,    \* history: for each station gated within NodeRate, when and where it was
           \* gated last, and which others were since
  faults

vars == <<a, srv, up, last, faults>>

Fault == faults < MaxFaults /\ faults' = faults + 1

\* What it costs if a thing goes wrong that need not.
Unless(fine) == IF fine THEN UNCHANGED faults ELSE Fault

Least(m, n) == IF m < n THEN m ELSE n
Less(n) == IF n = 0 THEN 0 ELSE n - 1
LongAgo == [at |-> "anywhere", age |-> NodeRate, since |-> {}]
Take(s, n) == SubSeq(s, 1, n)
Drop(s, n) == SubSeq(s, n + 1, Len(s))
----------------------------------------------------------------------------
(* The server.                                                             *)

NoServer ==
  [sock |-> "none", in |-> <<>>, half |-> "none", login |-> FALSE, verified |-> FALSE,
   garbled |-> FALSE, early |-> FALSE]

\* The server reads lines. It notes halves that do not belong together, and lines before
\* it has verified the login.
Receive(v, part) ==
  IF part.first THEN [v EXCEPT !.garbled = @ \/ v.half # "none", !.half = part.line]
  ELSE [v EXCEPT !.garbled = @ \/ v.half # part.line, !.half = "none",
                 !.login = @ \/ part.line = "login",
                 !.early = @ \/ (part.line # "login" /\ ~v.verified)]

ReceiveAll(v, parts) == FoldLeft(Receive, v, parts)

Waiting == srv.sock = "asked" \/ (srv.sock = "open" /\ srv.login /\ ~srv.verified)

\* It accepts, with or without a banner, and answers a login.
Accept ==
  /\ srv.sock = "asked"
  /\ \E in \in {<<>>, <<"banner">>} : srv' = [srv EXCEPT !.sock = "open", !.in = in]
  /\ UNCHANGED <<a, up, last, faults>>

Answer ==
  /\ srv.sock = "open" /\ srv.login /\ ~srv.verified
  /\ \/ srv' = [srv EXCEPT !.in = Append(@, "verified"), !.verified = TRUE] /\ UNCHANGED faults
     \/ srv' = [srv EXCEPT !.in = Append(@, "unverified"), !.login = FALSE] /\ Fault
  /\ UNCHANGED <<a, up, last>>

\* It refuses, resets or closes the connection, or falls silent.
Break ==
  /\ srv.sock \in {"asked", "open"} /\ Fault
  /\ \E sock \in {"failed"} \cup (IF srv.sock = "asked" THEN {"hung"} ELSE {"closed", "mute"}) :
       srv' = [srv EXCEPT !.sock = sock]
  /\ UNCHANGED <<a, up, last>>
----------------------------------------------------------------------------
(* The client.                                                             *)

Parts(line) == <<[line |-> line, first |-> TRUE], [line |-> line, first |-> FALSE]>>

\* A queue that looks for room before the line, not after it.
TxQueueOver(c, line) ==
  IF Len(c.tx) + 1 > TxSize THEN c ELSE [c EXCEPT !.tx = @ \o Parts(line)]

\* tx_queue: a line that does not fit is dropped.
TxQueue(c, line) ==
  IF Len(c.tx) + 2 > TxSize THEN c ELSE [c EXCEPT !.tx = @ \o Parts(line)]

Longer(c) == IF c.backoff < FirstWait THEN FirstWait ELSE Least(2 * c.backoff, LastWait)

Off(c, wait) ==
  [c EXCEPT !.state = "off", !.tx = <<>>, !.left = 0, !.beacon = 0,
            !.backoff = wait, !.wait = wait, !.waited = wait]

\* A connection that leaves what it did not send to the next one.
DisconnectedKeeping(c) == [Off(c, Longer(c)) EXCEPT !.tx = c.tx]

\* go_disconnected.
Disconnected(c) == Off(c, Longer(c))

\* A client that takes a connection for a success.
LoggingInAfresh(c) ==
  TxQueue([c EXCEPT !.state = "login", !.left = Timeout + 1, !.backoff = FirstWait], "login")

\* send_login.
LoggingIn(c) == TxQueue([c EXCEPT !.state = "login", !.left = Timeout + 1], "login")

\* handle_server_line. The beacon is due when the clock shows a whole interval.
Handle(c, line) ==
  IF c.state # "login" \/ line = "banner" THEN c
  ELSE IF line = "verified"
  THEN [c EXCEPT !.state = "ready", !.backoff = FirstWait, !.beacon = BeaconEvery - up,
                 !.waited = 0]
  ELSE Off(c, LastWait)

\* The lines that one read completes, one after the other.
HandleAll(c, lines) == FoldLeft(Handle, c, lines)

\* A table that forgets the station it saw last.
OldestOutNewest(nodes) == IF Len(nodes) < MaxNodes THEN nodes ELSE Front(nodes)

\* The table, in the order of its times, with room for one more.
OldestOut(nodes) == IF Len(nodes) < MaxNodes THEN nodes ELSE Tail(nodes)

\* The table without the station's entry, or else with room for one.
Others(nodes, call) ==
  IF \E i \in DOMAIN nodes : nodes[i].call = call
  THEN RemoveAt(nodes, CHOOSE i \in DOMAIN nodes : nodes[i].call = call)
  ELSE OldestOut(nodes)

\* rate_ok: the station is new, has moved, or was gated long ago.
RateOk(call, at) ==
  \A i \in DOMAIN a.nodes :
    LET n == a.nodes[i] IN n.call = call => n.age >= NodeRate \/ n.at # at

\* aprsis_gate_node, for an advert of a station that is not this node.
GateNode(call, at) ==
  /\ a.state = "ready" /\ RateOk(call, at)
  /\ a' = TxQueue([a EXCEPT !.nodes = Append(Others(@, call), [call |-> call, at |-> at, age |-> 0])],
                  "position")
  /\ last' = [c \in Call |-> IF c = call THEN [at |-> at, age |-> 0, since |-> {}]
                            ELSE [last[c] EXCEPT !.since = @ \cup {call}]]
  /\ UNCHANGED <<srv, up, faults>>

\* A client whose deadlines never pass.
NeverLate(c) == FALSE

\* The time for connecting or for logging in is over (deadline_ms).
Late(c) == c.left = 0

\* start_connect.
StartConnect ==
  /\ a.state = "off" /\ a.wait = 0
  /\ \/ /\ a' = [a EXCEPT !.state = "connecting", !.left = Timeout + 1]
        /\ srv' = [NoServer EXCEPT !.sock = "asked"] /\ UNCHANGED faults
     \/ a' = Disconnected(a) /\ UNCHANGED srv /\ Fault
  /\ UNCHANGED <<up, last>>

Writable == srv.sock \in {"open", "closed", "mute"}

\* What send takes: nothing before the connection is open, and then at least something,
\* unless the network is slow.
Sends(c, n) ==
  IF c.tx = <<>> \/ ~Writable THEN n = 0 /\ UNCHANGED faults
  ELSE n \in 0..Len(c.tx) /\ Unless(n > 0)

Sent(c, n) == [c EXCEPT !.tx = Drop(@, n)]

\* The connection fails: poll reports it, or reports anything because a signal cut it
\* short, or send does.
Fails ==
  /\ a.state # "off" /\ Unless(srv.sock = "failed")
  /\ a' = Disconnected(a) /\ srv' = NoServer
  /\ UNCHANGED <<up, last>>

\* aprsis_service while connecting: poll says that the socket is writable, wrongly if a
\* signal cut it short, or the time is over.
Connect ==
  /\ a.state = "connecting"
  /\ \/ /\ srv.sock # "failed" /\ Unless(Writable)
        /\ \E n \in (IF Writable THEN 0..2 ELSE {0}) :
             /\ a' = Sent(LoggingIn(a), n)
             /\ srv' = ReceiveAll(srv, Take(LoggingIn(a).tx, n))
     \/ /\ srv.sock \in {"asked", "hung"} /\ Late(a)
        /\ a' = Disconnected(a) /\ srv' = NoServer /\ UNCHANGED faults
  /\ UNCHANGED <<up, last>>

\* aprsis_service in a session: read, send, time out, beacon.
Session ==
  /\ a.state \in {"login", "ready"} /\ srv.sock # "failed"
  /\ \/ /\ srv.sock = "closed" /\ srv.in = <<>>
        /\ a' = Disconnected(a) /\ srv' = NoServer /\ UNCHANGED faults
     \/ /\ srv.sock # "closed" \/ srv.in # <<>>
        /\ \E k \in (IF srv.in = <<>> THEN {0} ELSE 1..Len(srv.in)), n, m \in 0..TxSize :
             LET c1 == HandleAll(a, Take(srv.in, k))
                 c2 == Sent(c1, n)
                 due == c2.state = "ready" /\ c2.beacon = 0
                 c3 == IF due THEN [TxQueue(c2, "beacon") EXCEPT !.beacon = BeaconEvery] ELSE c2
             IN /\ Sends(c1, n) /\ m <= IF due THEN Len(c3.tx) ELSE 0
                /\ IF c1.state = "off" THEN a' = c1 /\ srv' = NoServer
                   ELSE IF c2.state = "login" /\ Late(c2)
                   THEN a' = Disconnected(c2) /\ srv' = NoServer
                   ELSE /\ a' = Sent(c3, m)
                        /\ srv' = ReceiveAll([srv EXCEPT !.in = Drop(@, k)],
                                             Take(c1.tx, n) \o Take(c3.tx, m))
  /\ UNCHANGED <<up, last>>

\* aprsis_init, with the host resolved.
Init ==
  /\ a = [state |-> "off", wait |-> 0, backoff |-> FirstWait, left |-> 0, beacon |-> 0,
          tx |-> <<>>, nodes |-> <<>>, waited |-> 0]
  /\ srv = NoServer /\ up \in 0..BeaconEvery /\ last = [c \in Call |-> LongAgo] /\ faults = 0

Client == StartConnect \/ Fails \/ Connect \/ Session

\* What the loop has to do for the client before time passes.
Work ==
  \/ a.state = "off" /\ a.wait = 0
  \/ a.state # "off" /\ srv.sock = "failed"
  \/ a.state = "connecting" /\ (Writable \/ Late(a))
  \/ /\ a.state \in {"login", "ready"}
     /\ \/ srv.sock = "closed" \/ srv.in # <<>> \/ (a.tx # <<>> /\ Writable)
        \/ a.state = "login" /\ Late(a)
        \/ a.state = "ready" /\ a.beacon = 0

Older(nodes) ==
  [i \in DOMAIN nodes |-> [nodes[i] EXCEPT !.age = Least(@ + 1, NodeRate)]]

\* Time passes when client and server have done what they can, unless one is slow.
Tick ==
  /\ Unless(~Work /\ ~Waiting)
  /\ a' = [a EXCEPT !.wait = Less(@), !.left = Less(@), !.beacon = Less(@),
                    !.nodes = Older(@)]
  /\ last' = [c \in Call |-> IF last[c].age + 1 >= NodeRate THEN LongAgo
                            ELSE [last[c] EXCEPT !.age = @ + 1]]
  /\ up' = Least(up + 1, BeaconEvery)
  /\ UNCHANGED srv

Next ==
  \/ Client \/ Accept \/ Answer \/ Break \/ Tick
  \/ \E call \in Call, at \in Place : GateNode(call, at)

Spec == Init /\ [][Next]_vars

\* The loop calls the client, the server does its part, and time passes.
FairSpec == Spec /\ WF_vars(Client) /\ WF_vars(Accept \/ Answer) /\ WF_vars(Tick)
----------------------------------------------------------------------------
Line == {"login", "beacon", "position"}

\* The buffer and the table stay within their sizes, the waits within their limits, and
\* without a connection nothing waits to be sent.
TypeOK ==
  /\ a.state \in {"off", "connecting", "login", "ready"}
  /\ a.tx \in Seq([line : Line, first : BOOLEAN]) /\ Len(a.tx) <= TxSize
  /\ a.state \in {"off", "connecting"} => a.tx = <<>>
  /\ a.nodes \in Seq([call : Call, at : Place, age : 0..NodeRate]) /\ Len(a.nodes) <= MaxNodes
  /\ \A i, j \in DOMAIN a.nodes : a.nodes[i].call = a.nodes[j].call => i = j
  /\ a.backoff \in FirstWait..LastWait /\ a.wait \in 0..LastWait /\ a.waited \in 0..LastWait
  /\ a.left \in 0..(Timeout + 1) /\ a.beacon \in 0..BeaconEvery
  /\ up \in 0..BeaconEvery /\ faults \in 0..MaxFaults
  /\ (srv.sock = "none") = (a.state = "off")

\* However its sends are cut and its connections lost, a server gets whole lines, the
\* login first, and nothing else before it has verified it (README: "Injecting requires
\* a valid passcode"; go_disconnected, tx_queue, tx_flush).
StreamWhole == ~srv.garbled /\ ~srv.early

\* A station that stays where it is is not gated twice within aprs_node_rate, unless as
\* many others as the table holds were gated in between (rate_ok).
GateSpaced ==
  [][\A call \in Call, at \in Place :
       GateNode(call, at) /\ last[call].at = at => Cardinality(last[call].since) >= MaxNodes]_vars

\* Every failure before a login is verified, of whatever kind, makes the client wait
\* longer than the one before it, up to the limit (go_disconnected, handle_server_line).
Failed == a'.state = "off" /\ (a.state # "off" \/ a'.wait > a.wait)
BacksOff == [][Failed => a'.waited > a.waited \/ a'.waited = LastWait]_vars

\* When the network and the server are well again, the client is logged in for good.
Connects == <>[](a.state = "ready")
=============================================================================
