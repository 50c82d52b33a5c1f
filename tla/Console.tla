------------------------------ MODULE Console ------------------------------
(***************************************************************************)
(* The control port and its monitors: main's loop publishes events, polls  *)
(* the connections, accepts one client, and reaps those that closed, by    *)
(* index into a table that a drop compacts. Clients connect, send a line   *)
(* and close when they like. It implements Subscribers.                    *)
(***************************************************************************)
EXTENDS Naturals, SequencesExt, FiniteSets

CONSTANTS
  Client,       \* the clients of the control port, each with one connection
  Target,       \* what a client may monitor: [kind, name]
  Event,        \* what there is to tell: [kind, name]
  MaxMonitors,  \* MC_MAX_MONITORS
  Watched       \* bound of the runs: the clients whose leaving is watched

ASSUME ConsoleAssumption ==
  /\ MaxMonitors \in Nat
  /\ \A t \in Target : t = [kind |-> t.kind, name |-> t.name]
  /\ \A e \in Event : e.kind \in {"public", "room", "advert", "drop", "tx"}

VARIABLES
  conn,         \* the table: [fd, kind, name], fd the client's connection
  client,       \* each client: "away", "waiting" (not accepted), "served" or "closed"
  stray,        \* the clients that sent bytes nobody expects, still unread
  pfd,          \* what poll() reported of the table's entries, by index
  at,           \* where main's loop is: "mesh", "accept" or "reap"
  wrote         \* history: the connections the last event was written to

consoleVars == <<conn, client, stray, pfd, at, wrote>>

----------------------------------------------------------------------------
\* monitor_wants_public, _room, _advert, _drop and _tx.
Wants(c, e) ==
  CASE e.kind = "public" -> c.kind \in {"all", "public"} \/ (c.kind \in {"channel", "room"} /\ c.name = e.name)
    [] e.kind = "room" -> c.kind = "all" \/ (c.kind = "room" /\ c.name = e.name)
    [] OTHER -> c.kind \in {"all", e.kind}

\* mon_drop: the last entry moves into the slot.
Drop(s, i) == [k \in 1..Len(s) - 1 |-> IF k = i THEN s[Len(s)] ELSE s[k]]

\* A faulty order: a drop moves the last entry behind the walk.
Forwards(n) == [k \in 1..n |-> k]

\* The order in which the table is walked: from the back.
Backwards(n) == [k \in 1..n |-> n + 1 - k]

\* mon_write to entry i: the connections in broken have failed.
Write(s, i, e, broken) ==
  IF i > Len(s.conn) \/ ~Wants(s.conn[i], e) THEN s
  ELSE [wrote |-> Append(s.wrote, s.conn[i].fd),
        conn |-> IF s.conn[i].fd \in broken THEN Drop(s.conn, i) ELSE s.conn]

WriteAll(table, order, e, broken) ==
  LET WriteNext(s, i) == Write(s, i, e, broken)
  IN FoldLeft(WriteNext, [conn |-> table, wrote |-> <<>>], order)

\* monitor_public, _region, _advert, _drop and _tx, from the mesh. A write to a
\* client that reads slowly is lost and changes nothing; one to a client that
\* closed may fail.
Publish(e) ==
  /\ at = "mesh" /\ conn # <<>>
  /\ \E broken \in SUBSET {c \in Client : client[c] = "closed"} :
       LET done == WriteAll(conn, Backwards(Len(conn)), e, broken)
       IN conn' = done.conn /\ wrote' = done.wrote
  /\ stray' = {c \in stray : \E i \in 1..Len(conn') : conn'[i].fd = c}
  /\ UNCHANGED <<client, pfd, at>>

\* poll() with the entries monitor_pollfds fills in. Nothing readable: main
\* skips the rest of the step.
Waiting == {c \in Client : client[c] = "waiting"}
Revents(c) ==
  CASE client[c] = "closed" -> {"in", "hup"}
    [] client[c] = "served" -> IF c \in stray THEN {"in"} ELSE {"none"}

Poll ==
  /\ at = "mesh"
  /\ \E p \in [1..Len(conn) -> {"none", "in", "hup"}] :
       /\ \A i \in 1..Len(conn) : p[i] \in Revents(conn[i].fd)
       /\ IF Waiting = {} /\ \A i \in 1..Len(conn) : p[i] = "none"
            THEN UNCHANGED <<pfd, at>>
            ELSE pfd' = p /\ at' = IF Waiting = {} THEN "reap" ELSE "accept"
  /\ wrote' = <<>>
  /\ UNCHANGED <<conn, client, stray>>

\* control_accept of a client that asks to monitor t, and may have closed since:
\* the table is extended, or full and the connection closed.
AcceptMonitor(c, t) ==
  /\ at = "accept" /\ at' = "reap" /\ c \in Waiting
  /\ IF Len(conn) < MaxMonitors
       THEN /\ conn' = Append(conn, [fd |-> c, kind |-> t.kind, name |-> t.name])
            /\ \E s \in {"served", "closed"} : client' = [client EXCEPT ![c] = s]
       ELSE /\ client' = [client EXCEPT ![c] = "away"] /\ UNCHANGED conn
  /\ UNCHANGED <<stray, pfd, wrote>>

\* Any other line, or none for two seconds: a command is answered and the
\* connection closed. No command touches the table.
AcceptCommand(c) ==
  /\ at = "accept" /\ at' = "reap" /\ c \in Waiting
  /\ client' = [client EXCEPT ![c] = "away"]
  /\ UNCHANGED <<conn, stray, pfd, wrote>>

\* monitor_reap of entry i, where connection c is: a hang-up, or a read that
\* finds the end and no bytes before it.
Gone(i, c) == pfd[i] = "hup" \/ (pfd[i] = "in" /\ c \notin stray /\ client[c] = "closed")
ReapEntry(s, i) == IF i <= Len(s) /\ Gone(i, s[i].fd) THEN Drop(s, i) ELSE s
ReapAll(table, order) == FoldLeft(ReapEntry, table, order)

\* The entries that were polled, if the table still has as many.
Polled == IF Len(pfd) > Len(conn) THEN Len(conn) ELSE Len(pfd)

Reap ==
  /\ at = "reap" /\ at' = "mesh"
  /\ conn' = ReapAll(conn, Backwards(Polled))
  /\ stray' = stray \ {conn[i].fd : i \in {k \in 1..Polled : pfd[k] # "none"}}
  /\ pfd' = <<>>
  /\ UNCHANGED <<client, wrote>>

\* The clients. A connection that is over frees its number for the next one.
Registered(c) == \E i \in 1..Len(conn) : conn[i].fd = c

Connect(c) ==
  /\ client[c] = "away" \/ (client[c] = "closed" /\ ~Registered(c))
  /\ client' = [client EXCEPT ![c] = "waiting"] /\ UNCHANGED stray
Chat(c) == client[c] = "served" /\ stray' = stray \cup {c} /\ UNCHANGED client
Hangs(c) == client[c] = "served" /\ client' = [client EXCEPT ![c] = "closed"] /\ UNCHANGED stray

Clients ==
  /\ \E c \in Client : Connect(c) \/ Chat(c) \/ Hangs(c)
  /\ UNCHANGED <<conn, pfd, at, wrote>>

ConsoleInit ==
  /\ conn = <<>> /\ client = [c \in Client |-> "away"] /\ stray = {} /\ pfd = <<>> /\ at = "mesh" /\ wrote = <<>>

Accept == \E c \in Client : AcceptCommand(c) \/ \E t \in Target : AcceptMonitor(c, t)
ConsoleLoop == Poll \/ Accept \/ Reap

ConsoleNext == ConsoleLoop \/ Clients \/ \E e \in Event : Publish(e)

\* The loop never stops turning: every step of it ends by itself.
ConsoleSpec == ConsoleInit /\ [][ConsoleNext]_consoleVars /\ WF_consoleVars(ConsoleLoop)

----------------------------------------------------------------------------
\* The variables have their types; the table never holds a connection twice.
ConsoleTypeOK ==
  /\ conn \in Seq([fd : Client, kind : {t.kind : t \in Target}, name : {t.name : t \in Target}])
  /\ Len(conn) <= MaxMonitors /\ Len(pfd) <= Len(conn)
  /\ \A i, j \in 1..Len(conn) : conn[i].fd = conn[j].fd => i = j
  /\ at \in {"mesh", "accept", "reap"} /\ stray \subseteq {c \in Client : Registered(c)}

EntryOf(s, c) == s[CHOOSE i \in 1..Len(s) : s[i].fd = c]
TableOf(s) ==
  [c \in {s[i].fd : i \in 1..Len(s)} |-> [kind |-> EntryOf(s, c).kind, name |-> EntryOf(s, c).name]]
Times(w, c) == Cardinality({k \in 1..Len(w) : w[k] = c})

Promise == INSTANCE Subscribers WITH
  table <- TableOf(conn), closed <- {c \in Client : client[c] = "closed"},
  offered <- [c \in Client |-> Times(wrote, c)]

\* Entries are found by index while drops move them: still every event goes
\* once to every monitor that wants it, no client is dropped for another one
\* that closed, and one that closed is dropped (monitor_public, mon_drop,
\* monitor_pollfds, monitor_reap).
ImplementsSubscribers == Promise!Spec
============================================================================
