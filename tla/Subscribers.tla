---------------------------- MODULE Subscribers ----------------------------
(***************************************************************************)
(* What the control interface promises the clients that monitor: every     *)
(* event is written once to each of them whose target covers it, a client  *)
(* leaves the table only once its own end is closed, and then it does.     *)
(***************************************************************************)
EXTENDS Naturals, FiniteSets

CONSTANTS
  Client,       \* the clients of the control port, each with one connection
  Target,       \* what a client may monitor: [kind, name]
  Event,        \* what there is to tell: [kind, name]
  MaxMonitors,  \* MC_MAX_MONITORS
  Watched       \* the clients whose leaving is watched; all clients are alike

VARIABLES
  table,        \* what each subscribed client monitors
  closed,       \* the clients that have closed their end
  offered       \* how often the last event was written to each client

vars == <<table, closed, offered>>

\* README.md 550-556: everything, the text of any channel, of one channel or
\* room, the traffic of one room, or one kind of event.
Covers(t, e) ==
  \/ t.kind = "all"
  \/ t.kind = e.kind /\ t.kind \in {"public", "advert", "drop", "tx"}
  \/ t.kind \in {"channel", "room"} /\ e.kind = "public" /\ t.name = e.name
  \/ t.kind = "room" /\ e.kind = "room" /\ t.name = e.name

Nobody == [c \in Client |-> 0]
Without(gone) == [c \in DOMAIN table \ gone |-> table[c]]

Init == table = [c \in {} |-> Nobody] /\ closed = {} /\ offered = Nobody

Join(c, t) ==
  /\ c \notin DOMAIN table /\ Cardinality(DOMAIN table) < MaxMonitors
  /\ table' = [x \in DOMAIN table \cup {c} |-> IF x = c THEN t ELSE table[x]]
  /\ closed' \in {closed, closed \cup {c}}
  /\ UNCHANGED offered

Close(c) == closed' = closed \cup {c} /\ UNCHANGED <<table, offered>>
Return(c) == c \notin DOMAIN table /\ closed' = closed \ {c} /\ UNCHANGED <<table, offered>>

\* The writing of an event may find that a client is gone.
Tell(e) ==
  /\ offered' = [c \in Client |-> IF c \in DOMAIN table /\ Covers(table[c], e) THEN 1 ELSE 0]
  /\ \E gone \in SUBSET closed : table' = Without(gone)
  /\ UNCHANGED closed

Quiet == offered' = Nobody /\ UNCHANGED <<table, closed>>

\* Clients that have closed are taken out.
Leave(gone) == table' = Without(gone) /\ UNCHANGED <<closed, offered>>

Next ==
  \/ \E c \in Client : Close(c) \/ Return(c) \/ \E t \in Target : Join(c, t)
  \/ \E e \in Event : Tell(e)
  \/ Quiet
  \/ \E gone \in SUBSET closed : Leave(gone)

\* Nobody is left out, told twice or dropped without reason.
Safe == Init /\ [][Next]_vars

\* And a client that has closed is dropped in the end.
Spec ==
  /\ Safe
  /\ \A c \in Watched : [](c \in closed /\ c \in DOMAIN table => <>(c \notin DOMAIN table))
============================================================================
