------------------------------ MODULE Mailbox ------------------------------
(***************************************************************************)
(* The #mbox room of the repeater (mbox.c) and the reply gates of mesh.c,  *)
(* as values: a ring that drops its oldest message, and a table of the     *)
(* stations answered lately, each cooling down.                            *)
(***************************************************************************)
EXTENDS Integers, Sequences

CONSTANTS
  Call,           \* base calls, "" for a sender without one
  MboxMax,        \* MC_MBOX_MAX
  GateMax,        \* entries of mbox_gate
  MboxCooldown    \* MBOX_REPLY_COOLDOWN_MS

ASSUME MailboxAssumption ==
  /\ MboxMax \in Nat \ {0}
  /\ GateMax \in Nat \ {0}
  /\ MboxCooldown \in Nat

\* A message of the box: to whom, and which payload brought it.
LetterSet(Ids) == [to : Call, id : Ids]

\* mbox_store: the oldest message makes room for a new one.
Deposit(box, to, id) ==
  LET letter == [to |-> to, id |-> id]
  IN IF Len(box) < MboxMax THEN Append(box, letter) ELSE Append(Tail(box), letter)

\* The gates are kept in the order of their slots, used ones first: a slot is
\* taken for good, only its owner changes.
Gate == [call : Call, next : Nat]

GateOf(gates, call) == {k \in 1..Len(gates) : gates[k].call = call}

\* Gates that are never found shut.
MayReplyAlways(gates, call, t) == call # ""

\* mbox_rate_ok, its answer: a station without a call is never answered, one
\* with a gate only when the gate has opened.
MayReply(gates, call, t) ==
  /\ call # ""
  /\ \A k \in GateOf(gates, call) : t >= gates[k].next

\* The gate that opens first, the lowest slot of several.
StalestGate(gates) ==
  CHOOSE k \in 1..Len(gates) : \A j \in 1..Len(gates) :
    gates[k].next < gates[j].next \/ (gates[k].next = gates[j].next /\ k <= j)

\* mbox_rate_ok, its effect when it answers yes: the station's gate, a free one,
\* or else the stalest one, closes for the cooldown.
CloseGate(gates, call, t) ==
  LET gate == [call |-> call, next |-> t + MboxCooldown]
  IN IF GateOf(gates, call) # {}
     THEN [k \in 1..Len(gates) |-> IF gates[k].call = call THEN gate ELSE gates[k]]
     ELSE IF Len(gates) < GateMax THEN Append(gates, gate)
     ELSE [gates EXCEPT ![StalestGate(gates)] = gate]
=============================================================================
