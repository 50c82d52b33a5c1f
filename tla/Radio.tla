------------------------------- MODULE Radio -------------------------------
(***************************************************************************)
(* What the SX1268 driver promises the main loop, call by call, without    *)
(* its commands: a poll hands out a packet the radio heard, at most once,  *)
(* and says "none" only when there is none; a transmission reported as     *)
(* sent was on the air; and after a call the radio listens or stands by as *)
(* the call's contract says, unless a command to the chip failed in it.    *)
(***************************************************************************)
EXTENDS Naturals

CONSTANTS
  Packet,     \* what another station sends
  Junk        \* the bytes of a packet that failed its checksum

VARIABLES
  call,       \* the driver's function that runs, "none" between calls
  mode,       \* the chip's mode; "deaf": receiving, but nothing would get through
  heard,      \* packets the chip received since the last call that cleared it
  noisy,      \* it also met a corrupt one
  onair,      \* the packet of this call was on the air
  bad,        \* a command to the chip failed during this call, or the last one
  out         \* what the last call returned, "none" during a call

vars == <<call, mode, heard, noisy, onair, bad, out>>

Call == {"poll", "sense", "power", "send", "retune", "reset", "stop"}
Mode == {"standby", "rx", "deaf", "tx", "cad"}
Answer == [poll |-> Packet \cup {Junk, "none", "error"}, sense |-> {"busy", "clear"},
           send |-> {"sent", "failed"}, power |-> {"done"}, retune |-> {"done"},
           reset |-> {"done"}, stop |-> {"done"}]

Init ==
  /\ call = "none" /\ mode = "standby" /\ heard = {} /\ noisy = FALSE
  /\ onair = FALSE /\ bad = FALSE /\ out = "none"

Begin(c) ==
  /\ call = "none"
  /\ call' = c /\ out' = "none" /\ bad' = FALSE
  /\ UNCHANGED <<mode, heard, noisy, onair>>

\* A packet arrives while the radio listens.
Hear(p) ==
  /\ mode = "rx"
  /\ heard' = heard \cup {p}
  /\ UNCHANGED <<call, mode, noisy, onair, bad, out>>

\* A corrupt one arrives. Only a poll that has already looked at the chip's
\* status can take its bytes for a packet.
HearNoise ==
  /\ mode = "rx"
  /\ noisy' = TRUE
  /\ heard' \in {heard, IF call = "poll" THEN heard \cup {Junk} ELSE heard}
  /\ UNCHANGED <<call, mode, onair, bad, out>>

\* A transmission ends, in time or not.
TxEnds ==
  /\ mode = "tx" /\ mode' = "standby"
  /\ onair' = (onair \/ call = "send")
  /\ UNCHANGED <<call, heard, noisy, bad, out>>

SenseEnds == mode = "cad" /\ mode' = "standby" /\ UNCHANGED <<call, heard, noisy, onair, bad, out>>

\* A call other than a poll takes the chip through its modes as it likes.
Work ==
  /\ call \in Call \ {"poll"}
  /\ mode' \in Mode /\ heard' \in {heard, {}} /\ noisy' \in {noisy, FALSE}
  /\ bad' \in {bad, TRUE}
  /\ UNCHANGED <<call, onair, out>>

Fault == call # "none" /\ bad' = TRUE /\ UNCHANGED <<call, mode, heard, noisy, onair, out>>

\* Where a call leaves the radio. A channel check and a change of power leave
\* it in standby (a check given up at its deadline still at work): only the
\* transmission after them listens again.
Leaves ==
  CASE call = "poll" -> {mode}
    [] call \in {"power", "stop"} -> {"standby"}
    [] call = "sense" -> {"standby", "cad"}
    [] OTHER -> {"rx"}

Says(a) ==
  CASE call = "poll" -> \/ a \in heard
                        \/ a = "error" /\ (noisy \/ bad')
                        \/ a = "none" /\ ((heard = {} /\ ~noisy) \/ mode # "rx" \/ bad')
    [] call = "send" -> a = "sent" => onair \/ bad'
    [] OTHER -> TRUE

\* The call returns; the last of its commands may have been the one that failed.
End ==
  /\ call \in Call
  /\ call' = "none" /\ onair' = FALSE
  /\ bad' \in {bad, TRUE}
  /\ out' \in Answer[call] /\ Says(out')
  /\ IF bad'
       THEN mode' \in Mode /\ heard' \in {heard, {}} /\ noisy' \in {noisy, FALSE}
       ELSE /\ mode' \in Leaves
            /\ IF out' = "none" \/ call \in {"power", "stop"}
                 THEN UNCHANGED <<heard, noisy>>
                 ELSE heard' = {} /\ noisy' = FALSE

Next ==
  \/ \E c \in Call : Begin(c)
  \/ \E p \in Packet : Hear(p)
  \/ HearNoise \/ TxEnds \/ SenseEnds \/ Work \/ Fault \/ End

\* Nothing is lost, delivered twice or sent in words only.
Safe == Init /\ [][Next]_vars

\* And every call returns.
Spec == Safe /\ [](call # "none" => <>(call = "none"))
============================================================================
