--------------------------- MODULE Sx126x_proofs ---------------------------
(***************************************************************************)
(* The driver is safe for all packets and powers, however many commands    *)
(* fail: the antenna is not switched to the receiver while the chip        *)
(* transmits unless the chip refused to stop, and a packet goes on air as  *)
(* its callers asked. The argument looks ahead: what is left of a call     *)
(* still stops the chip, or sets the switch, or writes the register, before*)
(* the step that needs it. The second half proves that the driver keeps    *)
(* its contract, Radio: that looks back at what the call has reached.      *)
(***************************************************************************)
EXTENDS Sx126x, SequenceTheorems, TLAPS

\* The commands.
Cmd ==
  {"standby", "clear", "sw_rx", "sw_tx", "sw_off", "mask_rx", "mask_tx", "mask_cad", "set_rx",
   "set_tx", "set_cad", "await_tx", "await_cad", "cad_params", "length", "base", "write",
   "power", "modem", "packet", "freq", "image", "pa", "type", "sync", "reset", "regulator",
   "clear_errors", "tcxo", "calibrate", "errors", "dio", "irq", "pkt_status", "buf_status", "read"}

\* Nothing from here on writes a register, resets the chip or probes its clock.
Plain(s) == Writes(s) = {} /\ s \notin {"errors", "reset"}

\* What is left of a call, t: before it switches to the receiver it stops the chip,
\* or the chip is stopped, or refused to; before it transmits it sets the switch.
SwitchOK(t, mode, bad, antenna) ==
  \A i \in 1..Len(t) :
    /\ t[i] = "sw_rx" =>
         \/ \E j \in 1..i - 1 : t[j] = "standby" /\ \A k \in j..i - 1 : t[k] # "set_tx"
         \/ (mode # "tx" \/ "standby" \in bad) /\ \A k \in 1..i - 1 : t[k] # "set_tx"
    /\ t[i] = "set_tx" => IF i = 1 THEN antenna = "tx" ELSE t[i - 1] = "sw_tx"

\* The registers that keep their values between calls; without a TCXO the clock is
\* as the reset leaves it.
Lasting(tcxo) ==
  {"freq", "modem", "power", "packet", "sync"} \cup (IF tcxo THEN {"clock"} ELSE {})

\* The order of the steps left: nothing is written after a transmission, a TCXO is
\* probed once it is set, and everything is written after a reset.
OrderOK(t, tcxo) ==
  \A i \in 1..Len(t) :
    /\ t[i] \in {"set_tx", "dio", "irq"} => \A k \in i..Len(t) : Plain(t[k])
    /\ t[i] = "set_tx" => \A k \in 1..i : t[k] \notin {"packet", "reset"}
    /\ t[i] = "tcxo" => \E j \in i + 1..Len(t) : t[j] = "errors"
    /\ t[i] = "reset" =>
         /\ i = 1 \/ (i = 2 /\ t[1] = "sw_off")
         /\ \A r \in Lasting(tcxo) : \E j \in i + 1..Len(t) : r \in Writes(t[j])

\* Before a transmission the payload and its length are written, or have been.
FilledOK(t, reg, lost, a) ==
  \A i \in 1..Len(t) :
    t[i] = "set_tx" =>
      /\ "length" \in lost \/ reg["length"] = a.payload \/ \E j \in 1..i - 1 : t[j] = "length"
      /\ "buffer" \in lost \/ reg["buffer"] = a.payload \/ \E j \in 1..i - 1 : t[j] = "write"

\* What a lasting register must hold.
Due(r, a) ==
  CASE r \in {"freq", "modem", "packet"} -> a.tuning
    [] r = "power" -> a.power
    [] OTHER -> 1

\* Every lasting register holds what was asked for, or will be written.
SetOK(t, reg, lost, a, tcxo) ==
  /\ \A r \in Lasting(tcxo) :
       r \in lost \/ reg[r] = Due(r, a) \/ \E i \in 1..Len(t) : r \in Writes(t[i])
  /\ ~tcxo =>
       "clock" \in lost \/ reg["clock"] = Unset \/ \E i \in 1..Len(t) : t[i] \in {"errors", "reset"}

\* A call as it begins: it relies on nothing of the chip's mode, nor of the switch.
StartOK(t, tcxo) ==
  /\ t \in Seq(Cmd) /\ t # <<>>
  /\ OrderOK(t, tcxo)
  /\ \A mode, bad, antenna : SwitchOK(t, mode, bad, antenna)
  /\ \A reg, lost, a : FilledOK(t, reg, lost, a)

\* A part of a call that neither resets nor transmits.
Tame(t) ==
  /\ t \in Seq(Cmd)
  /\ \A i \in 1..Len(t) :
       /\ t[i] \notin {"set_tx", "tcxo", "reset", "dio", "irq"}
       /\ t[i] = "sw_rx" => \E j \in 1..i - 1 : t[j] = "standby"
----------------------------------------------------------------------------
(* The calls.                                                              *)
LEMMA WritesAre ==
  /\ \A s : Writes(s) \subseteq Register
  /\ Writes("freq") = {"freq"} /\ Writes("modem") = {"modem"} /\ Writes("power") = {"power"}
  /\ Writes("tcxo") = {"clock"} /\ Writes("sync") = {"sync"} /\ Writes("write") = {"buffer"}
  /\ Writes("packet") = {"packet", "length"} /\ Writes("length") = {"packet", "length"}
  /\ \A s : s \notin {"freq", "modem", "power", "tcxo", "sync", "write", "packet", "length"}
              => Writes(s) = {}
BY DEF Writes, Register

LEMMA Joined ==
  ASSUME NEW p \in Seq(Cmd), NEW q \in Seq(Cmd), NEW t, t = p \o q
  PROVE  /\ t \in Seq(Cmd) /\ Len(t) = Len(p) + Len(q) /\ Len(p) \in Nat /\ Len(q) \in Nat
         /\ \A i \in 1..Len(p) : i \in 1..Len(t) /\ t[i] = p[i]
         /\ \A i \in 1..Len(q) : Len(p) + i \in 1..Len(t) /\ t[Len(p) + i] = q[i]
         /\ \A i \in 1..Len(t) : \/ i \in 1..Len(p) /\ t[i] = p[i]
                                 \/ i - Len(p) \in 1..Len(q) /\ t[i] = q[i - Len(p)]
<1>1. Len(p) \in Nat /\ Len(q) \in Nat /\ Len(t) = Len(p) + Len(q) /\ t \in Seq(Cmd)
  OBVIOUS
<1>2. \A i \in 1..Len(p) : i \in 1..Len(t) /\ t[i] = p[i]
  BY <1>1
<1>3. \A i \in 1..Len(q) : Len(p) + i \in 1..Len(t) /\ t[Len(p) + i] = q[i]
  BY <1>1
<1>4. ASSUME NEW i \in 1..Len(t)
      PROVE  \/ i \in 1..Len(p) /\ t[i] = p[i]
             \/ i - Len(p) \in 1..Len(q) /\ t[i] = q[i - Len(p)]
  <2>1. CASE i <= Len(p)
    BY <1>1, <1>2, <2>1
  <2>2. CASE i > Len(p)
    <3>1. i - Len(p) \in 1..Len(q) /\ Len(p) + (i - Len(p)) = i
      BY <1>1, <2>2
    <3>2. QED
      BY <1>3, <3>1
  <2>3. QED
    BY <1>1, <2>1, <2>2
<1>5. QED
  BY <1>1, <1>2, <1>3, <1>4

LEMMA JoinedIs ==
  ASSUME NEW p \in Seq(Cmd), NEW q \in Seq(Cmd)
  PROVE  /\ p \o q \in Seq(Cmd) /\ Len(p \o q) = Len(p) + Len(q)
         /\ \A i \in 1..Len(p) : (p \o q)[i] = p[i]
         /\ \A i \in 1..Len(q) : (p \o q)[Len(p) + i] = q[i]
BY Joined

LEMMA TameJoined ==
  ASSUME NEW p, Tame(p), NEW q, Tame(q)
  PROVE  Tame(p \o q)
<1> DEFINE t == p \o q
<1>1. p \in Seq(Cmd) /\ q \in Seq(Cmd)
  BY DEF Tame
<1>2. /\ t \in Seq(Cmd) /\ Len(t) = Len(p) + Len(q) /\ Len(p) \in Nat /\ Len(q) \in Nat
      /\ \A i \in 1..Len(p) : i \in 1..Len(t) /\ t[i] = p[i]
      /\ \A i \in 1..Len(q) : Len(p) + i \in 1..Len(t) /\ t[Len(p) + i] = q[i]
      /\ \A i \in 1..Len(t) : \/ i \in 1..Len(p) /\ t[i] = p[i]
                              \/ i - Len(p) \in 1..Len(q) /\ t[i] = q[i - Len(p)]
  BY <1>1, Joined
<1> HIDE DEF t
<1>3. ASSUME NEW i \in 1..Len(t)
      PROVE  /\ t[i] \notin {"set_tx", "tcxo", "reset", "dio", "irq"}
             /\ t[i] = "sw_rx" => \E j \in 1..i - 1 : t[j] = "standby"
  <2>1. CASE i \in 1..Len(p) /\ t[i] = p[i]
    <3>1. \A j \in 1..i - 1 : t[j] = p[j]
      BY <1>2, <2>1
    <3>2. QED
      BY <2>1, <3>1 DEF Tame
  <2>2. CASE i - Len(p) \in 1..Len(q) /\ t[i] = q[i - Len(p)]
    <3>1. t[i] \notin {"set_tx", "tcxo", "reset", "dio", "irq"}
      BY <2>2 DEF Tame
    <3>2. ASSUME t[i] = "sw_rx"
          PROVE  \E j \in 1..i - 1 : t[j] = "standby"
      <4>1. PICK j \in 1..i - Len(p) - 1 : q[j] = "standby"
        BY <2>2, <3>2 DEF Tame
      <4>2. j \in 1..Len(q) /\ Len(p) + j \in 1..i - 1
        BY <1>2, <2>2
      <4>3. QED
        BY <1>2, <4>1, <4>2
    <3>3. QED
      BY <3>1, <3>2
  <2>3. QED
    BY <1>2, <2>1, <2>2
<1>4. QED
  BY <1>2, <1>3 DEF Tame, t

LEMMA TameStarts ==
  ASSUME NEW t, Tame(t), t # <<>>, NEW tcxo
  PROVE  StartOK(t, tcxo)
<1>1. t \in Seq(Cmd) /\ Len(t) \in Nat
  BY DEF Tame
<1>2. OrderOK(t, tcxo) /\ \A reg, lost, a : FilledOK(t, reg, lost, a)
  BY <1>1 DEF Tame, OrderOK, FilledOK
<1>3. ASSUME NEW mode, NEW bad, NEW antenna
      PROVE  SwitchOK(t, mode, bad, antenna)
  <2>1. ASSUME NEW i \in 1..Len(t), t[i] = "sw_rx"
        PROVE  \E j \in 1..i - 1 : t[j] = "standby" /\ \A k \in j..i - 1 : t[k] # "set_tx"
    <3>1. PICK j \in 1..i - 1 : t[j] = "standby"
      BY <2>1 DEF Tame
    <3>2. \A k \in j..i - 1 : k \in 1..Len(t)
      BY <1>1, <2>1
    <3>3. QED
      BY <3>1, <3>2 DEF Tame
  <2>2. QED
    BY <2>1 DEF SwitchOK, Tame
<1>4. QED
  BY <1>1, <1>2, <1>3 DEF StartOK

LEMMA TameParts ==
  /\ Tame(StartRx) /\ Tame(ChannelBusy) /\ Tame(SetTxPower) /\ Tame(Standby)
  /\ Tame(<<"clear">>) /\ Tame(<<"pkt_status", "clear">>)
  /\ Tame(<<"buf_status", "read", "pkt_status", "clear">>)
  /\ Tame(<<"sw_off">>) /\ Tame(<<"standby", "power", "modem", "packet">>)
  /\ Tame(<<"standby", "freq", "image">>)
<1>1. Tame(StartRx)
  BY DEF Tame, StartRx, Cmd
<1>2. Tame(ChannelBusy)
  BY DEF Tame, ChannelBusy, Cmd
<1>3. Tame(SetTxPower) /\ Tame(Standby) /\ Tame(<<"sw_off">>)
  BY DEF Tame, SetTxPower, Standby, Cmd
<1>4. /\ Tame(<<"clear">>) /\ Tame(<<"pkt_status", "clear">>)
      /\ Tame(<<"buf_status", "read", "pkt_status", "clear">>)
  BY DEF Tame, Cmd
<1>5. Tame(<<"standby", "power", "modem", "packet">>) /\ Tame(<<"standby", "freq", "image">>)
  BY DEF Tame, Cmd
<1>6. QED
  BY <1>1, <1>2, <1>3, <1>4, <1>5

LEMMA TransmitIs ==
  /\ Transmit \in Seq(Cmd) /\ Len(Transmit) = 16
  /\ Transmit[1] = "standby" /\ Transmit[2] = "clear" /\ Transmit[3] = "length"
  /\ Transmit[4] = "base" /\ Transmit[5] = "write" /\ Transmit[6] = "mask_tx"
  /\ Transmit[7] = "sw_tx" /\ Transmit[8] = "set_tx" /\ Transmit[9] = "await_tx"
  /\ Transmit[10] = "clear" /\ Transmit[11] = "sw_off" /\ Transmit[12] = "standby"
  /\ Transmit[13] = "clear" /\ Transmit[14] = "mask_rx" /\ Transmit[15] = "sw_rx"
  /\ Transmit[16] = "set_rx"
<1> DEFINE p == <<"standby", "clear", "length", "base", "write", "mask_tx", "sw_tx", "set_tx",
                  "await_tx", "clear", "sw_off">>
<1>1. p \in Seq(Cmd) /\ Len(p) = 11
  BY DEF Cmd
<1>2. StartRx \in Seq(Cmd) /\ Len(StartRx) = 5
  BY DEF StartRx, Cmd
<1>3. /\ p[1] = "standby" /\ p[2] = "clear" /\ p[3] = "length" /\ p[4] = "base"
      /\ p[5] = "write" /\ p[6] = "mask_tx" /\ p[7] = "sw_tx" /\ p[8] = "set_tx"
      /\ p[9] = "await_tx" /\ p[10] = "clear" /\ p[11] = "sw_off"
  OBVIOUS
<1>4. /\ StartRx[1] = "standby" /\ StartRx[2] = "clear" /\ StartRx[3] = "mask_rx"
      /\ StartRx[4] = "sw_rx" /\ StartRx[5] = "set_rx"
  BY DEF StartRx
<1>5. Transmit = p \o StartRx
  BY DEF Transmit
<1> HIDE DEF p
<1>6. /\ Transmit \in Seq(Cmd) /\ Len(Transmit) = 11 + 5
      /\ \A i \in 1..11 : Transmit[i] = p[i]
      /\ \A i \in 1..5 : Transmit[11 + i] = StartRx[i]
  <2>1. /\ Transmit \in Seq(Cmd) /\ Len(Transmit) = Len(p) + Len(StartRx)
        /\ \A i \in 1..Len(p) : Transmit[i] = p[i]
        /\ \A i \in 1..Len(StartRx) : Transmit[Len(p) + i] = StartRx[i]
    BY <1>1, <1>2, <1>5, JoinedIs
  <2>2. QED
    BY <2>1, <1>1, <1>2
<1>7. /\ Transmit[11 + 1] = "standby" /\ Transmit[11 + 2] = "clear" /\ Transmit[11 + 3] = "mask_rx"
      /\ Transmit[11 + 4] = "sw_rx" /\ Transmit[11 + 5] = "set_rx"
  BY <1>4, <1>6
<1>8. QED
  BY <1>3, <1>6, <1>7

LEMMA TransmitStarts ==
  ASSUME NEW tcxo
  PROVE  StartOK(Transmit, tcxo)
<1> DEFINE t == Transmit
<1>1. \A i \in 1..Len(t) : i \in 1..16
  BY TransmitIs
<1>2. ASSUME NEW mode, NEW bad, NEW antenna
      PROVE  SwitchOK(t, mode, bad, antenna)
  <2>1. ASSUME NEW i \in 1..Len(t), t[i] = "sw_rx"
        PROVE  \E j \in 1..i - 1 : t[j] = "standby" /\ \A k \in j..i - 1 : t[k] # "set_tx"
    <3>1. i = 15
      BY <1>1, <2>1, TransmitIs
    <3>2. t[12] = "standby" /\ \A k \in 12..14 : t[k] # "set_tx"
      BY TransmitIs
    <3>3. QED
      BY <3>1, <3>2
  <2>2. ASSUME NEW i \in 1..Len(t), t[i] = "set_tx"
        PROVE  i # 1 /\ t[i - 1] = "sw_tx"
    <3>1. i = 8
      BY <1>1, <2>2, TransmitIs
    <3>2. QED
      BY <3>1, TransmitIs
  <2>3. QED
    BY <2>1, <2>2 DEF SwitchOK
<1>3. OrderOK(t, tcxo)
  <2>1. \A i \in 1..16 : t[i] \in {"set_tx", "dio", "irq"} => i = 8
    BY TransmitIs
  <2>2. \A i \in 1..16 : t[i] # "tcxo" /\ t[i] # "reset"
    BY TransmitIs
  <2>3. \A k \in 8..16 : Plain(t[k])
    BY TransmitIs, WritesAre DEF Plain
  <2>4. \A k \in 1..8 : t[k] \notin {"packet", "reset"}
    BY TransmitIs
  <2>5. QED
    BY <2>1, <2>2, <2>3, <2>4, TransmitIs DEF OrderOK
<1>4. ASSUME NEW reg, NEW lost, NEW a
      PROVE  FilledOK(t, reg, lost, a)
  <2>1. \A i \in 1..16 : t[i] = "set_tx" => i = 8
    BY TransmitIs
  <2>2. 3 \in 1..7 /\ 5 \in 1..7 /\ t[3] = "length" /\ t[5] = "write"
    BY TransmitIs
  <2>3. QED
    BY <2>1, <2>2, TransmitIs DEF FilledOK
<1>5. t # <<>>
  <2>1. Len(t) = 16
    BY TransmitIs
  <2>2. QED
    BY <2>1
<1>6. t \in Seq(Cmd)
  BY TransmitIs
<1> HIDE DEF t
<1>7. StartOK(t, tcxo)
  BY <1>2, <1>3, <1>4, <1>5, <1>6 DEF StartOK
<1>8. QED
  BY <1>7 DEF t

LEMMA InitParts ==
  LET p == <<"sw_off", "reset", "standby", "regulator", "clear_errors">>
      q == <<"tcxo", "calibrate", "standby", "errors">>
      e == <<"type", "freq", "image", "pa", "power", "modem", "packet", "sync", "base">>
  IN  /\ p \in Seq(Cmd) /\ Len(p) = 5 /\ p[1] = "sw_off" /\ p[2] = "reset"
      /\ p[3] = "standby" /\ p[4] = "regulator" /\ p[5] = "clear_errors"
      /\ q \in Seq(Cmd) /\ Len(q) = 4 /\ q[1] = "tcxo" /\ q[2] = "calibrate"
      /\ q[3] = "standby" /\ q[4] = "errors"
      /\ e \in Seq(Cmd) /\ Len(e) = 9 /\ e[1] = "type" /\ e[2] = "freq" /\ e[3] = "image"
      /\ e[4] = "pa" /\ e[5] = "power" /\ e[6] = "modem" /\ e[7] = "packet"
      /\ e[8] = "sync" /\ e[9] = "base"
      /\ StartRx \in Seq(Cmd) /\ Len(StartRx) = 5 /\ StartRx[1] = "standby"
      /\ StartRx[2] = "clear" /\ StartRx[3] = "mask_rx" /\ StartRx[4] = "sw_rx"
      /\ StartRx[5] = "set_rx"
BY DEF StartRx, Cmd

\* The steps that follow the probe of the oscillator, from n on.
SetUpAt(t, n) ==
  /\ t[n] = "type" /\ t[n + 1] = "freq" /\ t[n + 2] = "image" /\ t[n + 3] = "pa"
  /\ t[n + 4] = "power" /\ t[n + 5] = "modem" /\ t[n + 6] = "packet" /\ t[n + 7] = "sync"
  /\ t[n + 8] = "base" /\ t[n + 9] = "standby" /\ t[n + 10] = "clear"
  /\ t[n + 11] = "mask_rx" /\ t[n + 12] = "sw_rx" /\ t[n + 13] = "set_rx"

LEMMA BringUpIs ==
  ASSUME NEW tcxo \in BOOLEAN, NEW n, n = IF tcxo THEN 10 ELSE 6
  PROVE  LET t == BringUp(tcxo)
         IN  /\ t \in Seq(Cmd) /\ Len(t) = n + 13
             /\ t[1] = "sw_off" /\ t[2] = "reset" /\ t[3] = "standby" /\ t[4] = "regulator"
             /\ t[5] = "clear_errors"
             /\ tcxo => t[6] = "tcxo" /\ t[7] = "calibrate" /\ t[8] = "standby" /\ t[9] = "errors"
             /\ SetUpAt(t, n)
<1> DEFINE p == <<"sw_off", "reset", "standby", "regulator", "clear_errors">>
           q == <<"tcxo", "calibrate", "standby", "errors">>
           o == IF tcxo THEN q ELSE <<>>
           e == <<"type", "freq", "image", "pa", "power", "modem", "packet", "sync", "base">>
           a == p \o o
           b == a \o e
           t == b \o StartRx
<1>1. o \in Seq(Cmd) /\ Len(o) = IF tcxo THEN 4 ELSE 0
  BY InitParts
<1>2. BringUp(tcxo) = t
  BY DEF BringUp, InitSequence
<1>p. p \in Seq(Cmd) /\ Len(p) = 5
  BY InitParts
<1>e. e \in Seq(Cmd) /\ Len(e) = 9
  BY InitParts
<1>r. StartRx \in Seq(Cmd) /\ Len(StartRx) = 5
  BY InitParts
<1>3. /\ \A i \in 1..5 : i = 1 \/ i = 2 \/ i = 3 \/ i = 4 \/ i = 5
      /\ p[1] = "sw_off" /\ p[2] = "reset" /\ p[3] = "standby" /\ p[4] = "regulator"
      /\ p[5] = "clear_errors"
  BY InitParts
<1>4. tcxo => o[1] = "tcxo" /\ o[2] = "calibrate" /\ o[3] = "standby" /\ o[4] = "errors"
  BY InitParts
<1>5. /\ e[1] = "type" /\ e[2] = "freq" /\ e[3] = "image"
      /\ e[4] = "pa" /\ e[5] = "power" /\ e[6] = "modem" /\ e[7] = "packet"
      /\ e[8] = "sync" /\ e[9] = "base"
  BY InitParts
<1> HIDE DEF p, o, e
<1>6. /\ a \in Seq(Cmd) /\ Len(a) = n - 1
      /\ \A i \in 1..5 : a[i] = p[i]
      /\ \A i \in 1..4 : tcxo => a[5 + i] = o[i]
  <2>1. /\ a \in Seq(Cmd) /\ Len(a) = Len(p) + Len(o)
        /\ \A i \in 1..Len(p) : a[i] = p[i]
        /\ \A i \in 1..Len(o) : a[Len(p) + i] = o[i]
    BY <1>p, <1>1, JoinedIs
  <2> HIDE DEF a
  <2>2. QED
    BY <2>1, <1>p, <1>1
<1>7. /\ b \in Seq(Cmd) /\ Len(b) = n + 8
      /\ \A i \in 1..n - 1 : b[i] = a[i]
      /\ \A i \in 1..9 : b[n - 1 + i] = e[i]
  <2>1. /\ b \in Seq(Cmd) /\ Len(b) = Len(a) + Len(e)
        /\ \A i \in 1..Len(a) : b[i] = a[i]
        /\ \A i \in 1..Len(e) : b[Len(a) + i] = e[i]
    BY <1>6, <1>e, JoinedIs
  <2> HIDE DEF a, b
  <2>2. QED
    BY <2>1, <1>6, <1>e
<1>8. /\ t \in Seq(Cmd) /\ Len(t) = n + 13
      /\ \A i \in 1..n + 8 : t[i] = b[i]
      /\ \A i \in 1..5 : t[n + 8 + i] = StartRx[i]
  <2>1. /\ t \in Seq(Cmd) /\ Len(t) = Len(b) + Len(StartRx)
        /\ \A i \in 1..Len(b) : t[i] = b[i]
        /\ \A i \in 1..Len(StartRx) : t[Len(b) + i] = StartRx[i]
    BY <1>7, <1>r, JoinedIs
  <2> HIDE DEF b, t
  <2>2. QED
    BY <2>1, <1>7, <1>r
<1> HIDE DEF a, b, t
<1>9. n \in {6, 10}
  OBVIOUS
<1>10. /\ t[1] = "sw_off" /\ t[2] = "reset" /\ t[3] = "standby" /\ t[4] = "regulator"
       /\ t[5] = "clear_errors"
  <2>1. \A i \in 1..5 : i \in 1..n - 1 /\ i \in 1..n + 8
    BY <1>9
  <2>2. \A i \in 1..5 : t[i] = p[i]
    BY <2>1, <1>6, <1>7, <1>8
  <2>3. QED
    BY <2>2, <1>3
<1>11. tcxo => t[6] = "tcxo" /\ t[7] = "calibrate" /\ t[8] = "standby" /\ t[9] = "errors"
  <2>1. ASSUME tcxo
        PROVE  \A i \in 1..4 : t[5 + i] = o[i]
    <3>1. n = 10
      BY <2>1
    <3>2. \A i \in 1..4 : 5 + i \in 1..n - 1 /\ 5 + i \in 1..n + 8
      BY <3>1
    <3>3. QED
      BY <2>1, <3>2, <1>6, <1>7, <1>8
  <2>2. QED
    BY <2>1, <1>4
<1>12. SetUpAt(t, n)
  <2>1. \A i \in 1..9 : t[n - 1 + i] = e[i]
    <3>1. \A i \in 1..9 : n - 1 + i \in 1..n + 8
      BY <1>9
    <3>2. QED
      BY <3>1, <1>7, <1>8
  <2>2. /\ t[n] = "type" /\ t[n + 1] = "freq" /\ t[n + 2] = "image" /\ t[n + 3] = "pa"
        /\ t[n + 4] = "power" /\ t[n + 5] = "modem" /\ t[n + 6] = "packet"
        /\ t[n + 7] = "sync" /\ t[n + 8] = "base"
    <3>1. CASE n = 6
      BY <2>1, <1>5, <3>1
    <3>2. CASE n = 10
      BY <2>1, <1>5, <3>2
    <3>3. QED
      BY <1>9, <3>1, <3>2
  <2>3. /\ t[n + 9] = "standby" /\ t[n + 10] = "clear"
        /\ t[n + 11] = "mask_rx" /\ t[n + 12] = "sw_rx" /\ t[n + 13] = "set_rx"
    BY <1>8, <1>9, InitParts
  <2>4. QED
    BY <2>2, <2>3 DEF SetUpAt
<1>13. QED
  BY <1>2, <1>8, <1>10, <1>11, <1>12

\* Every lasting register is written by t, after a reset.
SetsAll(t, tcxo) ==
  /\ \A r \in Lasting(tcxo) : \E i \in 1..Len(t) : r \in Writes(t[i])
  /\ \E i \in 1..Len(t) : t[i] = "reset"

LEMMA BringUpStarts ==
  ASSUME NEW probed \in BOOLEAN, NEW tcxo \in BOOLEAN, tcxo => probed
  PROVE  StartOK(BringUp(probed), tcxo) /\ SetsAll(BringUp(probed), tcxo)
<1> DEFINE t == BringUp(probed)
           n == IF probed THEN 10 ELSE 6
<1>1. /\ t \in Seq(Cmd) /\ Len(t) = n + 13
      /\ t[1] = "sw_off" /\ t[2] = "reset" /\ t[3] = "standby" /\ t[4] = "regulator"
      /\ t[5] = "clear_errors"
      /\ probed => t[6] = "tcxo" /\ t[7] = "calibrate" /\ t[8] = "standby" /\ t[9] = "errors"
      /\ SetUpAt(t, n)
  BY BringUpIs
<1> HIDE DEF t
<1>2. (n = 6 /\ ~probed) \/ (n = 10 /\ probed)
  BY DEF n
<1> HIDE DEF n
<1>3. \A i \in 1..Len(t) :
        /\ t[i] \notin {"set_tx", "dio", "irq"}
        /\ t[i] = "sw_rx" => i = n + 12
        /\ t[i] = "tcxo" => i = 6 /\ probed
        /\ t[i] = "reset" => i = 2
  <2>1. CASE n = 6 /\ ~probed
    BY <1>1, <2>1 DEF SetUpAt
  <2>2. CASE n = 10 /\ probed
    <3>1. /\ t[10] = "type" /\ t[11] = "freq" /\ t[12] = "image" /\ t[13] = "pa"
          /\ t[14] = "power" /\ t[15] = "modem" /\ t[16] = "packet" /\ t[17] = "sync"
          /\ t[18] = "base" /\ t[19] = "standby" /\ t[20] = "clear"
          /\ t[21] = "mask_rx" /\ t[22] = "sw_rx" /\ t[23] = "set_rx"
      BY <1>1, <2>2 DEF SetUpAt
    <3>2. \A i \in 10..23 :
            t[i] \notin {"set_tx", "dio", "irq", "tcxo", "reset"} /\ (t[i] = "sw_rx" => i = 22)
      <4>1. \A i \in 10..16 : t[i] \notin {"set_tx", "dio", "irq", "tcxo", "reset", "sw_rx"}
        BY <3>1
      <4>2. \A i \in 17..23 :
              t[i] \notin {"set_tx", "dio", "irq", "tcxo", "reset"} /\ (t[i] = "sw_rx" => i = 22)
        BY <3>1
      <4>3. \A i \in 10..23 : i \in 10..16 \/ i \in 17..23
        OBVIOUS
      <4>4. QED
        BY <4>1, <4>2, <4>3
    <3>3. \A i \in 1..9 :
            t[i] \notin {"set_tx", "dio", "irq", "sw_rx"} /\ (t[i] = "tcxo" => i = 6)
              /\ (t[i] = "reset" => i = 2)
      <4>1. /\ t[1] = "sw_off" /\ t[2] = "reset" /\ t[3] = "standby" /\ t[4] = "regulator"
            /\ t[5] = "clear_errors" /\ t[6] = "tcxo" /\ t[7] = "calibrate" /\ t[8] = "standby"
            /\ t[9] = "errors"
        BY <1>1, <2>2
      <4>2. QED
        BY <4>1
    <3>4. \A i \in 1..Len(t) : i \in 1..9 \/ i \in 10..23
      <4>1. Len(t) = 23
        BY <1>1, <2>2
      <4>2. QED
        BY <4>1
    <3>5. n + 12 = 22
      BY <2>2
    <3>6. ASSUME NEW i \in 1..Len(t)
          PROVE  /\ t[i] \notin {"set_tx", "dio", "irq"}
                 /\ t[i] = "sw_rx" => i = n + 12
                 /\ t[i] = "tcxo" => i = 6
                 /\ t[i] = "reset" => i = 2
      <4>1. CASE i \in 1..9
        BY <3>3, <4>1
      <4>2. CASE i \in 10..23
        BY <3>2, <3>5, <4>2
      <4>3. QED
        BY <3>4, <4>1, <4>2
    <3>7. QED
      BY <2>2, <3>6
  <2>3. QED
    BY <1>2, <2>1, <2>2
<1>4. ASSUME NEW r \in Lasting(tcxo)
      PROVE  \E j \in 3..Len(t) : r \in Writes(t[j])
  <2>1. \A j \in {n + 1, n + 4, n + 5, n + 6, n + 7} : j \in 3..Len(t)
    BY <1>1, <1>2
  <2>2. /\ "freq" \in Writes(t[n + 1]) /\ "power" \in Writes(t[n + 4])
        /\ "modem" \in Writes(t[n + 5]) /\ "packet" \in Writes(t[n + 6])
        /\ "sync" \in Writes(t[n + 7])
    BY <1>1, WritesAre DEF SetUpAt
  <2>3. CASE r \in {"freq", "modem", "power", "packet", "sync"}
    BY <2>1, <2>2, <2>3
  <2>4. CASE tcxo /\ r = "clock"
    <3>1. t[6] = "tcxo" /\ 6 \in 3..Len(t)
      BY <1>1, <1>2, <2>4
    <3>2. QED
      BY <2>4, <3>1, WritesAre
  <2>5. QED
    BY <2>3, <2>4 DEF Lasting
<1>5. OrderOK(t, tcxo)
  <2>1. ASSUME NEW i \in 1..Len(t), t[i] = "tcxo"
        PROVE  \E j \in i + 1..Len(t) : t[j] = "errors"
    <3>1. i = 6 /\ probed
      BY <1>3, <2>1
    <3>2. 9 \in i + 1..Len(t) /\ t[9] = "errors"
      BY <1>1, <1>2, <3>1
    <3>3. QED
      BY <3>2
  <2>2. ASSUME NEW i \in 1..Len(t), t[i] = "reset"
        PROVE  /\ i = 1 \/ (i = 2 /\ t[1] = "sw_off")
               /\ \A r \in Lasting(tcxo) : \E j \in i + 1..Len(t) : r \in Writes(t[j])
    <3>1. i = 2 /\ i + 1 = 3
      BY <1>3, <2>2
    <3>2. QED
      BY <1>1, <1>4, <3>1
  <2>3. QED
    BY <1>3, <2>1, <2>2 DEF OrderOK
<1>6. ASSUME NEW mode, NEW bad, NEW antenna
      PROVE  SwitchOK(t, mode, bad, antenna)
  <2>1. ASSUME NEW i \in 1..Len(t), t[i] = "sw_rx"
        PROVE  \E j \in 1..i - 1 : t[j] = "standby" /\ \A k \in j..i - 1 : t[k] # "set_tx"
    <3>1. i = n + 12
      BY <1>3, <2>1
    <3>2. n + 9 \in 1..i - 1 /\ \A k \in n + 9..i - 1 : k \in 1..Len(t)
      BY <1>1, <1>2, <3>1
    <3>3. t[n + 9] = "standby"
      BY <1>1 DEF SetUpAt
    <3>4. QED
      BY <1>3, <3>2, <3>3
  <2>2. QED
    BY <1>3, <2>1 DEF SwitchOK
<1>7. \A reg, lost, a : FilledOK(t, reg, lost, a)
  BY <1>3 DEF FilledOK
<1>8. t # <<>>
  <2>1. Len(t) # 0
    BY <1>1, <1>2
  <2>2. QED
    BY <2>1
<1>9. StartOK(t, tcxo)
  <2>1. t \in Seq(Cmd)
    BY <1>1
  <2>2. QED
    BY <2>1, <1>5, <1>6, <1>7, <1>8 DEF StartOK
<1>10. SetsAll(t, tcxo)
  <2>1. \A r \in Lasting(tcxo) : \E i \in 1..Len(t) : r \in Writes(t[i])
    <3>1. \A j \in 3..Len(t) : j \in 1..Len(t)
      BY <1>1, <1>2
    <3>2. QED
      BY <1>4, <3>1
  <2>2. 2 \in 1..Len(t) /\ t[2] = "reset"
    BY <1>1, <1>2
  <2>3. QED
    BY <2>1, <2>2 DEF SetsAll
<1>11. QED
  BY <1>9, <1>10 DEF t

LEMMA RetuneStarts ==
  ASSUME NEW tcxo
  PROVE  /\ StartOK(SetModem \o SetFrequency, tcxo)
         /\ \A r \in {"freq", "modem", "power", "packet"} :
              \E i \in 1..Len(SetModem \o SetFrequency) : r \in Writes((SetModem \o SetFrequency)[i])
<1> DEFINE p == <<"standby", "power", "modem", "packet">>
           q == <<"standby", "freq", "image">>
           t == SetModem \o SetFrequency
<1>1. p \in Seq(Cmd) /\ Len(p) = 4 /\ p[2] = "power" /\ p[3] = "modem" /\ p[4] = "packet"
  BY DEF Cmd
<1>2. q \in Seq(Cmd) /\ Len(q) = 3 /\ q[2] = "freq"
  BY DEF Cmd
<1>3. Tame(p) /\ Tame(q) /\ Tame(StartRx)
  BY TameParts
<1>4. SetModem = p \o StartRx /\ SetFrequency = q \o StartRx
  BY DEF SetModem, SetFrequency
<1> HIDE DEF p, q
<1>5. Tame(SetModem) /\ Tame(SetFrequency) /\ Tame(t)
  BY <1>3, <1>4, TameJoined
<1>6. /\ SetModem \in Seq(Cmd) /\ Len(SetModem) = 4 + 5
      /\ \A i \in 1..4 : SetModem[i] = p[i]
  <2>1. /\ p \o StartRx \in Seq(Cmd) /\ Len(p \o StartRx) = Len(p) + Len(StartRx)
        /\ \A i \in 1..Len(p) : (p \o StartRx)[i] = p[i]
    BY <1>1, InitParts, JoinedIs
  <2>2. QED
    BY <2>1, <1>1, <1>4, InitParts
<1>7. /\ SetFrequency \in Seq(Cmd) /\ Len(SetFrequency) = 3 + 5
      /\ \A i \in 1..3 : SetFrequency[i] = q[i]
  <2>1. /\ q \o StartRx \in Seq(Cmd) /\ Len(q \o StartRx) = Len(q) + Len(StartRx)
        /\ \A i \in 1..Len(q) : (q \o StartRx)[i] = q[i]
    BY <1>2, InitParts, JoinedIs
  <2>2. QED
    BY <2>1, <1>2, <1>4, InitParts
<1>8. /\ t \in Seq(Cmd) /\ Len(t) = 9 + 8
      /\ \A i \in 1..9 : t[i] = SetModem[i]
      /\ \A i \in 1..8 : t[9 + i] = SetFrequency[i]
  <2>1. /\ t \in Seq(Cmd) /\ Len(t) = Len(SetModem) + Len(SetFrequency)
        /\ \A i \in 1..Len(SetModem) : t[i] = SetModem[i]
        /\ \A i \in 1..Len(SetFrequency) : t[Len(SetModem) + i] = SetFrequency[i]
    BY <1>6, <1>7, JoinedIs
  <2> HIDE DEF t
  <2>2. QED
    BY <2>1, <1>6, <1>7
<1> HIDE DEF t
<1>9. t[2] = "power" /\ t[3] = "modem" /\ t[4] = "packet" /\ t[9 + 2] = "freq"
  BY <1>1, <1>2, <1>6, <1>7, <1>8
<1>10. \A r \in {"freq", "modem", "power", "packet"} : \E i \in 1..Len(t) : r \in Writes(t[i])
  <2>1. \A i \in {2, 3, 4, 11} : i \in 1..Len(t)
    BY <1>8
  <2>2. QED
    BY <2>1, <1>9, WritesAre
<1>11. t # <<>>
  <2>1. Len(t) # 0
    BY <1>8
  <2>2. QED
    BY <2>1
<1>12. StartOK(t, tcxo)
  BY <1>5, <1>11, TameStarts
<1>13. QED
  BY <1>10, <1>12 DEF t
LEMMA NotEmpty ==
  ASSUME NEW t, Len(t) # 0
  PROVE  t # <<>>
<1>1. SUFFICES ASSUME t = <<>>
               PROVE  Len(t) = 0
  OBVIOUS
<1>2. Len(<<>>) = 0
  BY EmptySeq
<1>3. QED
  BY <1>1, <1>2

LEMMA PollStarts ==
  ASSUME NEW tcxo
  PROVE  StartOK(PollRx, tcxo)
<1> DEFINE t == PollRx
<1>1. t \in Seq(Cmd) /\ Len(t) = 2 /\ t[1] = "dio" /\ t[2] = "irq"
  BY DEF PollRx, Cmd
<1> HIDE DEF t
<1>2. t # <<>>
  BY <1>1, NotEmpty
<1>3. \A i \in 1..Len(t) : i \in 1..2 /\ t[i] \in {"dio", "irq"} /\ Plain(t[i])
  BY <1>1, WritesAre DEF Plain
<1>4. OrderOK(t, tcxo)
  BY <1>1, <1>3 DEF OrderOK
<1>5. \A mode, bad, antenna : SwitchOK(t, mode, bad, antenna)
  BY <1>3 DEF SwitchOK
<1>6. \A reg, lost, a : FilledOK(t, reg, lost, a)
  BY <1>3 DEF FilledOK
<1>7. StartOK(t, tcxo)
  BY <1>1, <1>2, <1>4, <1>5, <1>6 DEF StartOK
<1>8. QED
  BY <1>7 DEF t

LEMMA CalmStarts ==
  ASSUME NEW tcxo
  PROVE  /\ StartOK(ChannelBusy, tcxo) /\ StartOK(Standby, tcxo) /\ StartOK(SetTxPower, tcxo)
         /\ \E i \in 1..Len(SetTxPower) : "power" \in Writes(SetTxPower[i])
<1>1. Len(ChannelBusy) = 9 /\ Len(Standby) = 2 /\ Len(SetTxPower) = 2 /\ SetTxPower[2] = "power"
  BY DEF ChannelBusy, Standby, SetTxPower
<1>2. ChannelBusy # <<>> /\ Standby # <<>> /\ SetTxPower # <<>>
  BY <1>1, NotEmpty
<1>3. Tame(ChannelBusy) /\ Tame(Standby) /\ Tame(SetTxPower)
  BY TameParts
<1>4. 2 \in 1..Len(SetTxPower) /\ "power" \in Writes(SetTxPower[2])
  BY <1>1, WritesAre
<1>5. QED
  BY <1>2, <1>3, <1>4, TameStarts
----------------------------------------------------------------------------
(* One step of a call.                                                     *)

\* What is left of a call, t, with the chip, its registers and the settings asked for.
Ahead(t, mode, reg, bad, antenna, lost, a, tcxo) ==
  /\ SwitchOK(t, mode, bad, antenna) /\ OrderOK(t, tcxo)
  /\ FilledOK(t, reg, lost, a) /\ SetOK(t, reg, lost, a, tcxo)

\* What the command s leaves in the registers: what it writes, or what was there; a
\* register in doubt is in lost2.
Rewritten(s, reg, reg2, lost, lost2, a) ==
  \A r \in Register :
    \/ r \in lost2
    \/ r \notin Writes(s) /\ s # "reset" /\ r \notin lost /\ reg2[r] = reg[r]
    \/ s = "reset" /\ reg2[r] = Unset
    \/ /\ r \in Writes(s)
       /\ r \in Lasting(TRUE) => reg2[r] = Due(r, a)
       /\ r = "length" /\ s = "length" => reg2[r] = a.payload
       /\ r = "buffer" => reg2[r] = a.payload

LEMMA TailIs ==
  ASSUME NEW t \in Seq(Cmd), t # <<>>
  PROVE  /\ Tail(t) \in Seq(Cmd) /\ Len(t) \in Nat \ {0} /\ Len(Tail(t)) = Len(t) - 1
         /\ Head(t) = t[1] /\ Head(t) \in Cmd
         /\ \A i \in 1..Len(Tail(t)) : i + 1 \in 1..Len(t) /\ Tail(t)[i] = t[i + 1]
         /\ \A i \in 1..Len(t) : i # 1 => i - 1 \in 1..Len(Tail(t)) /\ Tail(t)[i - 1] = t[i]
<1>1. Len(t) \in Nat \ {0} /\ Tail(t) \in Seq(Cmd) /\ Len(Tail(t)) = Len(t) - 1
  BY EmptySeq
<1>2. \A i \in 1..Len(Tail(t)) : i + 1 \in 1..Len(t) /\ Tail(t)[i] = t[i + 1]
  BY <1>1
<1>3. ASSUME NEW i \in 1..Len(t), i # 1
      PROVE  i - 1 \in 1..Len(Tail(t)) /\ Tail(t)[i - 1] = t[i]
  <2>1. i - 1 \in 1..Len(Tail(t)) /\ (i - 1) + 1 = i
    BY <1>1, <1>3
  <2>2. QED
    BY <1>2, <2>1
<1>4. Head(t) = t[1] /\ t[1] \in Cmd
  BY <1>1
<1>5. QED
  BY <1>1, <1>2, <1>3, <1>4

LEMMA SwitchAdvance ==
  ASSUME NEW t \in Seq(Cmd), t # <<>>, NEW mode, NEW bad, NEW antenna,
         NEW mode2, NEW bad2, NEW antenna2, SwitchOK(t, mode, bad, antenna), bad \subseteq bad2,
         Head(t) = "standby" => mode2 # "tx" \/ "standby" \in bad2,
         Head(t) # "set_tx" => (mode # "tx" => mode2 # "tx"),
         Head(t) = "sw_tx" => antenna2 = "tx"
  PROVE  SwitchOK(Tail(t), mode2, bad2, antenna2)
<1> DEFINE u == Tail(t)
<1>1. /\ u \in Seq(Cmd) /\ Len(t) \in Nat \ {0} /\ Len(u) = Len(t) - 1 /\ Head(t) = t[1]
      /\ \A i \in 1..Len(u) : i + 1 \in 1..Len(t) /\ u[i] = t[i + 1]
      /\ \A i \in 1..Len(t) : i # 1 => i - 1 \in 1..Len(u) /\ u[i - 1] = t[i]
  BY TailIs
<1> HIDE DEF u
<1>2. ASSUME NEW i \in 1..Len(u), u[i] = "sw_rx"
      PROVE  \/ \E j \in 1..i - 1 : u[j] = "standby" /\ \A k \in j..i - 1 : u[k] # "set_tx"
             \/ (mode2 # "tx" \/ "standby" \in bad2) /\ \A k \in 1..i - 1 : u[k] # "set_tx"
  <2>1. t[i + 1] = "sw_rx" /\ i + 1 \in 1..Len(t) /\ (i + 1) - 1 = i
    BY <1>1, <1>2
  <2>2. \A k \in 1..i - 1 : k \in 1..Len(u) /\ k + 1 \in 1..i /\ u[k] = t[k + 1]
    BY <1>1
  <2>3. CASE \E j \in 1..i : t[j] = "standby" /\ \A k \in j..i : t[k] # "set_tx"
    <3>1. PICK j \in 1..i : t[j] = "standby" /\ \A k \in j..i : t[k] # "set_tx"
      BY <2>3
    <3>2. \A k \in 1..i - 1 : k + 1 \in j..i => u[k] # "set_tx"
      BY <2>2, <3>1
    <3>3. CASE j = 1
      <4>1. \A k \in 1..i - 1 : k + 1 \in j..i
        BY <3>3
      <4>2. Head(t) = "standby"
        BY <1>1, <3>1, <3>3
      <4>3. QED
        BY <3>2, <4>1, <4>2
    <3>4. CASE j # 1
      <4>1. j - 1 \in 1..i - 1 /\ \A k \in j - 1..i - 1 : k \in 1..i - 1 /\ k + 1 \in j..i
        BY <3>4
      <4>2. u[j - 1] = "standby"
        <5>1. j \in 1..Len(t)
          BY <1>1
        <5>2. QED
          BY <1>1, <3>1, <3>4, <5>1
      <4>3. QED
        BY <3>2, <4>1, <4>2
    <3>5. QED
      BY <3>3, <3>4
  <2>4. CASE (mode # "tx" \/ "standby" \in bad) /\ \A k \in 1..i : t[k] # "set_tx"
    <3>1. \A k \in 1..i - 1 : u[k] # "set_tx"
      BY <2>2, <2>4
    <3>2. Head(t) # "set_tx"
      BY <1>1, <2>4
    <3>3. QED
      BY <2>4, <3>1, <3>2
  <2>5. QED
    BY <2>1, <2>3, <2>4 DEF SwitchOK
<1>3. ASSUME NEW i \in 1..Len(u), u[i] = "set_tx"
      PROVE  IF i = 1 THEN antenna2 = "tx" ELSE u[i - 1] = "sw_tx"
  <2>1. t[i + 1] = "set_tx" /\ i + 1 \in 1..Len(t) /\ i + 1 # 1 /\ (i + 1) - 1 = i
    BY <1>1, <1>3
  <2>2. t[i] = "sw_tx"
    BY <2>1 DEF SwitchOK
  <2>3. CASE i = 1
    BY <1>1, <2>2, <2>3
  <2>4. CASE i # 1
    <3>1. i \in 1..Len(t)
      BY <1>1
    <3>2. u[i - 1] = t[i]
      BY <1>1, <2>4, <3>1
    <3>3. QED
      BY <2>2, <2>4, <3>2
  <2>5. QED
    BY <2>3, <2>4
<1>4. QED
  BY <1>2, <1>3 DEF SwitchOK, u

LEMMA OrderAdvance ==
  ASSUME NEW t \in Seq(Cmd), t # <<>>, NEW tcxo, OrderOK(t, tcxo)
  PROVE  OrderOK(Tail(t), tcxo)
<1> DEFINE u == Tail(t)
<1>1. /\ u \in Seq(Cmd) /\ Len(t) \in Nat \ {0} /\ Len(u) = Len(t) - 1 /\ Head(t) = t[1]
      /\ \A i \in 1..Len(u) : i + 1 \in 1..Len(t) /\ u[i] = t[i + 1]
      /\ \A i \in 1..Len(t) : i # 1 => i - 1 \in 1..Len(u) /\ u[i - 1] = t[i]
  BY TailIs
<1> HIDE DEF u
<1>2. SUFFICES ASSUME NEW i \in 1..Len(u)
      PROVE /\ u[i] \in {"set_tx", "dio", "irq"} => \A k \in i..Len(u) : Plain(u[k])
            /\ u[i] = "set_tx" => \A k \in 1..i : u[k] \notin {"packet", "reset"}
            /\ u[i] = "tcxo" => \E j \in i + 1..Len(u) : u[j] = "errors"
            /\ u[i] = "reset" =>
                 /\ i = 1 \/ (i = 2 /\ u[1] = "sw_off")
                 /\ \A r \in Lasting(tcxo) : \E j \in i + 1..Len(u) : r \in Writes(u[j])
  BY DEF OrderOK, u
<1>3. i + 1 \in 1..Len(t) /\ u[i] = t[i + 1]
  BY <1>1
<1>4. /\ t[i + 1] \in {"set_tx", "dio", "irq"} => \A k \in i + 1..Len(t) : Plain(t[k])
      /\ t[i + 1] = "set_tx" => \A k \in 1..i + 1 : t[k] \notin {"packet", "reset"}
      /\ t[i + 1] = "tcxo" => \E j \in i + 1 + 1..Len(t) : t[j] = "errors"
      /\ t[i + 1] = "reset" =>
           /\ i + 1 = 1 \/ (i + 1 = 2 /\ t[1] = "sw_off")
           /\ \A r \in Lasting(tcxo) : \E j \in i + 1 + 1..Len(t) : r \in Writes(t[j])
  BY <1>3 DEF OrderOK
<1>5. /\ \A k \in i..Len(u) : k + 1 \in i + 1..Len(t) /\ u[k] = t[k + 1]
      /\ \A k \in 1..i : k + 1 \in 1..i + 1 /\ u[k] = t[k + 1]
  BY <1>1
<1>6. \A j \in i + 1 + 1..Len(t) : j - 1 \in i + 1..Len(u) /\ u[j - 1] = t[j]
  <2>1. ASSUME NEW j \in i + 1 + 1..Len(t)
        PROVE  j \in 1..Len(t) /\ j # 1 /\ j - 1 \in i + 1..Len(u)
    BY <1>1
  <2>2. QED
    BY <1>1, <2>1
<1>7. i + 1 = 2 => i = 1
  OBVIOUS
<1>8. i + 1 # 1
  OBVIOUS
<1>9. QED
  BY <1>3, <1>4, <1>5, <1>6, <1>7, <1>8

LEMMA FilledAdvance ==
  ASSUME NEW t \in Seq(Cmd), t # <<>>, NEW tcxo, NEW reg, NEW reg2, NEW lost, NEW lost2, NEW a,
         OrderOK(t, tcxo), FilledOK(t, reg, lost, a),
         Rewritten(Head(t), reg, reg2, lost, lost2, a)
  PROVE  FilledOK(Tail(t), reg2, lost2, a)
<1> DEFINE u == Tail(t)
           s == Head(t)
<1>1. /\ u \in Seq(Cmd) /\ Len(t) \in Nat \ {0} /\ Len(u) = Len(t) - 1 /\ s = t[1]
      /\ \A i \in 1..Len(u) : i + 1 \in 1..Len(t) /\ u[i] = t[i + 1]
      /\ \A i \in 1..Len(t) : i # 1 => i - 1 \in 1..Len(u) /\ u[i - 1] = t[i]
  BY TailIs
<1>2. Rewritten(s, reg, reg2, lost, lost2, a)
  OBVIOUS
<1> HIDE DEF u, s
<1>3. SUFFICES ASSUME NEW i \in 1..Len(u), u[i] = "set_tx"
      PROVE /\ "length" \in lost2 \/ reg2["length"] = a.payload \/ \E j \in 1..i - 1 : u[j] = "length"
            /\ "buffer" \in lost2 \/ reg2["buffer"] = a.payload \/ \E j \in 1..i - 1 : u[j] = "write"
  BY DEF FilledOK, u
<1>4. i + 1 \in 1..Len(t) /\ t[i + 1] = "set_tx" /\ (i + 1) - 1 = i
  BY <1>1, <1>3
<1>5. s \notin {"packet", "reset"}
  <2>1. 1 \in 1..i + 1
    OBVIOUS
  <2>2. QED
    BY <1>1, <1>4, <2>1 DEF OrderOK
<1>6. /\ "length" \in lost \/ reg["length"] = a.payload \/ \E j \in 1..i : t[j] = "length"
      /\ "buffer" \in lost \/ reg["buffer"] = a.payload \/ \E j \in 1..i : t[j] = "write"
  BY <1>4 DEF FilledOK
<1>7. \A j \in 1..i : j # 1 => j - 1 \in 1..i - 1 /\ u[j - 1] = t[j]
  <2>1. \A j \in 1..i : j \in 1..Len(t)
    BY <1>1
  <2>2. QED
    BY <1>1, <2>1
<1>8. "length" \in Register /\ "buffer" \in Register
  BY DEF Register
<1>9. "length" \in lost2 \/ reg2["length"] = a.payload \/ \E j \in 1..i - 1 : u[j] = "length"
  <2>1. CASE s = "length"
    BY <1>2, <1>8, <2>1, WritesAre DEF Rewritten
  <2>2. CASE s # "length"
    <3>1. "length" \notin Writes(s)
      BY <1>5, <2>2, WritesAre
    <3>2. "length" \in lost2 \/ ("length" \notin lost /\ reg2["length"] = reg["length"])
      BY <1>2, <1>5, <1>8, <3>1 DEF Rewritten
    <3>3. QED
      BY <1>1, <1>6, <1>7, <2>2, <3>2
  <2>3. QED
    BY <2>1, <2>2
<1>10. "buffer" \in lost2 \/ reg2["buffer"] = a.payload \/ \E j \in 1..i - 1 : u[j] = "write"
  <2>1. CASE "buffer" \in Writes(s)
    BY <1>2, <1>5, <1>8, <2>1 DEF Rewritten
  <2>2. CASE "buffer" \notin Writes(s)
    <3>1. s # "write"
      BY <2>2, WritesAre
    <3>2. "buffer" \in lost2 \/ ("buffer" \notin lost /\ reg2["buffer"] = reg["buffer"])
      BY <1>2, <1>5, <1>8, <2>2 DEF Rewritten
    <3>3. QED
      BY <1>1, <1>6, <1>7, <3>1, <3>2
  <2>3. QED
    BY <2>1, <2>2
<1>11. QED
  BY <1>9, <1>10

LEMMA SetAdvance ==
  ASSUME NEW t \in Seq(Cmd), t # <<>>, NEW tcxo \in BOOLEAN, NEW reg, NEW reg2, NEW lost, NEW lost2,
         NEW a, OrderOK(t, tcxo), SetOK(t, reg, lost, a, tcxo),
         Rewritten(Head(t), reg, reg2, lost, lost2, a),
         Head(t) = "errors" /\ ~tcxo => "clock" \in lost2
  PROVE  SetOK(Tail(t), reg2, lost2, a, tcxo)
<1> DEFINE u == Tail(t)
           s == Head(t)
<1>1. /\ u \in Seq(Cmd) /\ Len(t) \in Nat \ {0} /\ Len(u) = Len(t) - 1 /\ s = t[1]
      /\ \A i \in 1..Len(t) : i # 1 => i - 1 \in 1..Len(u) /\ u[i - 1] = t[i]
  BY TailIs
<1>2. Rewritten(s, reg, reg2, lost, lost2, a) /\ (s = "errors" /\ ~tcxo => "clock" \in lost2)
  OBVIOUS
<1> HIDE DEF u, s
<1>3. 1 \in 1..Len(t) /\ \A i \in 1 + 1..Len(t) : i \in 1..Len(t) /\ i # 1
  BY <1>1
<1>4. Lasting(tcxo) \subseteq Lasting(TRUE) /\ Lasting(TRUE) \subseteq Register
  BY DEF Lasting, Register
<1>5. ASSUME NEW r \in Lasting(tcxo)
      PROVE  r \in lost2 \/ reg2[r] = Due(r, a) \/ \E i \in 1..Len(u) : r \in Writes(u[i])
  <2>1. CASE r \in Writes(s) /\ s # "reset"
    BY <1>2, <1>4, <2>1 DEF Rewritten
  <2>2. CASE s = "reset"
    <3>1. PICK j \in 1 + 1..Len(t) : r \in Writes(t[j])
      BY <1>1, <1>3, <2>2 DEF OrderOK
    <3>2. j - 1 \in 1..Len(u) /\ u[j - 1] = t[j]
      BY <1>1, <1>3
    <3>3. QED
      BY <3>1, <3>2
  <2>3. CASE r \notin Writes(s) /\ s # "reset"
    <3>1. r \in lost2 \/ (r \notin lost /\ reg2[r] = reg[r])
      BY <1>2, <1>4, <2>3 DEF Rewritten
    <3>2. r \in lost \/ reg[r] = Due(r, a) \/ \E i \in 1..Len(t) : r \in Writes(t[i])
      BY DEF SetOK
    <3>3. \A i \in 1..Len(t) : r \in Writes(t[i]) => i # 1
      BY <1>1, <2>3
    <3>4. QED
      BY <1>1, <3>1, <3>2, <3>3
  <2>4. QED
    BY <2>1, <2>2, <2>3
<1>6. ASSUME ~tcxo
      PROVE  \/ "clock" \in lost2 \/ reg2["clock"] = Unset
             \/ \E i \in 1..Len(u) : u[i] \in {"errors", "reset"}
  <2>1. "clock" \in Register
    BY DEF Register
  <2>2. CASE s = "tcxo"
    <3>1. PICK j \in 1 + 1..Len(t) : t[j] = "errors"
      BY <1>1, <1>3, <2>2 DEF OrderOK
    <3>2. j - 1 \in 1..Len(u) /\ u[j - 1] = t[j]
      BY <1>1, <1>3
    <3>3. QED
      BY <3>1, <3>2
  <2>3. CASE s = "reset"
    BY <1>2, <2>1, <2>3, WritesAre DEF Rewritten
  <2>4. CASE s = "errors"
    BY <1>2, <1>6, <2>4
  <2>5. CASE s \notin {"tcxo", "reset", "errors"}
    <3>1. "clock" \notin Writes(s)
      BY <2>5 DEF Writes
    <3>2. "clock" \in lost2 \/ ("clock" \notin lost /\ reg2["clock"] = reg["clock"])
      BY <1>2, <2>1, <2>5, <3>1 DEF Rewritten
    <3>3. \/ "clock" \in lost \/ reg["clock"] = Unset
          \/ \E i \in 1..Len(t) : t[i] \in {"errors", "reset"}
      BY <1>6 DEF SetOK
    <3>4. \A i \in 1..Len(t) : t[i] \in {"errors", "reset"} => i # 1
      BY <1>1, <2>5
    <3>5. QED
      BY <1>1, <3>2, <3>3, <3>4
  <2>6. QED
    BY <2>2, <2>3, <2>4, <2>5
<1>7. QED
  BY <1>5, <1>6 DEF SetOK, u

LEMMA Advance ==
  ASSUME NEW t \in Seq(Cmd), t # <<>>, NEW tcxo \in BOOLEAN, NEW reg, NEW reg2, NEW lost, NEW lost2,
         NEW a, NEW mode, NEW bad, NEW antenna, NEW mode2, NEW bad2, NEW antenna2,
         Ahead(t, mode, reg, bad, antenna, lost, a, tcxo), bad \subseteq bad2,
         Head(t) = "standby" => mode2 # "tx" \/ "standby" \in bad2,
         Head(t) # "set_tx" => (mode # "tx" => mode2 # "tx"),
         Head(t) = "sw_tx" => antenna2 = "tx",
         Rewritten(Head(t), reg, reg2, lost, lost2, a),
         Head(t) = "errors" /\ ~tcxo => "clock" \in lost2
  PROVE  Ahead(Tail(t), mode2, reg2, bad2, antenna2, lost2, a, tcxo)
<1>1. SwitchOK(Tail(t), mode2, bad2, antenna2)
  BY SwitchAdvance DEF Ahead
<1>2. OrderOK(Tail(t), tcxo)
  BY OrderAdvance DEF Ahead
<1>3. FilledOK(Tail(t), reg2, lost2, a)
  BY FilledAdvance DEF Ahead
<1>4. SetOK(Tail(t), reg2, lost2, a, tcxo)
  BY SetAdvance DEF Ahead
<1>5. QED
  BY <1>1, <1>2, <1>3, <1>4 DEF Ahead

\* A call that stops at a failure: what it would still have written is in doubt.
LEMMA StopSet ==
  ASSUME NEW t \in Seq(Cmd), t # <<>>, NEW tcxo \in BOOLEAN, NEW reg, NEW reg2, NEW lost, NEW lost2,
         NEW a, NEW u, OrderOK(t, tcxo), SetOK(t, reg, lost, a, tcxo), Head(t) # "sw_off",
         lost \cup Writes(Head(t)) \cup WrittenBy(Tail(t)) \subseteq lost2,
         Head(t) # "reset" => reg2 = reg,
         Head(t) = "reset" => \A r \in Register : reg2[r] = Unset,
         ~tcxo /\ (\E i \in 1..Len(t) : t[i] = "errors") => "clock" \in lost2
  PROVE  SetOK(u, reg2, lost2, a, tcxo)
<1>1. /\ Len(t) \in Nat \ {0} /\ Head(t) = t[1]
      /\ \A i \in 1..Len(t) : i # 1 => i - 1 \in 1..Len(Tail(t)) /\ Tail(t)[i - 1] = t[i]
  BY TailIs
<1>2. \A i \in 1..Len(t) : i # 1 => Writes(t[i]) \subseteq WrittenBy(Tail(t))
  BY <1>1 DEF WrittenBy
<1>3. 1 \in 1..Len(t) /\ \A i \in 1 + 1..Len(t) : i \in 1..Len(t) /\ i # 1
  BY <1>1
<1>4. ASSUME NEW r \in Lasting(tcxo)
      PROVE  r \in lost2 \/ reg2[r] = Due(r, a)
  <2>1. CASE \E i \in 1..Len(t) : r \in Writes(t[i])
    BY <1>1, <1>2, <2>1
  <2>2. CASE ~ \E i \in 1..Len(t) : r \in Writes(t[i])
    <3>1. Head(t) # "reset"
      BY <1>1, <1>3, <2>2 DEF OrderOK
    <3>2. QED
      BY <2>2, <3>1 DEF SetOK
  <2>3. QED
    BY <2>1, <2>2
<1>5. ASSUME ~tcxo
      PROVE  "clock" \in lost2 \/ reg2["clock"] = Unset
  <2>1. CASE Head(t) = "reset"
    BY <2>1 DEF Register
  <2>2. CASE Head(t) # "reset"
    <3>1. \A i \in 1..Len(t) : t[i] # "reset"
      BY <1>1, <2>2 DEF OrderOK
    <3>2. QED
      BY <1>5, <2>2, <3>1 DEF SetOK
  <2>3. QED
    BY <2>1, <2>2
<1>6. QED
  BY <1>4, <1>5 DEF SetOK
----------------------------------------------------------------------------
(* The invariant.                                                          *)

Calls == {"none", "reset", "poll", "sense", "power", "send", "retune", "stop"}
Turns == {"boot", "poll", "due", "power", "send", "reinit", "cli"}
Answers == {"none", "error", "sent", "failed", "busy", "clear", "done"} \cup Packet \cup {Junk}
Events == {"rx_done", "crc_err", "hdr_err", "tx_done", "timeout", "cad_done", "cad_detected"}
Values == Nat \cup Power \cup Payload

ChipType ==
  [mode : {"standby", "rx", "tx", "cad"}, irq : SUBSET Events, mask : SUBSET Events,
   latched : SUBSET (Packet \cup {Junk}), rx : {"none"} \cup Packet \cup {Junk},
   reg : [Register -> Values]]
DrvType ==
  [call : Calls, todo : Seq(Cmd), answer : Answers, bad : SUBSET Cmd, onair : BOOLEAN]

RadioTyped ==
  /\ chip \in ChipType /\ drv \in DrvType /\ sw \in {"off", "rx", "tx"} /\ turn \in Turns
  /\ gcfg \in [tcxo : BOOLEAN, tuning : Nat, power : Power]
  /\ asked \in [tuning : Nat, power : Power, payload : {Unset} \cup Payload]
  /\ unwritten \subseteq Register /\ board \in BOOLEAN
  /\ (drv.call = "none") <=> (drv.todo = <<>>)

\* What the driver believes is what its callers asked for.
Believed == asked.tuning = gcfg.tuning /\ asked.power = gcfg.power /\ (board => gcfg.tcxo)

Boot == turn = "boot" /\ drv.call = "none"

RInv ==
  /\ RadioTyped /\ Believed
  /\ \/ Boot
     \/ Ahead(drv.todo, chip.mode, chip.reg, drv.bad, sw, unwritten, asked, board)

LEMMA GoOnIs ==
  ASSUME RadioTyped, NEW todo \in Seq(Cmd), NEW a \in Answers, NEW failed \in SUBSET Cmd,
         NEW cut \in BOOLEAN, drv.call # "none", GoOn(todo, a, failed, cut)
  PROVE  /\ drv' \in DrvType /\ turn' \in Turns /\ drv'.todo = todo
         /\ drv'.bad = drv.bad \cup failed
         /\ (drv'.call = "none") <=> (drv'.todo = <<>>)
<1>1. drv \in DrvType /\ drv.call \in Calls \ {"none"} /\ turn \in Turns
  BY DEF RadioTyped, DrvType
<1>2. NextTurn(a, cut) \in Turns
  BY <1>1 DEF NextTurn, Calls, Turns
<1>3. CASE todo = <<>>
  <2>1. drv' = [Idle EXCEPT !.answer = a, !.bad = drv.bad \cup failed] /\ turn' = NextTurn(a, cut)
    BY <1>3 DEF GoOn
  <2>2. Idle \in DrvType /\ Idle.call = "none" /\ Idle.todo = <<>>
    BY EmptySeq DEF Idle, DrvType, Calls, Answers
  <2>3. QED
    BY <1>1, <1>2, <1>3, <2>1, <2>2 DEF DrvType
<1>4. CASE todo # <<>>
  <2>1. drv' = [drv EXCEPT !.todo = todo, !.answer = a, !.bad = @ \cup failed] /\ turn' = turn
    BY <1>4 DEF GoOn
  <2>2. QED
    BY <1>1, <1>4, <2>1 DEF DrvType
<1>5. QED
  BY <1>3, <1>4

\* A command that reaches the chip.
LEMMA EffectIs ==
  ASSUME RadioTyped, Believed, NEW s, NEW c, c = Effect(s)
  PROVE  /\ c \in ChipType
         /\ Rewritten(s, chip.reg, c.reg, unwritten, unwritten \ Writes(s), asked)
         /\ s = "standby" => c.mode = "standby"
         /\ s # "set_tx" => (chip.mode # "tx" => c.mode # "tx")
         /\ s = "set_tx" => c.reg = chip.reg
         /\ s \notin {"set_tx", "standby"} => c.mode # "tx" \/ c.mode = chip.mode
         /\ s = "reset" => \A r \in Register : c.reg[r] = Unset
<1>1. /\ chip \in ChipType /\ asked \in [tuning : Nat, power : Power, payload : {Unset} \cup Payload]
      /\ gcfg \in [tcxo : BOOLEAN, tuning : Nat, power : Power]
  BY DEF RadioTyped
<1> DEFINE Quiet == {"standby", "clear", "mask_rx", "mask_tx", "mask_cad", "set_rx", "set_tx", "set_cad"}
<1>2. CASE s \in Quiet
  <2>1. Writes(s) = {}
    BY <1>2, WritesAre
  <2>2. c \in ChipType /\ c.reg = chip.reg
    <3>1. CASE s \in {"standby", "set_rx", "set_tx", "set_cad"}
      BY <1>1, <3>1 DEF Effect, ChipType
    <3>2. CASE s = "clear"
      BY <1>1, <3>2 DEF Effect, ChipType
    <3>3. CASE s \in {"mask_rx", "mask_tx", "mask_cad"}
      <4>1. Mask(s) \in SUBSET Events
        BY <3>3 DEF Mask, RxMask, Events
      <4>2. c = [chip EXCEPT !.mask = Mask(s)]
        BY <3>3 DEF Effect
      <4>3. QED
        BY <1>1, <4>1, <4>2 DEF ChipType
    <3>4. QED
      BY <1>2, <3>1, <3>2, <3>3
  <2>3. Rewritten(s, chip.reg, c.reg, unwritten, unwritten \ Writes(s), asked)
    BY <1>2, <2>1, <2>2 DEF Rewritten
  <2>4. /\ s = "standby" => c.mode = "standby"
        /\ s # "set_tx" => (chip.mode # "tx" => c.mode # "tx")
        /\ s \notin {"set_tx", "standby"} => c.mode # "tx" \/ c.mode = chip.mode
    BY <1>1, <1>2 DEF Effect, ChipType
  <2>5. QED
    BY <1>2, <2>2, <2>3, <2>4
<1>3. CASE s = "reset"
  <2> DEFINE f == [r \in Register |-> Unset]
  <2>1. c = [chip EXCEPT !.mode = "standby", !.irq = {}, !.mask = {}, !.latched = {}, !.rx = "none",
                         !.reg = f]
    BY <1>3 DEF Effect
  <2>2. f \in [Register -> Values] /\ \A r \in Register : f[r] = Unset
    BY DEF Unset, Values
  <2> HIDE DEF f
  <2>3. c \in ChipType /\ c.mode = "standby" /\ c.reg = f
    BY <1>1, <2>1, <2>2 DEF ChipType
  <2>4. QED
    BY <1>3, <2>2, <2>3 DEF Rewritten
<1>4. CASE s \notin Quiet \cup {"reset"}
  <2> DEFINE f == [r \in Register |-> IF r \in Writes(s) THEN Value(s, r) ELSE chip.reg[r]]
  <2>1. c = [chip EXCEPT !.reg = f]
    BY <1>1, <1>4 DEF Effect, ChipType
  <2>2. \A r \in Register : Value(s, r) \in Values
    BY <1>1 DEF Value, Values, Unset, Longest
  <2>3. f \in [Register -> Values]
    BY <1>1, <2>2 DEF ChipType
  <2>4. \A r \in Register : f[r] = IF r \in Writes(s) THEN Value(s, r) ELSE chip.reg[r]
    OBVIOUS
  <2> HIDE DEF f
  <2>5. c \in ChipType /\ c.reg = f /\ c.mode = chip.mode
    BY <1>1, <2>1, <2>3 DEF ChipType
  <2>6. ASSUME NEW r \in Register, r \in Writes(s)
        PROVE  /\ r \in Lasting(TRUE) => f[r] = Due(r, asked)
               /\ r = "length" /\ s = "length" => f[r] = asked.payload
               /\ r = "buffer" => f[r] = asked.payload
    BY <2>4, <2>6 DEF Value, Due, Lasting, Believed
  <2>7. Rewritten(s, chip.reg, f, unwritten, unwritten \ Writes(s), asked)
    BY <1>4, <2>4, <2>6 DEF Rewritten
  <2>8. QED
    BY <1>4, <2>5, <2>7
<1>5. QED
  BY <1>2, <1>3, <1>4

\* The rest of a call after a step that did not stop it.
LEMMA StepOn ==
  ASSUME RadioTyped, NEW t \in Seq(Cmd), t # <<>>, NEW mode2, NEW reg2, NEW bad2, NEW antenna2, NEW lost2,
         Ahead(t, chip.mode, chip.reg, drv.bad, sw, unwritten, asked, board), drv.bad \subseteq bad2,
         Head(t) = "standby" => mode2 # "tx" \/ "standby" \in bad2,
         Head(t) # "set_tx" => (chip.mode # "tx" => mode2 # "tx"),
         Head(t) = "sw_tx" => antenna2 = "tx",
         Rewritten(Head(t), chip.reg, reg2, unwritten, lost2, asked),
         Head(t) = "errors" /\ ~board => "clock" \in lost2
  PROVE  Ahead(Tail(t), mode2, reg2, bad2, antenna2, lost2, asked, board)
<1>1. board \in BOOLEAN
  BY DEF RadioTyped
<1>2. QED
  BY <1>1, Advance

\* Steps that write nothing leave the registers as they are.
LEMMA NothingWritten ==
  ASSUME NEW s, Writes(s) = {}, s # "reset", NEW reg, NEW lost, NEW a
  PROVE  Rewritten(s, reg, reg, lost, lost, a)
BY DEF Rewritten

\* After a tame step list nothing but the settings matters.
LEMMA TameAhead ==
  ASSUME NEW t, Tame(t), NEW mode, NEW reg, NEW bad, NEW antenna, NEW lost, NEW a, NEW tcxo,
         SetOK(t, reg, lost, a, tcxo)
  PROVE  Ahead(t, mode, reg, bad, antenna, lost, a, tcxo)
<1>1. CASE t = <<>>
  <2>1. Len(t) = 0
    BY <1>1, EmptySeq
  <2>2. QED
    BY <2>1 DEF Ahead, SwitchOK, OrderOK, FilledOK
<1>2. CASE t # <<>>
  BY <1>2, TameStarts DEF StartOK, Ahead
<1>3. QED
  BY <1>1, <1>2

LEMMA TameEmpty == Tame(<<>>)
BY EmptySeq DEF Tame

\* What is written by nothing that is left holds, and is not written by another list.
LEMMA PlainSet ==
  ASSUME NEW t \in Seq(Cmd), t # <<>>, NEW tcxo, NEW reg, NEW lost, NEW a, NEW u,
         Head(t) \in {"set_tx", "dio", "irq"}, OrderOK(t, tcxo), SetOK(t, reg, lost, a, tcxo)
  PROVE  SetOK(u, reg, lost, a, tcxo)
<1>1. Len(t) \in Nat \ {0} /\ Head(t) = t[1] /\ 1 \in 1..Len(t)
  BY TailIs
<1>2. \A k \in 1..Len(t) : Plain(t[k])
  BY <1>1 DEF OrderOK
<1>3. QED
  BY <1>2 DEF SetOK, Plain
----------------------------------------------------------------------------
(* Every step keeps the invariant.                                         *)

LEMMA Busy ==
  ASSUME RInv, drv.call # "none"
  PROVE  /\ drv.todo \in Seq(Cmd) /\ drv.todo # <<>> /\ drv.answer \in Answers /\ drv.bad \subseteq Cmd
         /\ Head(drv.todo) \in Cmd /\ Rest \in Seq(Cmd) /\ Rest = Tail(drv.todo)
         /\ Ahead(drv.todo, chip.mode, chip.reg, drv.bad, sw, unwritten, asked, board)
<1>1. drv \in DrvType /\ drv.todo # <<>>
  BY DEF RInv, RadioTyped
<1>2. drv.todo \in Seq(Cmd) /\ drv.answer \in Answers /\ drv.bad \subseteq Cmd
  BY <1>1 DEF DrvType
<1>3. Ahead(drv.todo, chip.mode, chip.reg, drv.bad, sw, unwritten, asked, board)
  BY DEF RInv, Boot
<1>4. Head(drv.todo) \in Cmd /\ Rest \in Seq(Cmd) /\ Rest = Tail(drv.todo)
  BY <1>1, <1>2, TailIs DEF Rest
<1>5. QED
  BY <1>1, <1>2, <1>3, <1>4

\* A step that only goes on with another list.
LEMMA OnlyGoesOn ==
  ASSUME RInv, drv.call # "none", UNCHANGED <<chip, sw, gcfg, asked, unwritten, board>>,
         NEW todo \in Seq(Cmd), NEW a \in Answers, GoOn(todo, a, {}, FALSE),
         Ahead(todo, chip.mode, chip.reg, drv.bad, sw, unwritten, asked, board)
  PROVE  RInv'
<1>1. RadioTyped /\ Believed
  BY DEF RInv
<1>2. /\ drv' \in DrvType /\ turn' \in Turns /\ drv'.todo = todo /\ drv'.bad = drv.bad \cup {}
      /\ (drv'.call = "none") <=> (drv'.todo = <<>>)
  BY <1>1, GoOnIs
<1>3. drv'.bad = drv.bad
  BY <1>2
<1>4. RadioTyped' /\ Believed'
  BY <1>1, <1>2 DEF RadioTyped, Believed
<1>5. QED
  BY <1>2, <1>3, <1>4 DEF RInv

LEMMA TailGoesOn ==
  ASSUME RInv, drv.call # "none", Head(drv.todo) \in Reads \cup Awaits
  PROVE  Ahead(Rest, chip.mode, chip.reg, drv.bad, sw, unwritten, asked, board)
<1> DEFINE s == Head(drv.todo)
<1>1. RadioTyped
  BY DEF RInv
<1>2. s \notin {"standby", "set_tx", "sw_tx", "errors", "reset"} /\ Writes(s) = {}
  BY WritesAre DEF Reads, Awaits
<1>3. Rewritten(s, chip.reg, chip.reg, unwritten, unwritten, asked)
  BY <1>2, NothingWritten
<1>4. /\ drv.todo \in Seq(Cmd) /\ drv.todo # <<>> /\ Rest = Tail(drv.todo)
      /\ Ahead(drv.todo, chip.mode, chip.reg, drv.bad, sw, unwritten, asked, board)
  BY Busy
<1>5. QED
  BY <1>1, <1>2, <1>3, <1>4, StepOn

LEMMA ReadStepKeeps ==
  ASSUME RInv, drv.call # "none", Head(drv.todo) \in Reads, ReadStep
  PROVE  RInv'
<1> DEFINE s == Head(drv.todo)
           d == <<"pkt_status", "clear">>
           f == <<"buf_status", "read", "pkt_status", "clear">>
<1>1. UNCHANGED <<chip, sw, gcfg, asked, unwritten, board>>
  BY DEF ReadStep
<1>2. /\ drv.todo \in Seq(Cmd) /\ drv.todo # <<>> /\ Rest \in Seq(Cmd)
      /\ Ahead(drv.todo, chip.mode, chip.reg, drv.bad, sw, unwritten, asked, board)
  BY Busy
<1>3. /\ <<>> \in Seq(Cmd) /\ <<"clear">> \in Seq(Cmd) /\ d \in Seq(Cmd) /\ f \in Seq(Cmd)
      /\ Tame(<<>>) /\ Tame(<<"clear">>) /\ Tame(d) /\ Tame(f)
  BY TameEmpty, TameParts DEF Tame
<1>4. ASSUME NEW u, u \in {<<>>, <<"clear">>, d, f}, s \in {"dio", "irq"}
      PROVE  Ahead(u, chip.mode, chip.reg, drv.bad, sw, unwritten, asked, board)
  <2>1. OrderOK(drv.todo, board) /\ SetOK(drv.todo, chip.reg, unwritten, asked, board)
    BY <1>2 DEF Ahead
  <2>2. SetOK(u, chip.reg, unwritten, asked, board)
    BY <1>2, <1>4, <2>1, PlainSet
  <2>3. Tame(u)
    BY <1>3, <1>4
  <2>4. QED
    BY <2>2, <2>3, TameAhead
<1>5. Ahead(Rest, chip.mode, chip.reg, drv.bad, sw, unwritten, asked, board)
  BY TailGoesOn DEF Reads
<1>6. "none" \in Answers /\ "error" \in Answers /\ chip.rx \in Answers
  BY DEF Answers, RInv, RadioTyped, ChipType
<1> HIDE DEF d, f
<1>7. CASE s = "dio"
  <2>1. GoOn(Rest, "none", {}, FALSE) \/ GoOn(<<>>, "none", {}, FALSE)
    BY <1>7 DEF ReadStep, Next1
  <2>2. Ahead(<<>>, chip.mode, chip.reg, drv.bad, sw, unwritten, asked, board)
    BY <1>4, <1>7
  <2>3. QED
    BY <1>1, <1>2, <1>3, <1>5, <1>6, <2>1, <2>2, OnlyGoesOn
<1>8. CASE s = "irq"
  <2>1. \E u \in {<<"clear">>, d, f} : \E a \in {"none", "error"} : GoOn(u, a, {}, FALSE)
    BY <1>8 DEF ReadStep, d, f
  <2>2. PICK u \in {<<"clear">>, d, f}, a \in {"none", "error"} : GoOn(u, a, {}, FALSE)
    BY <2>1
  <2>3. Ahead(u, chip.mode, chip.reg, drv.bad, sw, unwritten, asked, board)
    BY <1>4, <1>8
  <2>4. u \in Seq(Cmd) /\ a \in Answers
    BY <1>3, <1>6
  <2>5. QED
    BY <1>1, <2>2, <2>3, <2>4, OnlyGoesOn
<1>9. CASE s = "buf_status"
  <2>1. GoOn(Rest, chip.rx, {}, FALSE)
    BY <1>9 DEF ReadStep, Next1
  <2>2. QED
    BY <1>1, <1>2, <1>5, <1>6, <2>1, OnlyGoesOn
<1>10. QED
  BY <1>7, <1>8, <1>9 DEF Reads

LEMMA AwaitKeeps ==
  ASSUME RInv, drv.call # "none", Head(drv.todo) \in Awaits, Await
  PROVE  RInv'
<1>1. UNCHANGED <<chip, sw, gcfg, asked, unwritten, board>>
  BY DEF Await
<1>2. Rest \in Seq(Cmd)
  BY Busy
<1>3. Ahead(Rest, chip.mode, chip.reg, drv.bad, sw, unwritten, asked, board)
  BY TailGoesOn
<1>4. \E a \in {"sent", "failed", "busy", "clear"} : GoOn(Rest, a, {}, FALSE)
  BY DEF Await, Awaits, Next1
<1>5. {"sent", "failed", "busy", "clear"} \subseteq Answers
  BY DEF Answers
<1>6. QED
  BY <1>1, <1>2, <1>3, <1>4, <1>5, OnlyGoesOn

LEMMA SwitchKeeps ==
  ASSUME RInv, drv.call # "none", Head(drv.todo) \in Switches, Switch
  PROVE  RInv' /\ drv'.bad = drv.bad
<1> DEFINE s == Head(drv.todo)
<1>1. /\ UNCHANGED <<chip, gcfg, asked, unwritten, board>> /\ GoOn(Rest, drv.answer, {}, FALSE)
      /\ sw' \in {"off", "rx", "tx"} /\ (s = "sw_tx" => sw' = "tx")
  BY DEF Switch, Next1, Switches
<1>2. RadioTyped /\ Believed
  BY DEF RInv
<1>3. /\ drv.todo \in Seq(Cmd) /\ drv.todo # <<>> /\ Rest \in Seq(Cmd) /\ drv.answer \in Answers
      /\ Ahead(drv.todo, chip.mode, chip.reg, drv.bad, sw, unwritten, asked, board)
      /\ Rest = Tail(drv.todo)
  BY Busy
<1>4. /\ drv' \in DrvType /\ turn' \in Turns /\ drv'.todo = Rest /\ drv'.bad = drv.bad \cup {}
      /\ (drv'.call = "none") <=> (drv'.todo = <<>>)
  BY <1>1, <1>2, <1>3, GoOnIs
<1>5. s \notin {"standby", "set_tx", "errors", "reset"} /\ Writes(s) = {}
  BY WritesAre DEF Switches
<1>6. Rewritten(s, chip.reg, chip.reg, unwritten, unwritten, asked)
  BY <1>5, NothingWritten
<1>7. Ahead(Rest, chip.mode, chip.reg, drv.bad, sw', unwritten, asked, board)
  BY <1>1, <1>2, <1>3, <1>5, <1>6, StepOn
<1>8. drv'.bad = drv.bad
  BY <1>4
<1>9. RadioTyped' /\ Believed'
  BY <1>1, <1>2, <1>4 DEF RadioTyped, Believed
<1>10. QED
  BY <1>1, <1>4, <1>7, <1>8, <1>9 DEF RInv

LEMMA SetsAllSet ==
  ASSUME NEW t, NEW tcxo, SetsAll(t, tcxo), NEW reg, NEW lost, NEW a
  PROVE  SetOK(t, reg, lost, a, tcxo)
BY DEF SetsAll, SetOK

LEMMA StartAhead ==
  ASSUME NEW t, NEW tcxo, StartOK(t, tcxo), NEW mode, NEW reg, NEW bad, NEW antenna, NEW lost, NEW a,
         SetOK(t, reg, lost, a, tcxo)
  PROVE  Ahead(t, mode, reg, bad, antenna, lost, a, tcxo)
BY DEF StartOK, Ahead

LEMMA ProbeKeeps ==
  ASSUME RInv, drv.call # "none", Head(drv.todo) = "errors", Probe
  PROVE  RInv'
<1>1. UNCHANGED <<chip, sw, asked, unwritten, board>> /\ ProbeClock
  BY DEF Probe
<1>2. RadioTyped /\ Believed
  BY DEF RInv
<1>3. /\ drv.todo \in Seq(Cmd) /\ drv.todo # <<>> /\ Rest \in Seq(Cmd) /\ drv.answer \in Answers
      /\ Ahead(drv.todo, chip.mode, chip.reg, drv.bad, sw, unwritten, asked, board)
      /\ Rest = Tail(drv.todo)
  BY Busy
<1>4. CASE board
  <2>1. GoOn(Rest, drv.answer, {}, FALSE) /\ UNCHANGED gcfg
    BY <1>1, <1>4 DEF ProbeClock, Next1
  <2>2. Rewritten("errors", chip.reg, chip.reg, unwritten, unwritten, asked)
    BY WritesAre, NothingWritten
  <2>3. Ahead(Rest, chip.mode, chip.reg, drv.bad, sw, unwritten, asked, board)
    BY <1>2, <1>3, <1>4, <2>2, StepOn
  <2>4. QED
    BY <1>1, <1>3, <2>1, <2>3, OnlyGoesOn
<1>5. CASE ~board
  <2> DEFINE t == BringUp(FALSE)
  <2>1. GoOn(t, drv.answer, {}, FALSE) /\ gcfg' = [gcfg EXCEPT !.tcxo = FALSE]
    BY <1>1, <1>5 DEF ProbeClock
  <2>2. board = FALSE
    BY <1>2, <1>5 DEF RadioTyped
  <2>3. StartOK(t, board) /\ SetsAll(t, board)
    BY <2>2, BringUpStarts
  <2> HIDE DEF t
  <2>4. t \in Seq(Cmd)
    BY <2>3 DEF StartOK
  <2>5. /\ drv' \in DrvType /\ turn' \in Turns /\ drv'.todo = t
        /\ (drv'.call = "none") <=> (drv'.todo = <<>>)
    BY <1>2, <1>3, <2>1, <2>4, GoOnIs
  <2>6. Ahead(t, chip.mode, chip.reg, drv'.bad, sw, unwritten, asked, board)
    BY <2>3, SetsAllSet, StartAhead
  <2>7. RadioTyped' /\ Believed'
    BY <1>1, <1>2, <1>5, <2>1, <2>5 DEF RadioTyped, Believed
  <2>8. QED
    BY <1>1, <2>5, <2>6, <2>7 DEF RInv
<1>6. QED
  BY <1>4, <1>5

LEMMA CommandKeeps ==
  ASSUME RInv, drv.call # "none", Command,
         Head(drv.todo) \notin Reads \cup Awaits \cup Switches \cup {"errors"}
  PROVE  RInv'
<1> DEFINE s == Head(drv.todo)
           c == Effect(s)
           lost == unwritten \ Writes(s)
<1>1. /\ UNCHANGED <<sw, gcfg, asked, board>> /\ GoOn(Rest, drv.answer, {}, FALSE)
      /\ chip' = c /\ unwritten' = lost
  BY DEF Command, Next1
<1>2. RadioTyped /\ Believed
  BY DEF RInv
<1>3. /\ drv.todo \in Seq(Cmd) /\ drv.todo # <<>> /\ Rest \in Seq(Cmd) /\ drv.answer \in Answers
      /\ Ahead(drv.todo, chip.mode, chip.reg, drv.bad, sw, unwritten, asked, board)
      /\ Rest = Tail(drv.todo)
  BY Busy
<1>4. /\ drv' \in DrvType /\ turn' \in Turns /\ drv'.todo = Rest /\ drv'.bad = drv.bad \cup {}
      /\ (drv'.call = "none") <=> (drv'.todo = <<>>)
  BY <1>1, <1>2, <1>3, GoOnIs
<1>5. /\ c \in ChipType /\ Rewritten(s, chip.reg, c.reg, unwritten, lost, asked)
      /\ s = "standby" => c.mode = "standby"
      /\ s # "set_tx" => (chip.mode # "tx" => c.mode # "tx")
  BY <1>2, EffectIs
<1>6. s # "sw_tx" /\ s # "errors"
  BY DEF Switches
<1> HIDE DEF c, lost
<1>7. Ahead(Rest, c.mode, c.reg, drv.bad, sw, lost, asked, board)
  BY <1>2, <1>3, <1>5, <1>6, StepOn
<1>8. drv'.bad = drv.bad
  BY <1>4
<1>9. RadioTyped' /\ Believed'
  <2>1. lost \subseteq Register
    BY <1>2 DEF lost, RadioTyped
  <2>2. QED
    BY <1>1, <1>2, <1>4, <1>5, <2>1 DEF RadioTyped, Believed
<1>10. QED
  BY <1>1, <1>4, <1>7, <1>8, <1>9 DEF RInv

LEMMA StepKeeps ==
  ASSUME RInv, Step
  PROVE  RInv'
<1>1. drv.call # "none"
  BY DEF Step
<1>2. \/ Head(drv.todo) \in Reads /\ ReadStep
      \/ Head(drv.todo) \in Awaits /\ Await
      \/ Head(drv.todo) \in Switches /\ Switch
      \/ Head(drv.todo) = "errors" /\ Probe
      \/ Head(drv.todo) \notin Reads \cup Awaits \cup Switches \cup {"errors"} /\ Command
  BY DEF Step
<1>3. QED
  BY <1>1, <1>2, ReadStepKeeps, AwaitKeeps, SwitchKeeps, ProbeKeeps, CommandKeeps

LEMMA AfterStopIs ==
  ASSUME NEW s
  PROVE  Tame(AfterStop(s)) /\ AfterStop(s) \in Seq(Cmd)
<1>1. Tame(<<>>) /\ Tame(<<"clear">>) /\ Tame(<<"sw_off">> \o StartRx)
  BY TameEmpty, TameParts, TameJoined
<1>2. AfterStop(s) = <<>> \/ AfterStop(s) = <<"clear">> \/ AfterStop(s) = <<"sw_off">> \o StartRx
  BY DEF AfterStop
<1>3. Tame(AfterStop(s))
  BY <1>1, <1>2
<1>4. QED
  BY <1>3 DEF Tame

LEMMA FailKeeps ==
  ASSUME RInv, Fail
  PROVE  RInv' /\ drv.bad \subseteq drv'.bad
<1> DEFINE s == Head(drv.todo)
           todo == IF Stops(s) THEN AfterStop(s) ELSE Rest
           c == IF s = "reset" THEN Effect(s) ELSE chip
           lost == unwritten \cup Writes(s) \cup (IF Stops(s) THEN WrittenBy(Rest) ELSE {})
                     \cup (IF ~board /\ (s = "errors" \/ (Stops(s) /\ ProbeAhead)) THEN {"clock"} ELSE {})
           cut == InBringUp /\ Stops(s)
<1>1. /\ drv.call # "none" /\ s \notin Awaits \cup Switches /\ chip' = c /\ unwritten' = lost
      /\ GoOn(todo, AnswerAt(s), {s}, cut) /\ UNCHANGED <<sw, gcfg, asked, board>>
  BY DEF Fail
<1>2. RadioTyped /\ Believed
  BY DEF RInv
<1>3. /\ drv.todo \in Seq(Cmd) /\ drv.todo # <<>> /\ Rest \in Seq(Cmd) /\ drv.answer \in Answers
      /\ Ahead(drv.todo, chip.mode, chip.reg, drv.bad, sw, unwritten, asked, board)
      /\ Rest = Tail(drv.todo) /\ s \in Cmd
  BY <1>1, Busy
<1>4. todo \in Seq(Cmd)
  BY <1>3, AfterStopIs
<1>5. AnswerAt(s) \in Answers /\ cut \in BOOLEAN /\ {s} \in SUBSET Cmd
  BY <1>3 DEF AnswerAt, Answers
<1> HIDE DEF cut
<1>6. /\ drv' \in DrvType /\ turn' \in Turns /\ drv'.todo = todo /\ drv'.bad = drv.bad \cup {s}
      /\ (drv'.call = "none") <=> (drv'.todo = <<>>)
  <2> DEFINE a == AnswerAt(s)
             failed == {s}
  <2>1. drv.call # "none" /\ GoOn(todo, a, failed, cut)
    BY <1>1
  <2>2. a \in Answers /\ cut \in BOOLEAN /\ failed \in SUBSET Cmd
    BY <1>5
  <2> HIDE DEF todo, a, failed
  <2>3. /\ drv' \in DrvType /\ turn' \in Turns /\ drv'.todo = todo /\ drv'.bad = drv.bad \cup failed
        /\ (drv'.call = "none") <=> (drv'.todo = <<>>)
    BY <2>1, <2>2, <1>2, <1>4, GoOnIs
  <2>4. QED
    BY <2>3 DEF failed
<1>7. /\ c \in ChipType /\ (chip.mode # "tx" => c.mode # "tx")
      /\ s # "reset" => c = chip
      /\ s = "reset" => \A r \in Register : c.reg[r] = Unset
  <2>1. CASE s = "reset"
    BY <1>2, <2>1, EffectIs
  <2>2. CASE s # "reset"
    BY <1>2, <2>2 DEF RadioTyped
  <2>3. QED
    BY <2>1, <2>2
<1>8. /\ unwritten \cup Writes(s) \subseteq lost /\ (Stops(s) => WrittenBy(Rest) \subseteq lost)
      /\ ~board /\ (s = "errors" \/ (Stops(s) /\ ProbeAhead)) => "clock" \in lost
  OBVIOUS
<1>9. lost \subseteq Register
  <2>1. WrittenBy(Rest) \subseteq Register
    BY WritesAre DEF WrittenBy
  <2>2. unwritten \subseteq Register /\ Writes(s) \subseteq Register /\ "clock" \in Register
    BY <1>2, WritesAre DEF RadioTyped, Register
  <2>3. QED
    BY <2>1, <2>2
<1> HIDE DEF c, lost
<1>10. ASSUME ~Stops(s)
       PROVE  Ahead(todo, c.mode, c.reg, drv.bad \cup {s}, sw, lost, asked, board)
  <2>1. todo = Rest
    BY <1>10
  <2>2. Rewritten(s, chip.reg, c.reg, unwritten, lost, asked)
    BY <1>7, <1>8 DEF Rewritten
  <2>3. s # "sw_tx" /\ (s = "standby" => "standby" \in drv.bad \cup {s})
    BY <1>1 DEF Switches
  <2>4. Ahead(Rest, c.mode, c.reg, drv.bad \cup {s}, sw, lost, asked, board)
    BY <1>2, <1>3, <1>7, <1>8, <2>2, <2>3, StepOn
  <2>5. QED
    BY <2>1, <2>4
<1>11. ASSUME Stops(s)
       PROVE  Ahead(todo, c.mode, c.reg, drv.bad \cup {s}, sw, lost, asked, board)
  <2>1. todo = AfterStop(s)
    BY <1>11
  <2>2. ~board /\ (\E i \in 1..Len(drv.todo) : drv.todo[i] = "errors") => "clock" \in lost
    <3>1. /\ s = drv.todo[1]
          /\ \A i \in 1..Len(drv.todo) :
               i # 1 => i - 1 \in 1..Len(Rest) /\ Rest[i - 1] = drv.todo[i]
      BY <1>3, TailIs
    <3>2. (\E i \in 1..Len(drv.todo) : drv.todo[i] = "errors") => s = "errors" \/ ProbeAhead
      BY <3>1 DEF ProbeAhead
    <3>3. QED
      BY <1>8, <1>11, <3>2
  <2>3. board \in BOOLEAN /\ s # "sw_off"
    BY <1>1, <1>2 DEF RadioTyped, Switches
  <2>4. OrderOK(drv.todo, board) /\ SetOK(drv.todo, chip.reg, unwritten, asked, board)
    BY <1>3 DEF Ahead
  <2>5. unwritten \cup Writes(s) \cup WrittenBy(Tail(drv.todo)) \subseteq lost
    BY <1>3, <1>8, <1>11
  <2>6. s # "reset" => c.reg = chip.reg
    BY <1>7
  <2>7. SetOK(AfterStop(s), c.reg, lost, asked, board)
    BY <1>3, <1>7, <2>2, <2>3, <2>4, <2>5, <2>6, StopSet
  <2>8. Ahead(AfterStop(s), c.mode, c.reg, drv.bad \cup {s}, sw, lost, asked, board)
    BY <2>7, AfterStopIs, TameAhead
  <2>9. QED
    BY <2>1, <2>8
<1>12. Ahead(todo, c.mode, c.reg, drv.bad \cup {s}, sw, lost, asked, board)
  BY <1>10, <1>11
<1> HIDE DEF todo
<1>13. RadioTyped' /\ Believed'
  BY <1>1, <1>2, <1>6, <1>7, <1>9 DEF RadioTyped, Believed
<1>14. QED
  BY <1>1, <1>6, <1>12, <1>13 DEF RInv

\* Between two calls every lasting register holds what was asked for, or is in doubt.
LEMMA IdleSet ==
  ASSUME RInv, drv.call = "none", turn # "boot", NEW u, NEW a, a.tuning = asked.tuning, a.power = asked.power
  PROVE  SetOK(u, chip.reg, unwritten, a, board)
<1>1. drv.todo = <<>> /\ Len(<<>>) = 0
  BY EmptySeq DEF RInv, RadioTyped
<1>2. SetOK(<<>>, chip.reg, unwritten, asked, board)
  BY <1>1 DEF RInv, Boot, Ahead
<1>3. \A r : Due(r, a) = Due(r, asked)
  BY DEF Due
<1>4. QED
  BY <1>1, <1>2, <1>3 DEF SetOK

LEMMA StartsKeeps ==
  ASSUME RadioTyped, NEW c \in Calls \ {"none"}, NEW todo, NEW a \in Answers, Starts(c, todo, a),
         StartOK(todo, board), SetOK(todo, chip.reg, unwritten, asked', board),
         gcfg' \in [tcxo : BOOLEAN, tuning : Nat, power : Power],
         asked' \in [tuning : Nat, power : Power, payload : {Unset} \cup Payload], Believed'
  PROVE  RInv'
<1>1. drv' = [Idle EXCEPT !.call = c, !.todo = todo, !.answer = a] /\ UNCHANGED <<chip, sw, unwritten, turn, board>>
  BY DEF Starts
<1>2. todo \in Seq(Cmd) /\ todo # <<>>
  BY DEF StartOK
<1>3. Idle \in DrvType
  BY EmptySeq DEF Idle, DrvType, Calls, Answers
<1>4. drv' \in DrvType /\ drv'.call = c /\ drv'.todo = todo
  BY <1>1, <1>2, <1>3 DEF DrvType
<1>5. Ahead(todo, chip.mode, chip.reg, drv'.bad, sw, unwritten, asked', board)
  BY StartAhead
<1>6. RadioTyped'
  BY <1>1, <1>2, <1>4 DEF RadioTyped
<1>7. QED
  BY <1>1, <1>4, <1>5, <1>6 DEF RInv

LEMMA CallerKeeps ==
  ASSUME RInv, Caller
  PROVE  RInv'
<1>1. RadioTyped /\ Believed /\ drv.call = "none"
  BY DEF RInv, Caller
<1>2. /\ gcfg \in [tcxo : BOOLEAN, tuning : Nat, power : Power] /\ board \in BOOLEAN
      /\ asked \in [tuning : Nat, power : Power, payload : {Unset} \cup Payload]
      /\ asked.tuning = gcfg.tuning /\ asked.power = gcfg.power /\ (board => gcfg.tcxo)
  BY <1>1 DEF RadioTyped, Believed
<1>3. /\ {"reset", "poll", "sense", "power", "send", "retune", "stop"} \subseteq Calls \ {"none"}
      /\ {"none", "done", "clear", "failed"} \subseteq Answers
  BY DEF Calls, Answers
<1>4. ASSUME CallInit
      PROVE  RInv'
  <2>1. PICK p \in Power : /\ asked' = [asked EXCEPT !.power = p]
                           /\ gcfg' = [tcxo |-> TRUE, tuning |-> asked.tuning, power |-> p]
    BY <1>4 DEF CallInit
  <2>2. Starts("reset", BringUp(TRUE), "done")
    BY <1>4 DEF CallInit
  <2>3. StartOK(BringUp(TRUE), board) /\ SetsAll(BringUp(TRUE), board)
    BY <1>2, BringUpStarts
  <2>4. SetOK(BringUp(TRUE), chip.reg, unwritten, asked', board)
    BY <2>3, SetsAllSet
  <2>5. /\ gcfg' \in [tcxo : BOOLEAN, tuning : Nat, power : Power] /\ Believed'
        /\ asked' \in [tuning : Nat, power : Power, payload : {Unset} \cup Payload]
    BY <1>2, <2>1 DEF Believed
  <2>6. QED
    BY <1>1, <1>3, <2>2, <2>3, <2>4, <2>5, StartsKeeps
<1>5. ASSUME CallPoll
      PROVE  RInv'
  <2>1. turn # "boot" /\ Starts("poll", PollRx, "none") /\ UNCHANGED <<gcfg, asked, board>>
    BY <1>5 DEF CallPoll, Starts
  <2>2. StartOK(PollRx, board)
    BY PollStarts
  <2>3. SetOK(PollRx, chip.reg, unwritten, asked', board)
    BY <1>1, <2>1, IdleSet
  <2>4. QED
    BY <1>1, <1>2, <1>3, <2>1, <2>2, <2>3, StartsKeeps DEF Believed
<1>6. ASSUME CallChannelBusy
      PROVE  RInv'
  <2>1. turn # "boot" /\ Starts("sense", ChannelBusy, "clear") /\ UNCHANGED <<gcfg, asked, board>>
    BY <1>6 DEF CallChannelBusy, Starts
  <2>2. StartOK(ChannelBusy, board)
    BY CalmStarts
  <2>3. SetOK(ChannelBusy, chip.reg, unwritten, asked', board)
    BY <1>1, <2>1, IdleSet
  <2>4. QED
    BY <1>1, <1>2, <1>3, <2>1, <2>2, <2>3, StartsKeeps DEF Believed
<1>7. ASSUME CallSetTxPower
      PROVE  RInv'
  <2>1. PICK p \in Power :
          /\ asked' = [asked EXCEPT !.power = p] /\ gcfg' = [gcfg EXCEPT !.power = p]
          /\ IF p = gcfg.power
               THEN turn' = "send" /\ UNCHANGED <<chip, sw, unwritten, drv, board>>
               ELSE Starts("power", SetTxPower, "done")
    BY <1>7 DEF CallSetTxPower
  <2>2. turn # "boot"
    BY <1>7 DEF CallSetTxPower
  <2>3. /\ gcfg' \in [tcxo : BOOLEAN, tuning : Nat, power : Power]
        /\ asked' \in [tuning : Nat, power : Power, payload : {Unset} \cup Payload]
        /\ asked'.tuning = asked.tuning /\ asked'.power = p
        /\ gcfg'.tuning = gcfg.tuning /\ gcfg'.power = p /\ gcfg'.tcxo = gcfg.tcxo
    BY <1>2, <2>1
  <2>4. Believed'
    <3>1. board' = board
      BY <2>1 DEF Starts
    <3>2. QED
      BY <1>2, <2>3, <3>1 DEF Believed
  <2>5. CASE p = gcfg.power
    <3>1. turn' = "send" /\ UNCHANGED <<chip, sw, unwritten, drv, board>>
      BY <2>1, <2>5
    <3>2. asked'.power = asked.power
      BY <1>2, <2>3, <2>5
    <3>3. SetOK(drv.todo, chip.reg, unwritten, asked', board)
      BY <1>1, <2>2, <2>3, <3>2, IdleSet
    <3>4. drv.todo = <<>>
      BY <1>1 DEF RadioTyped
    <3>5. Ahead(drv.todo, chip.mode, chip.reg, drv.bad, sw, unwritten, asked', board)
      BY <3>3, <3>4, TameEmpty, TameAhead
    <3>6. RadioTyped'
      BY <1>1, <2>3, <3>1 DEF RadioTyped, Turns
    <3>7. QED
      BY <2>4, <3>1, <3>5, <3>6 DEF RInv
  <2>6. CASE p # gcfg.power
    <3>1. Starts("power", SetTxPower, "done")
      BY <2>1, <2>6
    <3>2. StartOK(SetTxPower, board) /\ \E i \in 1..Len(SetTxPower) : "power" \in Writes(SetTxPower[i])
      BY CalmStarts
    <3>3. SetOK(SetTxPower, chip.reg, unwritten, asked, board)
      BY <1>1, <2>2, IdleSet
    <3>4. \A r : r # "power" => Due(r, asked') = Due(r, asked)
      BY <2>3 DEF Due
    <3>5. SetOK(SetTxPower, chip.reg, unwritten, asked', board)
      BY <3>2, <3>3, <3>4 DEF SetOK
    <3>6. QED
      BY <1>1, <1>3, <2>3, <2>4, <3>1, <3>2, <3>5, StartsKeeps
  <2>7. QED
    BY <2>5, <2>6
<1>8. ASSUME CallTransmit
      PROVE  RInv'
  <2>1. PICK m \in Payload : asked' = [asked EXCEPT !.payload = m]
    BY <1>8 DEF CallTransmit
  <2>2. turn # "boot" /\ Starts("send", Transmit, "failed") /\ UNCHANGED <<gcfg, board>>
    BY <1>8 DEF CallTransmit, Starts
  <2>3. /\ asked' \in [tuning : Nat, power : Power, payload : {Unset} \cup Payload]
        /\ asked'.tuning = asked.tuning /\ asked'.power = asked.power
    BY <1>2, <2>1
  <2>4. StartOK(Transmit, board)
    BY TransmitStarts
  <2>5. SetOK(Transmit, chip.reg, unwritten, asked', board)
    BY <1>1, <2>2, <2>3, IdleSet
  <2>6. Believed'
    BY <1>2, <2>2, <2>3 DEF Believed
  <2>7. QED
    BY <1>1, <1>2, <1>3, <2>2, <2>3, <2>4, <2>5, <2>6, StartsKeeps
<1>9. ASSUME CallReinit
      PROVE  RInv'
  <2> DEFINE t == BringUp(gcfg.tcxo)
  <2>1. Starts("reset", t, "done") /\ UNCHANGED <<gcfg, asked, board>>
    BY <1>9 DEF CallReinit, Starts
  <2>2. StartOK(t, board) /\ SetsAll(t, board)
    BY <1>2, BringUpStarts
  <2> HIDE DEF t
  <2>3. SetOK(t, chip.reg, unwritten, asked', board)
    BY <2>2, SetsAllSet
  <2>4. QED
    BY <1>1, <1>2, <1>3, <2>1, <2>2, <2>3, StartsKeeps DEF Believed
<1>10. ASSUME CallRetune
       PROVE  RInv'
  <2> DEFINE t == SetModem \o SetFrequency
  <2>1. PICK p \in Power :
          /\ asked' = [asked EXCEPT !.tuning = asked.tuning + 1, !.power = p]
          /\ gcfg' = [gcfg EXCEPT !.tuning = asked.tuning + 1, !.power = p]
    BY <1>10 DEF CallRetune
  <2>2. turn # "boot" /\ Starts("retune", t, "done") /\ UNCHANGED board
    BY <1>10 DEF CallRetune, Starts
  <2>3. /\ gcfg' \in [tcxo : BOOLEAN, tuning : Nat, power : Power] /\ Believed'
        /\ asked' \in [tuning : Nat, power : Power, payload : {Unset} \cup Payload]
    <3>1. asked.tuning + 1 \in Nat
      BY <1>2
    <3>2. /\ asked' \in [tuning : Nat, power : Power, payload : {Unset} \cup Payload]
          /\ asked'.tuning = asked.tuning + 1 /\ asked'.power = p
      BY <1>2, <2>1, <3>1
    <3>3. /\ gcfg' \in [tcxo : BOOLEAN, tuning : Nat, power : Power]
          /\ gcfg'.tuning = asked.tuning + 1 /\ gcfg'.power = p /\ gcfg'.tcxo = gcfg.tcxo
      BY <1>2, <2>1, <3>1
    <3>4. QED
      BY <1>2, <2>2, <3>2, <3>3 DEF Believed
  <2>4. /\ StartOK(t, board)
        /\ \A r \in {"freq", "modem", "power", "packet"} : \E i \in 1..Len(t) : r \in Writes(t[i])
    BY RetuneStarts
  <2> HIDE DEF t
  <2>5. SetOK(t, chip.reg, unwritten, asked, board)
    BY <1>1, <2>2, IdleSet
  <2>6. \A r : r \notin {"freq", "modem", "power", "packet"} => Due(r, asked') = Due(r, asked)
    BY DEF Due
  <2>7. SetOK(t, chip.reg, unwritten, asked', board)
    BY <2>4, <2>5, <2>6 DEF SetOK
  <2>8. QED
    BY <1>1, <1>3, <2>2, <2>3, <2>4, <2>7, StartsKeeps
<1>11. ASSUME CallStandby
       PROVE  RInv'
  <2>1. turn # "boot" /\ Starts("stop", Standby, "done") /\ UNCHANGED <<gcfg, asked, board>>
    BY <1>11 DEF CallStandby, Starts
  <2>2. StartOK(Standby, board)
    BY CalmStarts
  <2>3. SetOK(Standby, chip.reg, unwritten, asked', board)
    BY <1>1, <2>1, IdleSet
  <2>4. QED
    BY <1>1, <1>2, <1>3, <2>1, <2>2, <2>3, StartsKeeps DEF Believed
<1>12. ASSUME Nothing
       PROVE  RInv'
  <2>1. /\ turn # "boot" /\ turn' \in {"cli", "poll"}
        /\ UNCHANGED <<chip, sw, gcfg, asked, unwritten, drv, board>>
    BY <1>12 DEF Nothing
  <2>2. RadioTyped' /\ Believed'
    BY <1>1, <2>1 DEF RadioTyped, Believed, Turns
  <2>3. QED
    BY <2>1, <2>2 DEF RInv, Boot
<1>13. QED
  BY <1>4, <1>5, <1>6, <1>7, <1>8, <1>9, <1>10, <1>11, <1>12 DEF Caller

LEMMA ChipKeeps ==
  ASSUME RInv, chip' \in ChipType, chip'.reg = chip.reg, chip.mode # "tx" => chip'.mode # "tx",
         UNCHANGED <<sw, gcfg, asked, unwritten, turn, board>>,
         \E b \in BOOLEAN : drv' = [drv EXCEPT !.onair = b]
  PROVE  RInv'
<1>1. drv \in DrvType /\ RadioTyped /\ Believed
  BY DEF RInv, RadioTyped
<1>2. drv' \in DrvType /\ drv'.todo = drv.todo /\ drv'.bad = drv.bad /\ drv'.call = drv.call
  BY <1>1 DEF DrvType
<1>3. RadioTyped' /\ Believed'
  BY <1>1, <1>2 DEF RadioTyped, Believed
<1>4. CASE Boot
  BY <1>2, <1>3, <1>4 DEF RInv, Boot
<1>5. CASE ~Boot
  <2>1. Ahead(drv.todo, chip.mode, chip.reg, drv.bad, sw, unwritten, asked, board)
    BY <1>5 DEF RInv
  <2>2. Ahead(drv.todo, chip'.mode, chip.reg, drv.bad, sw, unwritten, asked, board)
    BY <2>1 DEF Ahead, SwitchOK
  <2>3. QED
    BY <1>2, <1>3, <2>2 DEF RInv
<1>6. QED
  BY <1>4, <1>5

LEMMA AirKeeps ==
  ASSUME RInv, (\E p \in Packet : Receive(p)) \/ ReceiveNoise \/ TxDone \/ CadDone
  PROVE  RInv' /\ (chip'.mode = "tx" => chip.mode = "tx") /\ UNCHANGED <<sw>>
<1>1. chip \in ChipType /\ drv \in DrvType
  BY DEF RInv, RadioTyped
<1>2. \A e \in SUBSET Events : Latch(e) \in SUBSET Events
  BY <1>1 DEF Latch, ChipType
<1>3. /\ {"rx_done"} \in SUBSET Events /\ {"rx_done", "crc_err"} \in SUBSET Events
      /\ {"hdr_err"} \in SUBSET Events /\ {"tx_done"} \in SUBSET Events
      /\ \A f \in {{}, {"cad_detected"}} : {"cad_done"} \cup f \in SUBSET Events
  BY DEF Events
<1>4. drv.onair \in BOOLEAN /\ drv = [drv EXCEPT !.onair = drv.onair]
  BY <1>1 DEF DrvType
<1>5. ASSUME NEW p \in Packet, Receive(p)
      PROVE  /\ chip' \in ChipType /\ chip'.reg = chip.reg /\ chip'.mode = chip.mode
             /\ UNCHANGED <<sw, gcfg, asked, unwritten, turn, board, drv>>
  <2>1. chip' = [chip EXCEPT !.irq = Latch({"rx_done"}), !.latched = @ \cup {p}, !.rx = p]
    BY <1>5 DEF Receive
  <2>2. Latch({"rx_done"}) \in SUBSET Events
    BY <1>2, <1>3
  <2>3. /\ chip.latched \cup {p} \in SUBSET (Packet \cup {Junk})
        /\ p \in {"none"} \cup Packet \cup {Junk}
    BY <1>1 DEF ChipType
  <2>4. chip' = [chip EXCEPT !.irq = Latch({"rx_done"}), !.latched = chip.latched \cup {p}, !.rx = p]
    BY <1>1, <2>1 DEF ChipType
  <2>5. chip' \in ChipType /\ chip'.reg = chip.reg /\ chip'.mode = chip.mode
    BY <1>1, <2>2, <2>3, <2>4 DEF ChipType
  <2>6. QED
    BY <1>5, <2>5 DEF Receive
<1>6. ASSUME ReceiveNoise
      PROVE  /\ chip' \in ChipType /\ chip'.reg = chip.reg /\ chip'.mode = chip.mode
             /\ UNCHANGED <<sw, gcfg, asked, unwritten, turn, board, drv>>
  <2>1. /\ Latch({"rx_done", "crc_err"}) \in SUBSET Events /\ Latch({"hdr_err"}) \in SUBSET Events
    BY <1>2, <1>3
  <2> DEFINE l == IF drv.call = "poll" THEN chip.latched \cup {Junk} ELSE chip.latched
  <2>2. l \in SUBSET (Packet \cup {Junk}) /\ Junk \in {"none"} \cup Packet \cup {Junk}
    BY <1>1 DEF ChipType
  <2>3. \/ chip' = [chip EXCEPT !.irq = Latch({"rx_done", "crc_err"}), !.rx = Junk, !.latched = l]
        \/ chip' = [chip EXCEPT !.irq = Latch({"hdr_err"})]
    BY <1>1, <1>6 DEF ReceiveNoise, ChipType
  <2> HIDE DEF l
  <2>4. chip' \in ChipType /\ chip'.reg = chip.reg /\ chip'.mode = chip.mode
    BY <1>1, <2>1, <2>2, <2>3 DEF ChipType
  <2>5. QED
    BY <1>6, <2>4 DEF ReceiveNoise
<1>7. ASSUME TxDone
      PROVE  /\ chip' \in ChipType /\ chip'.reg = chip.reg /\ chip'.mode # "tx"
             /\ UNCHANGED <<sw, gcfg, asked, unwritten, turn, board>>
             /\ \E b \in BOOLEAN : drv' = [drv EXCEPT !.onair = b]
  <2>1. Latch({"tx_done"}) \in SUBSET Events
    BY <1>2, <1>3
  <2>2. (drv.onair \/ drv.call = "send") \in BOOLEAN
    BY <1>4
  <2>3. drv' = [drv EXCEPT !.onair = (drv.onair \/ drv.call = "send")]
    BY <1>1, <1>7 DEF TxDone, DrvType
  <2>4. QED
    BY <1>1, <1>7, <2>1, <2>2, <2>3 DEF ChipType, TxDone
<1>8. ASSUME CadDone
      PROVE  /\ chip' \in ChipType /\ chip'.reg = chip.reg /\ chip'.mode # "tx"
             /\ UNCHANGED <<sw, gcfg, asked, unwritten, turn, board, drv>>
  <2>1. PICK f \in {{}, {"cad_detected"}} :
          chip' = [chip EXCEPT !.mode = "standby", !.irq = Latch({"cad_done"} \cup f)]
    BY <1>8 DEF CadDone
  <2>2. Latch({"cad_done"} \cup f) \in SUBSET Events
    BY <1>2, <1>3
  <2>3. QED
    BY <1>1, <1>8, <2>1, <2>2 DEF ChipType, CadDone
<1>9. UNCHANGED drv => \E b \in BOOLEAN : drv' = [drv EXCEPT !.onair = b]
  BY <1>4
<1>10. QED
  BY <1>5, <1>6, <1>7, <1>8, <1>9, ChipKeeps
----------------------------------------------------------------------------
(* What a step may do to the chip and its antenna.                         *)

LEMMA CallerLeaves ==
  ASSUME Caller
  PROVE  UNCHANGED <<chip, sw>>
BY DEF Caller, CallInit, CallPoll, CallChannelBusy, CallSetTxPower, CallTransmit, CallReinit,
       CallRetune, CallStandby, Nothing, Starts

\* Only set_tx makes the chip transmit.
LEMMA OnlySetTx ==
  ASSUME RInv, RadioNext, chip'.mode = "tx", chip.mode # "tx"
  PROVE  drv.call # "none" /\ Head(drv.todo) = "set_tx" /\ sw' = sw
<1>1. RadioTyped /\ Believed
  BY DEF RInv
<1>2. CASE Step
  <2>1. drv.call # "none"
    BY <1>2 DEF Step
  <2>2. chip' = chip \/ (Command /\ chip' = Effect(Head(drv.todo)))
    BY <1>2 DEF Step, ReadStep, Await, Switch, Probe, Command
  <2>3. Command /\ chip' = Effect(Head(drv.todo))
    BY <2>2
  <2>4. Head(drv.todo) = "set_tx"
    BY <1>1, <2>3, EffectIs
  <2>5. QED
    BY <2>1, <2>3, <2>4 DEF Command
<1>3. CASE Fail
  <2>1. chip' = chip \/ (Head(drv.todo) = "reset" /\ chip' = Effect(Head(drv.todo)))
    BY <1>3 DEF Fail
  <2>2. QED
    BY <1>1, <2>1, EffectIs
<1>4. CASE Caller
  BY <1>4, CallerLeaves
<1>5. CASE (\E p \in Packet : Receive(p)) \/ ReceiveNoise \/ TxDone \/ CadDone
  BY <1>5, AirKeeps
<1>6. QED
  BY <1>2, <1>3, <1>4, <1>5 DEF RadioNext

\* What the invariant says at set_tx.
LEMMA AtSetTx ==
  ASSUME RInv, drv.call # "none", Head(drv.todo) = "set_tx"
  PROVE  sw = "tx" /\ \A r \in Register \ unwritten : chip.reg[r] = Wanted(r)
<1> DEFINE t == drv.todo
<1>1. /\ t \in Seq(Cmd) /\ t # <<>>
      /\ Ahead(t, chip.mode, chip.reg, drv.bad, sw, unwritten, asked, board)
  BY Busy
<1>2. Len(t) \in Nat \ {0} /\ t[1] = "set_tx" /\ 1 \in 1..Len(t)
  BY <1>1, TailIs
<1> HIDE DEF t
<1>3. sw = "tx"
  BY <1>1, <1>2 DEF Ahead, SwitchOK
<1>4. SetOK(<<>>, chip.reg, unwritten, asked, board)
  <2>1. OrderOK(t, board) /\ SetOK(t, chip.reg, unwritten, asked, board) /\ Head(t) = "set_tx"
    BY <1>1 DEF Ahead, t
  <2>2. QED
    BY <1>1, <2>1, PlainSet
<1>5. /\ \A r \in Lasting(board) : r \in unwritten \/ chip.reg[r] = Due(r, asked)
      /\ ~board => "clock" \in unwritten \/ chip.reg["clock"] = Unset
  BY <1>4, EmptySeq DEF SetOK
<1>6. /\ "length" \in unwritten \/ chip.reg["length"] = asked.payload
      /\ "buffer" \in unwritten \/ chip.reg["buffer"] = asked.payload
  BY <1>1, <1>2 DEF Ahead, FilledOK
<1>7. ASSUME NEW r \in Register \ unwritten
      PROVE  chip.reg[r] = Wanted(r)
  <2>1. CASE r \in {"freq", "modem", "packet", "power", "sync"}
    BY <1>5, <1>7, <2>1 DEF Wanted, Due, Lasting
  <2>2. CASE r \in {"length", "buffer"}
    BY <1>6, <1>7, <2>2 DEF Wanted
  <2>3. CASE r = "clock"
    BY <1>5, <1>7, <2>3 DEF Wanted, Due, Lasting
  <2>4. QED
    BY <1>7, <2>1, <2>2, <2>3 DEF Register
<1>8. QED
  BY <1>3, <1>7

LEMMA SwitchStep ==
  ASSUME RInv, RadioNext, chip'.mode = "tx", sw' = "rx"
  PROVE  (chip.mode = "tx" /\ sw = "rx") \/ "standby" \in drv'.bad
<1>1. CASE chip.mode # "tx"
  BY <1>1, OnlySetTx, AtSetTx
<1>2. CASE chip.mode = "tx" /\ sw # "rx"
  <2>1. Step /\ Switch /\ drv.call # "none" /\ Head(drv.todo) \in Switches
    <3>1. ~Caller
      BY <1>2, CallerLeaves
    <3>2. ~((\E p \in Packet : Receive(p)) \/ ReceiveNoise \/ TxDone \/ CadDone)
      BY <1>2, AirKeeps
    <3>3. ~Fail
      BY <1>2 DEF Fail
    <3>4. Step
      BY <3>1, <3>2, <3>3 DEF RadioNext
    <3>5. QED
      BY <1>2, <3>4 DEF Step, ReadStep, Await, Probe, Command
  <2>2. Head(drv.todo) = "sw_rx"
    BY <2>1 DEF Switch, Switches
  <2>3. /\ drv.todo \in Seq(Cmd) /\ drv.todo # <<>>
        /\ SwitchOK(drv.todo, chip.mode, drv.bad, sw)
    BY <2>1, Busy DEF Ahead
  <2>4. 1 \in 1..Len(drv.todo) /\ drv.todo[1] = "sw_rx"
    BY <2>2, <2>3, TailIs
  <2>5. chip.mode # "tx" \/ "standby" \in drv.bad
    BY <2>3, <2>4 DEF SwitchOK
  <2>6. drv'.bad = drv.bad
    BY <2>1, SwitchKeeps
  <2>7. QED
    BY <1>2, <2>5, <2>6
<1>3. QED
  BY <1>1, <1>2
----------------------------------------------------------------------------
(* What RadioSpec guarantees, for every value of the constants.            *)

LEMMA RInvInit == RadioInit => RInv
<1> SUFFICES ASSUME RadioInit
             PROVE  RInv
  OBVIOUS
<1> DEFINE f == [r \in Register |-> Unset]
<1>1. f \in [Register -> Values]
  BY DEF Unset, Values
<1>2. chip = [mode |-> "standby", irq |-> {}, mask |-> {}, latched |-> {}, rx |-> "none", reg |-> f]
  BY DEF RadioInit
<1> HIDE DEF f
<1>3. chip \in ChipType
  BY <1>1, <1>2 DEF ChipType
<1>4. Idle \in DrvType /\ Idle.call = "none" /\ Idle.todo = <<>>
  BY EmptySeq DEF Idle, DrvType, Calls, Answers
<1>5. RadioTyped /\ Believed /\ Boot
  BY <1>3, <1>4 DEF RadioInit, RadioTyped, Believed, Boot, Turns, Unset
<1>6. QED
  BY <1>5 DEF RInv

LEMMA RInvNext == RInv /\ [RadioNext]_radioVars => RInv'
<1> SUFFICES ASSUME RInv, [RadioNext]_radioVars
             PROVE  RInv'
  OBVIOUS
<1>1. CASE Step
  BY <1>1, StepKeeps
<1>2. CASE Fail
  BY <1>2, FailKeeps
<1>3. CASE Caller
  BY <1>3, CallerKeeps
<1>4. CASE (\E p \in Packet : Receive(p)) \/ ReceiveNoise \/ TxDone \/ CadDone
  BY <1>4, AirKeeps
<1>5. CASE UNCHANGED radioVars
  BY <1>5 DEF radioVars, RInv, RadioTyped, Believed, Boot
<1>6. QED
  BY <1>1, <1>2, <1>3, <1>4, <1>5 DEF RadioNext

(* The state of the driver and of the chip keeps its type, and a call that *)
(* runs has commands left (sx126x.c).                                      *)
THEOREM RadioTypeCorrect == RadioSpec => []RadioTypeOK
<1>1. RInv => RadioTypeOK
  BY DEF RInv, RadioTyped, ChipType, Turns, RadioTypeOK
<1>2. QED
  BY RInvInit, RInvNext, <1>1, PTL DEF RadioSpec

(* The antenna is never switched to the receiver while the chip transmits, *)
(* nor the other way round, unless the chip refused to stop, however many  *)
(* commands fail and wherever a call stops (sx126x_transmit, SX_TRY).      *)
THEOREM SwitchAlwaysSafe == RadioSpec => SwitchSafe
<1>1. RInv /\ [RadioNext]_radioVars
        => [(chip'.mode = "tx" /\ sw' = "rx") =>
              (chip.mode = "tx" /\ sw = "rx") \/ "standby" \in drv'.bad]_radioVars
  BY SwitchStep
<1>2. QED
  BY RInvInit, RInvNext, <1>1, PTL DEF RadioSpec, SwitchSafe

(* A packet goes on air with the settings, power and bytes asked for last, *)
(* or with a register whose write failed (sx126x_set_tx_power, apply_radio,*)
(* sx126x_reinit).                                                         *)
THEOREM AlwaysSentAsAsked == RadioSpec => SentAsAsked
<1>1. RInv /\ [RadioNext]_radioVars
        => [(chip'.mode = "tx" /\ chip.mode # "tx") =>
              \A r \in Register \ unwritten : chip.reg[r] = Wanted(r)]_radioVars
  BY OnlySetTx, AtSetTx
<1>2. QED
  BY RInvInit, RInvNext, <1>1, PTL DEF RadioSpec, SentAsAsked

----------------------------------------------------------------------------
(* The driver implements its contract. What a call says at its end depends *)
(* on what it did before, so the invariant follows it: how far the call is *)
(* is told by how many of its commands are left.                           *)

\* t is what is left of the commands w.
EndOf(t, w) ==
  Len(t) <= Len(w) /\ \A i \in 1..Len(t) : t[i] = w[Len(w) - Len(t) + i]

\* What a poll does to fetch a packet; and what it does after a failure of reception
\* or without one is the end of that.
FetchRx == <<"buf_status", "read", "pkt_status", "clear">>

\* The commands of a call.
Body(c, w) ==
  \/ c = "poll" /\ w \in {PollRx, FetchRx}
  \/ c = "sense" /\ w = ChannelBusy
  \/ c = "power" /\ w = SetTxPower
  \/ c = "send" /\ w = Transmit
  \/ c = "retune" /\ w = SetModem \o SetFrequency
  \/ c = "reset" /\ w \in {BringUp(TRUE), BringUp(FALSE)}
  \/ c = "stop" /\ w = Standby

\* t is what is left of the call c.
LeftIn(c, t) == \E w \in Seq(Cmd) : Body(c, w) /\ EndOf(t, w)

\* What a call other than a poll returns.
Verdicts(c) ==
  IF c = "sense" THEN {"busy", "clear"} ELSE IF c = "send" THEN {"sent", "failed"} ELSE {"done"}

Noisy(c) == c.irq \cap {"crc_err", "hdr_err"} # {}
Listening(c, antenna) == c.mode = "rx" /\ c.mask = RxMask /\ antenna = "rx"

\* What is latched is flagged, and the last good packet is in the buffer.
Flagged(c) ==
  /\ "crc_err" \in c.irq => "rx_done" \in c.irq
  /\ c.latched # {} => "rx_done" \in c.irq
  /\ "rx_done" \in c.irq /\ "crc_err" \notin c.irq => c.rx \in c.latched

\* What a poll is about to say is true.
Truthful(c, antenna, a, bad) ==
  \/ a \in c.latched
  \/ a = "error" /\ (Noisy(c) \/ bad # {})
  \/ a = "none" /\ ~Listening(c, antenna) /\ c.latched = {} /\ ~Noisy(c)

\* A poll about to do s.
Polling(s, c, antenna, a, bad) ==
  /\ s = "irq" => c.irq \cap c.mask # {}
  /\ s = "buf_status" => c.rx \in c.latched
  /\ s \in {"read", "pkt_status", "clear"} => Truthful(c, antenna, a, bad)

\* What a call that has n commands left and met no failure has achieved. The calls
\* that end in reception have the same last five.
Achieved(call, n, c, antenna, a, aired) ==
  /\ call = "sense" =>
       /\ n <= 8 => c.mode \in {"standby", "cad"}
       /\ n <= 7 => c.latched = {} /\ ~Noisy(c)
  /\ call \in {"power", "stop"} => (n <= 1 => c.mode = "standby")
  /\ call \in {"send", "retune", "reset"} =>
       /\ n <= 4 => c.mode = "standby"
       /\ n <= 3 => c.irq = {} /\ c.latched = {}
       /\ n <= 2 => c.mask = RxMask
       /\ n <= 1 => antenna = "rx"
  /\ call = "send" =>
       /\ n <= 14 /\ "tx_done" \in c.irq => aired
       /\ a = "sent" => aired

KInv ==
  /\ Flagged(chip)
  /\ drv.call = "none" => drv.onair = FALSE
  /\ drv.call # "none" => LeftIn(drv.call, drv.todo)
  /\ drv.call = "poll" => Polling(Head(drv.todo), chip, sw, drv.answer, drv.bad)
  /\ drv.call \notin {"none", "poll"} =>
       /\ drv.answer \in Verdicts(drv.call)
       /\ drv.bad = {} => Achieved(drv.call, Len(drv.todo), chip, sw, drv.answer, drv.onair)

\* Together with what is known of the driver.
CInv == RInv /\ KInv

LEMMA EndOfItself ==
  ASSUME NEW w \in Seq(Cmd)
  PROVE  EndOf(w, w)
BY DEF EndOf

LEMMA EndOfTail ==
  ASSUME NEW t \in Seq(Cmd), t # <<>>, NEW w \in Seq(Cmd), EndOf(t, w)
  PROVE  /\ EndOf(Tail(t), w)
         /\ Head(t) = w[Len(w) - Len(t) + 1] /\ Len(w) - Len(t) + 1 \in 1..Len(w)
<1>1. /\ Len(t) \in Nat \ {0} /\ Len(Tail(t)) = Len(t) - 1 /\ Head(t) = t[1]
      /\ \A i \in 1..Len(Tail(t)) : i + 1 \in 1..Len(t) /\ Tail(t)[i] = t[i + 1]
  BY TailIs
<1>2. Len(w) \in Nat
  OBVIOUS
<1>3. /\ Len(t) <= Len(w) /\ \A i \in 1..Len(t) : t[i] = w[Len(w) - Len(t) + i]
  BY DEF EndOf
<1>4. Len(Tail(t)) <= Len(w)
  BY <1>1, <1>2, <1>3
<1>5. ASSUME NEW i \in 1..Len(Tail(t))
      PROVE  Tail(t)[i] = w[Len(w) - Len(Tail(t)) + i]
  <2>1. Tail(t)[i] = t[i + 1] /\ t[i + 1] = w[Len(w) - Len(t) + (i + 1)]
    BY <1>1, <1>3
  <2>2. Len(w) - Len(t) + (i + 1) = Len(w) - Len(Tail(t)) + i
    BY <1>1, <1>2
  <2>3. QED
    BY <2>1, <2>2
<1>6. 1 \in 1..Len(t) /\ Len(w) - Len(t) + 1 \in 1..Len(w)
  BY <1>1, <1>2, <1>3
<1>7. QED
  BY <1>1, <1>3, <1>4, <1>5, <1>6 DEF EndOf

\* The calls that end in reception: their length, and their last commands.
EndsInRx(w) ==
  /\ w \in Seq(Cmd) /\ Len(w) >= 5
  /\ w[Len(w) - 4] = "standby" /\ w[Len(w) - 3] = "clear" /\ w[Len(w) - 2] = "mask_rx"
  /\ w[Len(w) - 1] = "sw_rx" /\ w[Len(w)] = "set_rx"
  /\ \A i \in 1..Len(w) : w[i] \notin {"await_cad", "dio", "irq", "buf_status"}

LEMMA RxEnds ==
  ASSUME NEW p \in Seq(Cmd), NEW q, EndsInRx(q) \/ q = StartRx,
         \A i \in 1..Len(p) : p[i] \notin {"await_cad", "dio", "irq", "buf_status"}
  PROVE  EndsInRx(p \o q)
<1> DEFINE t == p \o q
<1>1. EndsInRx(q)
  <2>1. CASE q = StartRx
    BY <2>1 DEF EndsInRx, StartRx, Cmd
  <2>2. QED
    BY <2>1
<1>2. /\ q \in Seq(Cmd) /\ Len(q) >= 5
      /\ q[Len(q) - 4] = "standby" /\ q[Len(q) - 3] = "clear" /\ q[Len(q) - 2] = "mask_rx"
      /\ q[Len(q) - 1] = "sw_rx" /\ q[Len(q)] = "set_rx"
      /\ \A i \in 1..Len(q) : q[i] \notin {"await_cad", "dio", "irq", "buf_status"}
  BY <1>1 DEF EndsInRx
<1>3. /\ t \in Seq(Cmd) /\ Len(t) = Len(p) + Len(q) /\ Len(p) \in Nat /\ Len(q) \in Nat
      /\ \A i \in 1..Len(q) : t[Len(p) + i] = q[i]
      /\ \A i \in 1..Len(t) : \/ i \in 1..Len(p) /\ t[i] = p[i]
                              \/ i - Len(p) \in 1..Len(q) /\ t[i] = q[i - Len(p)]
  BY <1>2, Joined
<1> HIDE DEF t
<1>4. \A k \in 0..4 : Len(q) - k \in 1..Len(q) /\ Len(p) + (Len(q) - k) = Len(t) - k
  BY <1>2, <1>3
<1>5. \A k \in 0..4 : t[Len(t) - k] = q[Len(q) - k]
  BY <1>3, <1>4
<1>6. /\ t[Len(t) - 4] = "standby" /\ t[Len(t) - 3] = "clear" /\ t[Len(t) - 2] = "mask_rx"
      /\ t[Len(t) - 1] = "sw_rx"
  <2>1. /\ t[Len(t) - 4] = q[Len(q) - 4] /\ t[Len(t) - 3] = q[Len(q) - 3]
        /\ t[Len(t) - 2] = q[Len(q) - 2] /\ t[Len(t) - 1] = q[Len(q) - 1]
    BY <1>5
  <2>2. QED
    BY <1>2, <2>1
<1>7. t[Len(t)] = "set_rx"
  <2>1. t[Len(t) - 0] = q[Len(q) - 0]
    BY <1>5
  <2>2. Len(t) \in Nat /\ Len(q) \in Nat
    BY <1>3
  <2>3. Len(t) - 0 = Len(t) /\ Len(q) - 0 = Len(q)
    BY <2>2
  <2>4. QED
    BY <1>2, <2>1, <2>3
<1>8. Len(t) >= 5
  BY <1>2, <1>3
<1>9. \A i \in 1..Len(t) : t[i] \notin {"await_cad", "dio", "irq", "buf_status"}
  BY <1>2, <1>3
<1>10. QED
  BY <1>3, <1>6, <1>7, <1>8, <1>9 DEF EndsInRx, t

LEMMA BringUpEnds ==
  ASSUME NEW tcxo \in BOOLEAN
  PROVE  /\ EndsInRx(BringUp(tcxo)) /\ Len(BringUp(tcxo)) \in {19, 23}
         /\ \A i \in 1..Len(BringUp(tcxo)) : BringUp(tcxo)[i] # "await_tx"
<1> DEFINE t == BringUp(tcxo)
<1>1. PICK n \in Nat : n = IF tcxo THEN 10 ELSE 6
  OBVIOUS
<1>2. /\ t \in Seq(Cmd) /\ Len(t) = n + 13 /\ SetUpAt(t, n)
      /\ t[1] = "sw_off" /\ t[2] = "reset" /\ t[3] = "standby" /\ t[4] = "regulator"
      /\ t[5] = "clear_errors"
      /\ tcxo => t[6] = "tcxo" /\ t[7] = "calibrate" /\ t[8] = "standby" /\ t[9] = "errors"
  BY <1>1, BringUpIs
<1> HIDE DEF t
<1>3. /\ t[n + 9] = "standby" /\ t[n + 10] = "clear" /\ t[n + 11] = "mask_rx"
      /\ t[n + 12] = "sw_rx" /\ t[n + 13] = "set_rx"
  BY <1>2 DEF SetUpAt
<1>4. n \in {6, 10} /\ Len(t) \in {19, 23}
  BY <1>1, <1>2
<1>5. /\ Len(t) >= 5 /\ Len(t) - 4 = n + 9 /\ Len(t) - 3 = n + 10 /\ Len(t) - 2 = n + 11
      /\ Len(t) - 1 = n + 12
  BY <1>2, <1>4
<1>6. ASSUME NEW i \in 1..Len(t)
      PROVE  t[i] \notin {"await_cad", "dio", "irq", "buf_status", "await_tx"}
  <2>1. CASE i >= n
    <3>1. i - n \in 0..13 /\ i = n + (i - n)
      BY <1>2, <1>4, <2>1
    <3>2. \A k \in 0..13 : t[n + k] \notin {"await_cad", "dio", "irq", "buf_status", "await_tx"}
      <4>1. n + 0 = n
        BY <1>4
      <4>2. SUFFICES ASSUME NEW k \in 0..13
                     PROVE  t[n + k] \notin {"await_cad", "dio", "irq", "buf_status", "await_tx"}
        OBVIOUS
      <4>3. k \in 0..6 \/ k \in 7..13
        OBVIOUS
      <4>4. CASE k \in 0..6
        BY <1>2, <4>1, <4>4 DEF SetUpAt
      <4>5. CASE k \in 7..13
        BY <1>2, <4>5 DEF SetUpAt
      <4>6. QED
        BY <4>3, <4>4, <4>5
    <3>3. QED
      BY <3>1, <3>2
  <2>2. CASE i < n
    <3>1. i \in 1..5 \/ (tcxo /\ i \in 6..9)
      BY <1>1, <1>4, <2>2
    <3>2. QED
      BY <1>2, <3>1
  <2>3. QED
    BY <1>4, <2>1, <2>2
<1>7. QED
  BY <1>2, <1>3, <1>4, <1>5, <1>6 DEF EndsInRx, t

LEMMA RetuneEnds ==
  /\ EndsInRx(SetModem \o SetFrequency)
  /\ \A i \in 1..Len(SetModem \o SetFrequency) :
       (SetModem \o SetFrequency)[i] \notin {"await_tx", "errors"}
<1> DEFINE p == <<"standby", "power", "modem", "packet">>
           q == <<"standby", "freq", "image">>
           w == <<"await_cad", "dio", "irq", "buf_status", "await_tx">>
<1>1. p \in Seq(Cmd) /\ \A i \in 1..Len(p) : p[i] \notin {"await_cad", "dio", "irq", "buf_status", "await_tx", "errors"}
  BY DEF Cmd
<1>2. q \in Seq(Cmd) /\ \A i \in 1..Len(q) : q[i] \notin {"await_cad", "dio", "irq", "buf_status", "await_tx", "errors"}
  BY DEF Cmd
<1>3. StartRx \in Seq(Cmd) /\ \A i \in 1..Len(StartRx) : StartRx[i] \notin {"await_tx", "errors"}
  BY DEF StartRx, Cmd
<1>4. SetModem = p \o StartRx /\ SetFrequency = q \o StartRx
  BY DEF SetModem, SetFrequency
<1> HIDE DEF p, q
<1>5. EndsInRx(SetModem) /\ EndsInRx(SetFrequency)
  BY <1>1, <1>2, <1>4, RxEnds
<1>6. SetModem \in Seq(Cmd) /\ SetFrequency \in Seq(Cmd)
      /\ \A i \in 1..Len(SetModem) : SetModem[i] \notin {"await_cad", "dio", "irq", "buf_status"}
  BY <1>5 DEF EndsInRx
<1>7. EndsInRx(SetModem \o SetFrequency)
  BY <1>5, <1>6, RxEnds
<1>8. \A i \in 1..Len(SetModem) : SetModem[i] \notin {"await_tx", "errors"}
  BY <1>1, <1>3, <1>4, Joined
<1>9. \A i \in 1..Len(SetFrequency) : SetFrequency[i] \notin {"await_tx", "errors"}
  BY <1>2, <1>3, <1>4, Joined
<1>10. QED
  BY <1>6, <1>7, <1>8, <1>9, Joined

LEMMA SendEnds == EndsInRx(Transmit) /\ \A i \in 1..Len(Transmit) : Transmit[i] # "errors"
<1> DEFINE t == Transmit
<1>1. /\ t \in Seq(Cmd) /\ Len(t) = 16 /\ t[16 - 4] = "standby" /\ t[16 - 3] = "clear"
      /\ t[16 - 2] = "mask_rx" /\ t[16 - 1] = "sw_rx" /\ t[16] = "set_rx"
  BY TransmitIs
<1>2. \A i \in 1..16 : t[i] \notin {"await_cad", "dio", "irq", "buf_status", "errors"}
  BY TransmitIs
<1> HIDE DEF t
<1>3. EndsInRx(t)
  BY <1>1, <1>2 DEF EndsInRx
<1>4. QED
  BY <1>1, <1>2, <1>3 DEF t

\* A command of a call that ends in reception, by how many are left.
LEMMA AtRxEnd ==
  ASSUME NEW t \in Seq(Cmd), t # <<>>, NEW c \in {"send", "retune", "reset"}, LeftIn(c, t)
  PROVE  /\ LeftIn(c, Tail(t))
         /\ Len(t) = 5 => Head(t) = "standby"
         /\ Len(t) = 4 => Head(t) = "clear"
         /\ Len(t) = 3 => Head(t) = "mask_rx"
         /\ Len(t) = 2 => Head(t) = "sw_rx"
         /\ Len(t) = 1 => Head(t) = "set_rx"
         /\ Head(t) \notin {"await_cad", "dio", "irq", "buf_status"}
         /\ c # "send" => Head(t) # "await_tx"
         /\ c # "reset" => Head(t) # "errors"
<1>1. PICK w \in Seq(Cmd) : Body(c, w) /\ EndOf(t, w)
  BY DEF LeftIn
<1>2. /\ EndsInRx(w) /\ (c # "send" => \A i \in 1..Len(w) : w[i] # "await_tx")
      /\ c # "reset" => \A i \in 1..Len(w) : w[i] # "errors"
  <2>1. CASE c = "send"
    <3>1. w = Transmit
      BY <1>1, <2>1 DEF Body
    <3>2. QED
      BY <2>1, <3>1, SendEnds
  <2>2. CASE c = "retune"
    <3> DEFINE r == SetModem \o SetFrequency
    <3>1. w = r
      BY <1>1, <2>2 DEF Body
    <3>2. EndsInRx(r) /\ \A i \in 1..Len(r) : r[i] \notin {"await_tx", "errors"}
      BY RetuneEnds
    <3> HIDE DEF r
    <3>3. QED
      BY <2>2, <3>1, <3>2
  <2>3. CASE c = "reset"
    <3>1. w = BringUp(TRUE) \/ w = BringUp(FALSE)
      BY <1>1, <2>3 DEF Body
    <3>2. QED
      BY <2>3, <3>1, BringUpEnds
  <2>4. QED
    BY <2>1, <2>2, <2>3
<1>3. EndOf(Tail(t), w) /\ Head(t) = w[Len(w) - Len(t) + 1] /\ Len(w) - Len(t) + 1 \in 1..Len(w)
  BY <1>1, EndOfTail
<1>4. LeftIn(c, Tail(t))
  BY <1>1, <1>3 DEF LeftIn
<1>5. Len(w) \in Nat /\ Len(t) \in Nat
  OBVIOUS
<1>6. /\ Len(t) = 5 => Len(w) - Len(t) + 1 = Len(w) - 4
      /\ Len(t) = 4 => Len(w) - Len(t) + 1 = Len(w) - 3
      /\ Len(t) = 3 => Len(w) - Len(t) + 1 = Len(w) - 2
      /\ Len(t) = 2 => Len(w) - Len(t) + 1 = Len(w) - 1
      /\ Len(t) = 1 => Len(w) - Len(t) + 1 = Len(w)
  <2>1. PICK n \in Nat, k \in Nat : n = Len(t) /\ k = Len(w)
    BY <1>5
  <2>2. /\ n = 5 => k - n + 1 = k - 4
        /\ n = 4 => k - n + 1 = k - 3
        /\ n = 3 => k - n + 1 = k - 2
        /\ n = 2 => k - n + 1 = k - 1
        /\ n = 1 => k - n + 1 = k
    OBVIOUS
  <2>3. QED
    BY <2>1, <2>2
<1>7. QED
  BY <1>2, <1>3, <1>4, <1>6 DEF EndsInRx

LEMMA AtSend ==
  ASSUME NEW t \in Seq(Cmd), t # <<>>, LeftIn("send", t)
  PROVE  /\ Len(t) \in 1..16
         /\ Len(t) = 15 => Head(t) = "clear"
         /\ Head(t) = "await_tx" => Len(t) = 8
<1>1. EndOf(t, Transmit)
  BY DEF LeftIn, Body
<1>2. /\ Head(t) = Transmit[Len(Transmit) - Len(t) + 1]
      /\ Len(Transmit) - Len(t) + 1 \in 1..Len(Transmit)
  BY <1>1, TransmitIs, EndOfTail
<1>3. PICK n \in Nat : n = Len(t)
  OBVIOUS
<1>4. 17 - n \in 1..16 /\ Head(t) = Transmit[17 - n]
  BY <1>2, <1>3, TransmitIs
<1>5. \A i \in 1..16 : Transmit[i] = "await_tx" => i = 9
  BY TransmitIs
<1>6. n \in 1..16 /\ (n = 15 => 17 - n = 2) /\ (17 - n = 9 => n = 8)
  <2>1. 17 - n \in 1..16
    BY <1>4
  <2>2. QED
    BY <2>1
<1>7. QED
  BY <1>3, <1>4, <1>5, <1>6, TransmitIs

LEMMA AtSense ==
  ASSUME NEW t \in Seq(Cmd), t # <<>>, LeftIn("sense", t)
  PROVE  /\ Len(t) \in 1..9 /\ LeftIn("sense", Tail(t))
         /\ Len(t) = 9 => Head(t) = "standby"
         /\ Len(t) = 8 => Head(t) = "clear"
         /\ Len(t) = 1 => Head(t) = "sw_off"
         /\ Len(t) \in 1..8 => Head(t) \in {"clear", "mask_cad", "cad_params", "sw_rx", "set_cad",
                                            "await_cad", "sw_off"}
<1> DEFINE w == ChannelBusy
<1>1. /\ w \in Seq(Cmd) /\ Len(w) = 9 /\ w[1] = "standby" /\ w[2] = "clear" /\ w[9] = "sw_off"
      /\ \A i \in 2..9 : w[i] \in {"clear", "mask_cad", "cad_params", "sw_rx", "set_cad",
                                   "await_cad", "sw_off"}
  BY DEF ChannelBusy, Cmd
<1>2. EndOf(t, w)
  BY DEF LeftIn, Body
<1>3. LeftIn("sense", Tail(t))
  BY <1>1, <1>2, EndOfTail DEF LeftIn, Body
<1> HIDE DEF w
<1>4. Head(t) = w[Len(w) - Len(t) + 1] /\ Len(w) - Len(t) + 1 \in 1..Len(w)
  BY <1>1, <1>2, EndOfTail
<1>5. PICK n \in Nat : n = Len(t)
  OBVIOUS
<1>6. 10 - n \in 1..9 /\ Head(t) = w[10 - n]
  BY <1>1, <1>4, <1>5
<1>7. /\ n \in 1..9 /\ (n = 9 => 10 - n = 1) /\ (n = 8 => 10 - n = 2) /\ (n = 1 => 10 - n = 9)
      /\ (n \in 1..8 => 10 - n \in 2..9)
  <2>1. 10 - n \in 1..9
    BY <1>6
  <2>2. QED
    BY <2>1
<1>8. QED
  BY <1>1, <1>3, <1>5, <1>6, <1>7

LEMMA AtShort ==
  ASSUME NEW t \in Seq(Cmd), t # <<>>, NEW c \in {"power", "stop"}, LeftIn(c, t)
  PROVE  /\ Len(t) \in 1..2 /\ LeftIn(c, Tail(t))
         /\ Len(t) = 2 => Head(t) = "standby"
         /\ Len(t) = 1 => Head(t) = IF c = "power" THEN "power" ELSE "sw_off"
<1>1. PICK w \in Seq(Cmd) : Body(c, w) /\ EndOf(t, w)
  BY DEF LeftIn
<1>2. Len(w) = 2 /\ w[1] = "standby" /\ w[2] = IF c = "power" THEN "power" ELSE "sw_off"
  <2>1. CASE c = "power"
    BY <1>1, <2>1 DEF Body, SetTxPower
  <2>2. CASE c = "stop"
    BY <1>1, <2>2 DEF Body, Standby
  <2>3. QED
    BY <2>1, <2>2
<1>3. EndOf(Tail(t), w) /\ Head(t) = w[Len(w) - Len(t) + 1] /\ Len(w) - Len(t) + 1 \in 1..Len(w)
  BY <1>1, EndOfTail
<1>4. LeftIn(c, Tail(t))
  BY <1>1, <1>3 DEF LeftIn
<1>5. PICK n \in Nat : n = Len(t)
  OBVIOUS
<1>6. 3 - n \in 1..2 /\ Head(t) = w[3 - n]
  BY <1>2, <1>3, <1>5
<1>7. n \in 1..2 /\ (n = 2 => 3 - n = 1) /\ (n = 1 => 3 - n = 2)
  <2>1. 3 - n \in 1..2
    BY <1>6
  <2>2. QED
    BY <2>1
<1>8. QED
  BY <1>2, <1>4, <1>5, <1>6, <1>7

LEMMA AtPoll ==
  ASSUME NEW t \in Seq(Cmd), t # <<>>, LeftIn("poll", t)
  PROVE  /\ Head(t) \in {"dio", "irq", "buf_status", "read", "pkt_status", "clear"}
         /\ LeftIn("poll", Tail(t))
         /\ Tail(t) = <<>> => Head(t) \in {"irq", "clear"}
         /\ Head(t) = "clear" => Tail(t) = <<>>
         /\ Tail(t) # <<>> => /\ Head(t) = "dio" => Head(Tail(t)) = "irq"
                              /\ Head(t) \in {"buf_status", "read", "pkt_status"}
                                  => Head(Tail(t)) \in {"read", "pkt_status", "clear"}
                              /\ Head(t) # "irq"
<1>1. PICK w \in Seq(Cmd) : Body("poll", w) /\ EndOf(t, w)
  BY DEF LeftIn
<1>2. PICK n \in Nat, k \in Nat : n = Len(t) /\ k = Len(w)
  OBVIOUS
<1>3. EndOf(Tail(t), w) /\ Head(t) = w[Len(w) - Len(t) + 1] /\ Len(w) - Len(t) + 1 \in 1..Len(w)
  BY <1>1, EndOfTail
<1>4. LeftIn("poll", Tail(t))
  BY <1>1, <1>3 DEF LeftIn
<1>5. Head(t) = w[k - n + 1] /\ k - n + 1 \in 1..k
  BY <1>2, <1>3
<1>6. Tail(t) \in Seq(Cmd) /\ Len(Tail(t)) = n - 1 /\ n >= 1
  BY <1>2, TailIs
<1>7. Tail(t) # <<>> => n >= 2 /\ Head(Tail(t)) = w[k - n + 2]
  <2>1. ASSUME Tail(t) # <<>>
        PROVE  Head(Tail(t)) = w[Len(w) - Len(Tail(t)) + 1] /\ Len(Tail(t)) # 0
    BY <1>3, <1>6, <2>1, EndOfTail, TailIs
  <2>2. k - (n - 1) + 1 = k - n + 2
    BY <1>2
  <2>3. QED
    BY <1>2, <1>6, <2>1, <2>2
<1>8. Tail(t) = <<>> => n = 1
  <2>1. Len(<<>>) = 0
    BY EmptySeq
  <2>2. Tail(t) = <<>> => n - 1 = 0
    BY <1>6, <2>1
  <2>3. QED
    BY <2>2
<1>9. CASE w = PollRx
  <2>1. k = 2 /\ w[1] = "dio" /\ w[2] = "irq"
    BY <1>2, <1>9 DEF PollRx
  <2>2. n = 1 \/ n = 2
    BY <1>5, <1>6, <2>1
  <2>3. CASE n = 1
    BY <1>4, <1>5, <1>7, <1>8, <2>1, <2>3
  <2>4. CASE n = 2
    BY <1>4, <1>5, <1>7, <1>8, <2>1, <2>4
  <2>5. QED
    BY <2>2, <2>3, <2>4
<1>10. CASE w = FetchRx
  <2>1. k = 4 /\ w[1] = "buf_status" /\ w[2] = "read" /\ w[3] = "pkt_status" /\ w[4] = "clear"
    BY <1>2, <1>10 DEF FetchRx
  <2>2. n = 1 \/ n = 2 \/ n = 3 \/ n = 4
    BY <1>5, <1>6, <2>1
  <2>3. CASE n = 1
    <3>1. Head(t) = "clear" /\ Tail(t) = <<>>
      BY <1>5, <1>7, <2>1, <2>3
    <3>2. QED
      BY <1>4, <3>1
  <2>4. CASE n = 2
    BY <1>4, <1>5, <1>7, <1>8, <2>1, <2>4
  <2>5. CASE n = 3
    BY <1>4, <1>5, <1>7, <1>8, <2>1, <2>5
  <2>6. CASE n = 4
    BY <1>4, <1>5, <1>7, <1>8, <2>1, <2>6
  <2>7. QED
    BY <2>2, <2>3, <2>4, <2>5, <2>6
<1>11. QED
  BY <1>1, <1>9, <1>10 DEF Body

----------------------------------------------------------------------------
(* What the chip and the air do.                                           *)

LEMMA EffectOn ==
  ASSUME RadioTyped, NEW s, NEW c, c = Effect(s)
  PROVE  /\ s \notin {"clear", "reset"} => c.irq = chip.irq /\ c.latched = chip.latched /\ c.rx = chip.rx
         /\ s \in {"clear", "reset"} => c.irq = {} /\ c.latched = {}
         /\ s \notin {"standby", "set_rx", "set_tx", "set_cad", "reset"} => c.mode = chip.mode
         /\ s = "standby" => c.mode = "standby"
         /\ s = "set_rx" => c.mode = "rx"
         /\ s = "set_cad" => c.mode = "cad"
         /\ s \notin {"mask_rx", "mask_tx", "mask_cad", "reset"} => c.mask = chip.mask
         /\ s = "mask_rx" => c.mask = RxMask
<1>1. chip \in ChipType
  BY DEF RadioTyped
<1>2. CASE s \in {"standby", "set_rx", "set_tx", "set_cad"}
  BY <1>1, <1>2 DEF Effect, ChipType
<1>3. CASE s = "clear"
  BY <1>1, <1>3 DEF Effect, ChipType
<1>4. CASE s \in {"mask_rx", "mask_tx", "mask_cad"}
  <2>1. c = [chip EXCEPT !.mask = Mask(s)]
    BY <1>4 DEF Effect
  <2>2. s = "mask_rx" => Mask(s) = RxMask
    BY DEF Mask
  <2>3. QED
    BY <1>1, <1>4, <2>1, <2>2 DEF ChipType
<1>5. CASE s = "reset"
  BY <1>1, <1>5 DEF Effect, ChipType
<1>6. CASE s \notin {"standby", "set_rx", "set_tx", "set_cad", "clear", "mask_rx", "mask_tx",
                     "mask_cad", "reset"}
  <2> DEFINE f == [r \in Register |-> IF r \in Writes(s) THEN Value(s, r) ELSE chip.reg[r]]
  <2>1. c = [chip EXCEPT !.reg = f]
    BY <1>1, <1>6 DEF Effect, ChipType
  <2> HIDE DEF f
  <2>2. QED
    BY <1>1, <1>6, <2>1 DEF ChipType
<1>7. QED
  BY <1>2, <1>3, <1>4, <1>5, <1>6

LEMMA FlaggedAfter ==
  ASSUME RadioTyped, Flagged(chip), NEW s, NEW c, c = Effect(s)
  PROVE  Flagged(c)
<1>1. CASE s \in {"clear", "reset"}
  BY <1>1, EffectOn DEF Flagged
<1>2. CASE s \notin {"clear", "reset"}
  BY <1>2, EffectOn DEF Flagged
<1>3. QED
  BY <1>1, <1>2

\* What the chip does by itself takes nothing from the call: flags and packets only
\* get more, a packet or noise only if it listens, and a flag not in standby.
LEMMA AirLeaves ==
  ASSUME CInv, drv'.call = drv.call, drv'.todo = drv.todo, drv'.answer = drv.answer, drv'.bad = drv.bad,
         drv.call = "none" => drv'.onair = FALSE, drv.onair => drv'.onair, sw' = sw,
         Flagged(chip'), chip'.mask = chip.mask, chip'.mode \in {chip.mode, "standby"},
         chip.irq \subseteq chip'.irq, chip.latched \subseteq chip'.latched,
         chip.mode = "standby" => chip'.irq = chip.irq,
         Listening(chip, sw) \/ (chip'.latched = chip.latched /\ (Noisy(chip') => Noisy(chip))),
         drv.call = "poll" /\ chip.rx \in chip.latched => chip'.rx \in chip'.latched,
         drv.call = "send" /\ "tx_done" \in chip'.irq => "tx_done" \in chip.irq \/ drv'.onair
  PROVE  KInv'
<1>1. RadioTyped /\ KInv
  BY DEF CInv, RInv
<1>2. ~Listening(chip, sw) => ~Listening(chip', sw')
  BY DEF Listening
<1>3. Noisy(chip) => Noisy(chip')
  BY DEF Noisy
<1>4. ASSUME drv.call = "poll"
      PROVE  Polling(Head(drv.todo)', chip', sw', drv'.answer, drv'.bad)
  <2>1. Polling(Head(drv.todo), chip, sw, drv.answer, drv.bad)
    BY <1>1, <1>4 DEF KInv
  <2>2. Truthful(chip, sw, drv.answer, drv.bad) => Truthful(chip', sw', drv'.answer, drv'.bad)
    BY <1>2, <1>3 DEF Truthful
  <2>3. QED
    BY <1>4, <2>1, <2>2 DEF Polling
<1>5. ASSUME drv.call \notin {"none", "poll"}, drv.bad = {}
      PROVE  Achieved(drv'.call, Len(drv'.todo), chip', sw', drv'.answer, drv'.onair)
  <2> DEFINE n == Len(drv.todo)
  <2>1. Achieved(drv.call, n, chip, sw, drv.answer, drv.onair)
    BY <1>1, <1>5 DEF KInv
  <2> HIDE DEF n
  <2>2. drv.call = "sense" /\ n <= 8 => chip.mode \in {"standby", "cad"} /\ chip'.mode \in {"standby", "cad"}
    BY <2>1 DEF Achieved
  <2>3. drv.call = "sense" /\ n <= 8 => ~Listening(chip, sw)
    BY <2>2 DEF Listening
  <2>4. n = Len(drv.todo) /\ drv.todo \in Seq(Cmd)
    BY <1>1 DEF n, RadioTyped, DrvType
  <2>5. n \in Nat
    BY <2>4
  <2>6. drv.call = "sense" /\ n <= 7 => chip'.latched = {} /\ ~Noisy(chip')
    BY <2>1, <2>3, <2>5 DEF Achieved
  <2>7. drv.call \in {"power", "stop"} => (n <= 1 => chip'.mode = "standby")
    BY <2>1 DEF Achieved
  <2>8. drv.call \in {"send", "retune", "reset"} =>
          /\ n <= 4 => chip'.mode = "standby"
          /\ n <= 2 => chip'.mask = RxMask
          /\ n <= 1 => sw' = "rx"
    BY <2>1 DEF Achieved
  <2>9. drv.call \in {"send", "retune", "reset"} /\ n <= 3 => chip'.irq = {} /\ chip'.latched = {}
    <3>1. drv.call \in {"send", "retune", "reset"} /\ n <= 3 =>
            chip.mode = "standby" /\ chip.irq = {} /\ chip.latched = {}
      BY <2>1, <2>5 DEF Achieved
    <3>2. chip.mode = "standby" => ~Listening(chip, sw)
      BY DEF Listening
    <3>3. QED
      BY <3>1, <3>2
  <2>10. drv.call = "send" => /\ n <= 14 /\ "tx_done" \in chip'.irq => drv'.onair
                              /\ drv.answer = "sent" => drv'.onair
    BY <2>1 DEF Achieved
  <2>11. Achieved(drv.call, n, chip', sw', drv.answer, drv'.onair)
    BY <2>2, <2>6, <2>7, <2>8, <2>9, <2>10 DEF Achieved
  <2>12. QED
    BY <2>4, <2>11
<1>6. QED
  BY <1>1, <1>4, <1>5 DEF KInv

LEMMA ModeIs ==
  ASSUME RadioTyped
  PROVE  /\ chip.mode \in {"standby", "tx", "cad"} => ModeOf = chip.mode
         /\ Listening(chip, sw) => ModeOf = "rx"
         /\ ~Listening(chip, sw) => ModeOf # "rx"
         /\ ModeOf \in Contract!Mode
<1>1. chip.mode \in {"standby", "rx", "tx", "cad"}
  BY DEF RadioTyped, ChipType
<1>2. QED
  BY <1>1 DEF ModeOf, Attentive, Listening, Contract!Mode

\* A packet or a corrupt one arrives.
LEMMA ReceiveFollows ==
  ASSUME CInv, NEW p \in Packet, Receive(p)
  PROVE  KInv' /\ Contract!Next
<1>1. RadioTyped /\ Flagged(chip) /\ chip \in ChipType /\ drv \in DrvType /\ KInv
  BY DEF CInv, RInv, KInv, RadioTyped
<1>2. Listening(chip, sw) /\ chip.mode = "rx" /\ chip.mask = RxMask
  BY DEF Receive, Attentive, Listening
<1>3. Latch({"rx_done"}) = chip.irq \cup {"rx_done"}
  BY <1>2 DEF Latch, RxMask
<1>4. chip' = [chip EXCEPT !.irq = chip.irq \cup {"rx_done"}, !.latched = chip.latched \cup {p}, !.rx = p]
  BY <1>1, <1>3 DEF Receive, ChipType
<1>5. /\ chip'.mode = chip.mode /\ chip'.mask = chip.mask /\ chip'.irq = chip.irq \cup {"rx_done"}
      /\ chip'.latched = chip.latched \cup {p} /\ chip'.rx = p
  BY <1>1, <1>4 DEF ChipType
<1>6. UNCHANGED <<drv, sw>>
  BY DEF Receive
<1>7. Flagged(chip') /\ (Noisy(chip') <=> Noisy(chip))
  BY <1>5 DEF Flagged, Noisy
<1>8. KInv'
  <2>1. drv.call = "none" => drv'.onair = FALSE
    BY <1>1, <1>6 DEF KInv
  <2>2. QED
    BY <1>2, <1>5, <1>6, <1>7, <2>1, AirLeaves
<1>9. ModeOf = "rx" /\ ModeOf' = "rx"
  BY <1>2, <1>5, <1>6 DEF ModeOf, Attentive, Listening
<1>10. Contract!Hear(p)
  BY <1>5, <1>6, <1>7, <1>9 DEF Contract!Hear, Noisy
<1>11. QED
  BY <1>8, <1>10 DEF Contract!Next

LEMMA NoiseFollows ==
  ASSUME CInv, ReceiveNoise
  PROVE  KInv' /\ Contract!Next
<1>1. RadioTyped /\ Flagged(chip) /\ chip \in ChipType /\ drv \in DrvType /\ KInv
  BY DEF CInv, RInv, KInv, RadioTyped
<1>2. Listening(chip, sw) /\ chip.mode = "rx" /\ chip.mask = RxMask
  BY DEF ReceiveNoise, Attentive, Listening
<1>3. /\ Latch({"rx_done", "crc_err"}) = chip.irq \cup {"rx_done", "crc_err"}
      /\ Latch({"hdr_err"}) = chip.irq \cup {"hdr_err"}
  BY <1>2 DEF Latch, RxMask
<1> DEFINE l == IF drv.call = "poll" THEN chip.latched \cup {Junk} ELSE chip.latched
<1>4. \/ chip' = [chip EXCEPT !.irq = chip.irq \cup {"rx_done", "crc_err"}, !.rx = Junk, !.latched = l]
      \/ chip' = [chip EXCEPT !.irq = chip.irq \cup {"hdr_err"}]
  BY <1>1, <1>3 DEF ReceiveNoise, ChipType
<1>l. l \in {chip.latched, IF drv.call = "poll" THEN chip.latched \cup {Junk} ELSE chip.latched}
      /\ chip.latched \subseteq l /\ (drv.call = "poll" => Junk \in l)
  OBVIOUS
<1> HIDE DEF l
<1>5. /\ chip'.mode = chip.mode /\ chip'.mask = chip.mask
      /\ \/ /\ chip'.irq = chip.irq \cup {"rx_done", "crc_err"} /\ chip'.rx = Junk /\ chip'.latched = l
         \/ /\ chip'.irq = chip.irq \cup {"hdr_err"} /\ chip'.rx = chip.rx /\ chip'.latched = chip.latched
  BY <1>1, <1>4 DEF ChipType
<1>6. UNCHANGED <<drv, sw>>
  BY DEF ReceiveNoise
<1>7. Flagged(chip') /\ Noisy(chip')
  BY <1>1, <1>5 DEF Flagged, Noisy
<1>8. KInv'
  <2>1. drv.call = "none" => drv'.onair = FALSE
    BY <1>1, <1>6 DEF KInv
  <2>2. chip.irq \subseteq chip'.irq /\ chip.latched \subseteq chip'.latched
    BY <1>5, <1>l
  <2>3. drv.call = "poll" /\ chip.rx \in chip.latched => chip'.rx \in chip'.latched
    BY <1>5, <1>l
  <2>4. "tx_done" \in chip'.irq => "tx_done" \in chip.irq
    BY <1>5
  <2>5. QED
    BY <1>2, <1>5, <1>6, <1>7, <2>1, <2>2, <2>3, <2>4, AirLeaves
<1>9. ModeOf = "rx" /\ ModeOf' = "rx"
  BY <1>2, <1>5, <1>6 DEF ModeOf, Attentive, Listening
<1>10. Contract!HearNoise
  <2>1. chip'.latched \in {chip.latched, IF drv.call = "poll" THEN chip.latched \cup {Junk} ELSE chip.latched}
    BY <1>5, <1>l
  <2>2. QED
    BY <1>6, <1>7, <1>9, <2>1 DEF Contract!HearNoise, Noisy
<1>11. QED
  BY <1>8, <1>10 DEF Contract!Next

\* A transmission or a channel check ends.
LEMMA TxDoneFollows ==
  ASSUME CInv, TxDone
  PROVE  KInv' /\ Contract!Next
<1>1. RadioTyped /\ Flagged(chip) /\ chip \in ChipType /\ drv \in DrvType /\ KInv
  BY DEF CInv, RInv, KInv, RadioTyped
<1>2. chip.mode = "tx" /\ ~Listening(chip, sw) /\ UNCHANGED sw
  BY DEF TxDone, Listening
<1>3. PICK e \in SUBSET {"tx_done"} : chip' = [chip EXCEPT !.mode = "standby", !.irq = chip.irq \cup e]
  BY <1>1 DEF TxDone, Latch, ChipType
<1>4. /\ chip'.mode = "standby" /\ chip'.mask = chip.mask /\ chip'.irq = chip.irq \cup e
      /\ chip'.latched = chip.latched /\ chip'.rx = chip.rx
  BY <1>1, <1>3 DEF ChipType
<1>5. /\ drv'.call = drv.call /\ drv'.todo = drv.todo /\ drv'.answer = drv.answer /\ drv'.bad = drv.bad
      /\ drv'.onair = (drv.onair \/ drv.call = "send")
  BY <1>1 DEF TxDone, DrvType
<1>6. Flagged(chip') /\ (Noisy(chip') <=> Noisy(chip))
  BY <1>1, <1>4 DEF Flagged, Noisy
<1>7. KInv'
  <2>1. drv.call = "none" => drv'.onair = FALSE
    BY <1>1, <1>5 DEF KInv
  <2>2. chip.irq \subseteq chip'.irq /\ chip.latched \subseteq chip'.latched
    BY <1>4
  <2>3. drv.onair => drv'.onair
    BY <1>5
  <2>4. drv.call = "send" => drv'.onair
    BY <1>5
  <2>5. chip.mode # "standby"
    BY <1>2
  <2>6. QED
    BY <1>2, <1>4, <1>5, <1>6, <2>1, <2>2, <2>3, <2>4, <2>5, AirLeaves
<1>8. ModeOf = "tx" /\ ModeOf' = "standby"
  BY <1>2, <1>4 DEF ModeOf
<1>9. Contract!TxEnds
  BY <1>4, <1>5, <1>6, <1>8 DEF Contract!TxEnds, Noisy
<1>10. QED
  BY <1>7, <1>9 DEF Contract!Next

LEMMA CadDoneFollows ==
  ASSUME CInv, CadDone
  PROVE  KInv' /\ Contract!Next
<1>1. RadioTyped /\ Flagged(chip) /\ chip \in ChipType /\ drv \in DrvType /\ KInv
  BY DEF CInv, RInv, KInv, RadioTyped
<1>2. chip.mode = "cad" /\ ~Listening(chip, sw) /\ UNCHANGED <<sw, drv>>
  BY DEF CadDone, Listening
<1>3. PICK e \in SUBSET {"cad_done", "cad_detected"} :
        chip' = [chip EXCEPT !.mode = "standby", !.irq = chip.irq \cup e]
  BY <1>1 DEF CadDone, Latch, ChipType
<1>4. /\ chip'.mode = "standby" /\ chip'.mask = chip.mask /\ chip'.irq = chip.irq \cup e
      /\ chip'.latched = chip.latched /\ chip'.rx = chip.rx
  BY <1>1, <1>3 DEF ChipType
<1>5. Flagged(chip') /\ (Noisy(chip') <=> Noisy(chip)) /\ ("tx_done" \in chip'.irq => "tx_done" \in chip.irq)
  BY <1>1, <1>4 DEF Flagged, Noisy
<1>6. KInv'
  <2>1. drv.call = "none" => drv'.onair = FALSE
    BY <1>1, <1>2 DEF KInv
  <2>2. chip.irq \subseteq chip'.irq /\ chip.latched \subseteq chip'.latched /\ chip.mode # "standby"
    BY <1>2, <1>4
  <2>3. QED
    BY <1>2, <1>4, <1>5, <2>1, <2>2, AirLeaves
<1>7. ModeOf = "cad" /\ ModeOf' = "standby"
  BY <1>2, <1>4 DEF ModeOf
<1>8. Contract!SenseEnds
  BY <1>2, <1>4, <1>5, <1>7 DEF Contract!SenseEnds, Noisy
<1>9. QED
  BY <1>6, <1>8 DEF Contract!Next

----------------------------------------------------------------------------
(* The callers.                                                            *)

LEMMA CallInitially == RadioInit => KInv /\ Contract!Init
<1> SUFFICES ASSUME RadioInit
             PROVE  KInv /\ Contract!Init
  OBVIOUS
<1>1. /\ chip.mode = "standby" /\ chip.irq = {} /\ chip.latched = {} /\ sw = "off"
      /\ drv.call = "none" /\ drv.answer = "none" /\ drv.bad = {} /\ drv.onair = FALSE
  BY DEF RadioInit, Idle
<1>2. KInv
  BY <1>1 DEF KInv, Flagged
<1>3. Contract!Init
  BY <1>1 DEF Contract!Init, ModeOf
<1>4. QED
  BY <1>2, <1>3

\* A call begins.
LEMMA StartsFollows ==
  ASSUME CInv, drv.call = "none", NEW c \in Contract!Call, NEW todo \in Seq(Cmd), NEW a, Starts(c, todo, a),
         Body(c, todo), c = "poll" => Head(todo) = "dio",
         c # "poll" => a \in Verdicts(c) /\ Achieved(c, Len(todo), chip, sw, a, FALSE)
  PROVE  KInv' /\ Contract!Next
<1>1. Flagged(chip)
  BY DEF CInv, KInv
<1>2. /\ UNCHANGED <<chip, sw>> /\ drv'.call = c /\ drv'.todo = todo /\ drv'.answer = a
      /\ drv'.bad = {} /\ drv'.onair = FALSE
  BY DEF Starts, Idle
<1>3. LeftIn(c, todo)
  BY EndOfItself DEF LeftIn
<1>4. c # "none"
  BY DEF Contract!Call
<1>5. c = "poll" => Polling(Head(drv'.todo), chip', sw', drv'.answer, drv'.bad)
  BY <1>2 DEF Polling
<1>6. c # "poll" =>
        /\ drv'.answer \in Verdicts(drv'.call)
        /\ drv'.bad = {} => Achieved(drv'.call, Len(drv'.todo), chip', sw', drv'.answer, drv'.onair)
  BY <1>2
<1>7. KInv'
  BY <1>1, <1>2, <1>3, <1>4, <1>5, <1>6 DEF KInv
<1>8. drv.onair = FALSE
  BY DEF CInv, KInv
<1>9. ModeOf' = ModeOf
  BY <1>2 DEF ModeOf, Attentive
<1>10. Contract!Begin(c)
  BY <1>2, <1>4, <1>8, <1>9 DEF Contract!Begin
<1>11. QED
  BY <1>7, <1>10 DEF Contract!Next

\* Nothing happens that the contract sees.
LEMMA Unseen ==
  ASSUME CInv, UNCHANGED <<chip, sw, drv>>
  PROVE  KInv' /\ UNCHANGED Contract!vars
<1>1. KInv'
  BY DEF CInv, KInv
<1>2. ModeOf' = ModeOf
  BY DEF ModeOf, Attentive
<1>3. UNCHANGED Contract!vars
  BY <1>2 DEF Contract!vars
<1>4. QED
  BY <1>1, <1>3

LEMMA Lengths ==
  /\ PollRx \in Seq(Cmd) /\ Head(PollRx) = "dio"
  /\ ChannelBusy \in Seq(Cmd) /\ Len(ChannelBusy) = 9
  /\ SetTxPower \in Seq(Cmd) /\ Len(SetTxPower) = 2
  /\ Standby \in Seq(Cmd) /\ Len(Standby) = 2
  /\ SetModem \o SetFrequency \in Seq(Cmd) /\ Len(SetModem \o SetFrequency) > 5
  /\ \A tcxo \in BOOLEAN : BringUp(tcxo) \in Seq(Cmd) /\ Len(BringUp(tcxo)) > 5
<1>1. /\ PollRx \in Seq(Cmd) /\ Head(PollRx) = "dio"
      /\ ChannelBusy \in Seq(Cmd) /\ Len(ChannelBusy) = 9
      /\ SetTxPower \in Seq(Cmd) /\ Len(SetTxPower) = 2
      /\ Standby \in Seq(Cmd) /\ Len(Standby) = 2
  BY DEF PollRx, ChannelBusy, SetTxPower, Standby, Cmd
<1>2. ASSUME NEW tcxo \in BOOLEAN
      PROVE  BringUp(tcxo) \in Seq(Cmd) /\ Len(BringUp(tcxo)) > 5
  <2>1. EndsInRx(BringUp(tcxo)) /\ Len(BringUp(tcxo)) \in {19, 23}
    BY BringUpEnds
  <2>2. BringUp(tcxo) \in Seq(Cmd)
    BY <2>1 DEF EndsInRx
  <2>3. \A n \in {19, 23} : n > 5
    OBVIOUS
  <2>4. QED
    BY <2>1, <2>2, <2>3
<1>3. SetModem \o SetFrequency \in Seq(Cmd) /\ Len(SetModem \o SetFrequency) > 5
  <2> DEFINE p == <<"standby", "power", "modem", "packet">>
             q == <<"standby", "freq", "image">>
  <2>1. p \in Seq(Cmd) /\ q \in Seq(Cmd) /\ StartRx \in Seq(Cmd) /\ Len(StartRx) = 5 /\ Len(p) = 4 /\ Len(q) = 3
    BY DEF StartRx, Cmd
  <2>2. SetModem = p \o StartRx /\ SetFrequency = q \o StartRx
    BY DEF SetModem, SetFrequency
  <2> HIDE DEF p, q
  <2>3. SetModem \in Seq(Cmd) /\ Len(SetModem) = 9 /\ SetFrequency \in Seq(Cmd) /\ Len(SetFrequency) = 8
    <3>1. p \o StartRx \in Seq(Cmd) /\ Len(p \o StartRx) = Len(p) + Len(StartRx)
      BY <2>1, JoinedIs
    <3>2. q \o StartRx \in Seq(Cmd) /\ Len(q \o StartRx) = Len(q) + Len(StartRx)
      BY <2>1, JoinedIs
    <3>3. Len(p) + Len(StartRx) = 9 /\ Len(q) + Len(StartRx) = 8
      BY <2>1
    <3>4. QED
      BY <2>2, <3>1, <3>2, <3>3
  <2>4. SetModem \o SetFrequency \in Seq(Cmd)
        /\ Len(SetModem \o SetFrequency) = Len(SetModem) + Len(SetFrequency)
    BY <2>3, JoinedIs
  <2>5. 9 + 8 > 5
    OBVIOUS
  <2>6. QED
    BY <2>3, <2>4, <2>5
<1>4. QED
  BY <1>1, <1>2, <1>3

LEMMA CallerFollows ==
  ASSUME CInv, Caller
  PROVE  KInv' /\ (Contract!Next \/ UNCHANGED Contract!vars)
<1>1. drv.call = "none" /\ gcfg.tcxo \in BOOLEAN
  BY DEF Caller, CInv, RInv, RadioTyped
<1>2. ASSUME NEW tcxo \in BOOLEAN, Starts("reset", BringUp(tcxo), "done")
      PROVE  KInv' /\ Contract!Next
  <2>1. Body("reset", BringUp(tcxo))
    BY DEF Body
  <2>2. Achieved("reset", Len(BringUp(tcxo)), chip, sw, "done", FALSE) /\ "done" \in Verdicts("reset")
    BY Lengths DEF Achieved, Verdicts
  <2>3. "reset" \in Contract!Call
    BY DEF Contract!Call
  <2>4. QED
    BY <1>1, <1>2, <2>1, <2>2, <2>3, Lengths, StartsFollows
<1>3. ASSUME Starts("poll", PollRx, "none")
      PROVE  KInv' /\ Contract!Next
  <2>1. Body("poll", PollRx) /\ "poll" \in Contract!Call
    BY DEF Body, Contract!Call
  <2>2. QED
    BY <1>1, <1>3, <2>1, Lengths, StartsFollows
<1>4. ASSUME Starts("sense", ChannelBusy, "clear")
      PROVE  KInv' /\ Contract!Next
  <2>1. Body("sense", ChannelBusy) /\ "sense" \in Contract!Call
    BY DEF Body, Contract!Call
  <2>2. Achieved("sense", Len(ChannelBusy), chip, sw, "clear", FALSE) /\ "clear" \in Verdicts("sense")
    BY Lengths DEF Achieved, Verdicts
  <2>3. QED
    BY <1>1, <1>4, <2>1, <2>2, Lengths, StartsFollows
<1>5. ASSUME Starts("power", SetTxPower, "done")
      PROVE  KInv' /\ Contract!Next
  <2>1. Body("power", SetTxPower) /\ "power" \in Contract!Call
    BY DEF Body, Contract!Call
  <2>2. Achieved("power", Len(SetTxPower), chip, sw, "done", FALSE) /\ "done" \in Verdicts("power")
    BY Lengths DEF Achieved, Verdicts
  <2>3. QED
    BY <1>1, <1>5, <2>1, <2>2, Lengths, StartsFollows
<1>6. ASSUME Starts("stop", Standby, "done")
      PROVE  KInv' /\ Contract!Next
  <2>1. Body("stop", Standby) /\ "stop" \in Contract!Call
    BY DEF Body, Contract!Call
  <2>2. Achieved("stop", Len(Standby), chip, sw, "done", FALSE) /\ "done" \in Verdicts("stop")
    BY Lengths DEF Achieved, Verdicts
  <2>3. QED
    BY <1>1, <1>6, <2>1, <2>2, Lengths, StartsFollows
<1>7. ASSUME Starts("retune", SetModem \o SetFrequency, "done")
      PROVE  KInv' /\ Contract!Next
  <2> DEFINE w == SetModem \o SetFrequency
  <2>1. Body("retune", w) /\ "retune" \in Contract!Call /\ w \in Seq(Cmd) /\ Len(w) > 5
    BY Lengths DEF Body, Contract!Call
  <2>2. Starts("retune", w, "done")
    BY <1>7
  <2> HIDE DEF w
  <2>3. Achieved("retune", Len(w), chip, sw, "done", FALSE) /\ "done" \in Verdicts("retune")
    BY <2>1 DEF Achieved, Verdicts
  <2>4. QED
    BY <1>1, <2>1, <2>2, <2>3, StartsFollows
<1>8. ASSUME Starts("send", Transmit, "failed")
      PROVE  KInv' /\ Contract!Next
  <2>1. Body("send", Transmit) /\ "send" \in Contract!Call
    BY DEF Body, Contract!Call
  <2>2. Achieved("send", Len(Transmit), chip, sw, "failed", FALSE) /\ "failed" \in Verdicts("send")
    BY TransmitIs DEF Achieved, Verdicts
  <2>3. QED
    BY <1>1, <1>8, <2>1, <2>2, TransmitIs, StartsFollows
<1>9. \/ \E tcxo \in BOOLEAN : Starts("reset", BringUp(tcxo), "done")
      \/ Starts("poll", PollRx, "none")
      \/ Starts("sense", ChannelBusy, "clear")
      \/ Starts("power", SetTxPower, "done")
      \/ Starts("send", Transmit, "failed")
      \/ Starts("retune", SetModem \o SetFrequency, "done")
      \/ Starts("stop", Standby, "done")
      \/ UNCHANGED <<chip, sw, drv>>
  <2>1. CASE CallInit
    BY <2>1 DEF CallInit
  <2>2. CASE CallPoll \/ CallChannelBusy \/ CallStandby \/ Nothing
    BY <2>2 DEF CallPoll, CallChannelBusy, CallStandby, Nothing
  <2>3. CASE CallSetTxPower
    BY <2>3 DEF CallSetTxPower
  <2>4. CASE CallTransmit \/ CallRetune
    BY <2>4 DEF CallTransmit, CallRetune
  <2>5. CASE CallReinit
    BY <1>1, <2>5 DEF CallReinit
  <2>6. QED
    BY <2>1, <2>2, <2>3, <2>4, <2>5 DEF Caller
<1>10. QED
  BY <1>2, <1>3, <1>4, <1>5, <1>6, <1>7, <1>8, <1>9, Unseen

----------------------------------------------------------------------------
(* A step of a call.                                                       *)

LEMMA Goes ==
  ASSUME RadioTyped, NEW todo, NEW a, NEW failed, NEW cut, GoOn(todo, a, failed, cut)
  PROVE  /\ drv'.todo = todo /\ drv'.answer = a /\ drv'.bad = drv.bad \cup failed
         /\ todo # <<>> => drv'.call = drv.call /\ drv'.onair = drv.onair
         /\ todo = <<>> => drv'.call = "none" /\ drv'.onair = FALSE
<1>1. drv \in DrvType
  BY DEF RadioTyped
<1>2. CASE todo = <<>>
  BY <1>1, <1>2 DEF GoOn, Idle, DrvType
<1>3. CASE todo # <<>>
  BY <1>1, <1>3 DEF GoOn, DrvType
<1>4. QED
  BY <1>2, <1>3

\* What a command that worked does.
Done(s, c, c2, antenna, antenna2) ==
  /\ s \notin {"clear", "reset"} => c2.irq = c.irq /\ c2.latched = c.latched /\ c2.rx = c.rx
  /\ s \in {"clear", "reset"} => c2.irq = {} /\ c2.latched = {}
  /\ s \notin {"standby", "set_rx", "set_tx", "set_cad", "reset"} => c2.mode = c.mode
  /\ s = "standby" => c2.mode = "standby"
  /\ s = "set_rx" => c2.mode = "rx"
  /\ s = "set_cad" => c2.mode = "cad"
  /\ s \notin {"mask_rx", "mask_tx", "mask_cad", "reset"} => c2.mask = c.mask
  /\ s = "mask_rx" => c2.mask = RxMask
  /\ s \notin {"sw_rx", "sw_tx", "sw_off"} => antenna2 = antenna
  /\ s = "sw_rx" => antenna2 = "rx"

\* What a call that met no failure has achieved when it returns.
Finished(call, c, antenna, a, aired) ==
  /\ call = "sense" => c.mode \in {"standby", "cad"} /\ c.latched = {} /\ ~Noisy(c)
  /\ call \in {"power", "stop"} => c.mode = "standby"
  /\ call \in {"send", "retune", "reset"} =>
       Listening(c, antenna) /\ c.irq = {} /\ c.latched = {}
  /\ call = "send" => (a = "sent" => aired)

\* What the contract sees of a command.
Quiet(c, c2) == c2.latched \in {c.latched, {}} /\ Noisy(c2) \in {Noisy(c), FALSE}

\* A call other than a poll goes on.
LEMMA WorkFollows ==
  ASSUME CInv, RadioTyped', NEW todo \in Seq(Cmd), todo # <<>>, NEW a, NEW failed, NEW cut,
         GoOn(todo, a, failed, cut), drv.call \notin {"none", "poll"}, LeftIn(drv.call, todo),
         a \in Verdicts(drv.call), Flagged(chip'), Quiet(chip, chip'),
         drv.bad \cup failed = {} => Achieved(drv.call, Len(todo), chip', sw', a, drv.onair)
  PROVE  KInv' /\ Contract!Next
<1>1. RadioTyped /\ drv.call \in Calls
  BY DEF CInv, RInv, RadioTyped, DrvType
<1>2. /\ drv'.todo = todo /\ drv'.answer = a /\ drv'.bad = drv.bad \cup failed
      /\ drv'.call = drv.call /\ drv'.onair = drv.onair
  BY <1>1, Goes
<1>3. KInv'
  BY <1>2 DEF KInv
<1>4. ModeOf' \in Contract!Mode
  BY DEF ModeOf, Attentive, Contract!Mode, RadioTyped, ChipType
<1>5. Contract!Work
  <2>1. drv.call \in Contract!Call \ {"poll"}
    BY <1>1 DEF Calls, Contract!Call
  <2>2. /\ chip'.latched \in {chip.latched, {}}
        /\ (chip'.irq \cap {"crc_err", "hdr_err"} # {}) \in {chip.irq \cap {"crc_err", "hdr_err"} # {}, FALSE}
    BY DEF Quiet, Noisy
  <2>3. (drv'.bad # {}) \in {drv.bad # {}, TRUE}
    BY <1>2
  <2>4. /\ drv'.call = drv.call /\ drv'.onair = drv.onair
        /\ (IF drv'.call = "none" THEN drv'.answer ELSE "none") = (IF drv.call = "none" THEN drv.answer ELSE "none")
    BY <1>2
  <2>5. QED
    BY <1>4, <2>1, <2>2, <2>3, <2>4 DEF Contract!Work
<1>6. QED
  BY <1>3, <1>5 DEF Contract!Next

\* It returns.
LEMMA EndFollows ==
  ASSUME CInv, RadioTyped', NEW a, NEW failed, NEW cut,
         GoOn(<<>>, a, failed, cut), drv.call \notin {"none", "poll"},
         a \in Verdicts(drv.call), Flagged(chip'), Quiet(chip, chip'),
         drv.bad \cup failed = {} =>
           /\ Finished(drv.call, chip', sw', a, drv.onair)
           /\ drv.call \in {"power", "stop"} => chip'.latched = chip.latched /\ chip'.irq = chip.irq
  PROVE  KInv' /\ Contract!Next
<1>1. RadioTyped /\ drv.call \in Calls
  BY DEF CInv, RInv, RadioTyped, DrvType
<1>2. /\ drv'.answer = a /\ drv'.bad = drv.bad \cup failed /\ drv'.call = "none" /\ drv'.onair = FALSE
  BY <1>1, Goes
<1>3. KInv'
  BY <1>2 DEF KInv
<1>4. ModeOf' \in Contract!Mode
  BY DEF ModeOf, Attentive, Contract!Mode, RadioTyped, ChipType
<1>5. drv.call \in Contract!Call /\ drv.call # "poll"
  BY <1>1 DEF Calls, Contract!Call
<1>6. a \in Contract!Answer[drv.call] /\ a # "none"
  <2>1. drv.call \in {"sense", "power", "send", "retune", "reset", "stop"}
    BY <1>5 DEF Contract!Call
  <2>2. /\ Contract!Answer["sense"] = {"busy", "clear"} /\ Contract!Answer["send"] = {"sent", "failed"}
        /\ Contract!Answer["power"] = {"done"} /\ Contract!Answer["retune"] = {"done"}
        /\ Contract!Answer["reset"] = {"done"} /\ Contract!Answer["stop"] = {"done"}
    BY DEF Contract!Answer
  <2>3. QED
    BY <2>1, <2>2 DEF Verdicts
<1>7. /\ chip'.latched \in {chip.latched, {}}
      /\ (chip'.irq \cap {"crc_err", "hdr_err"} # {}) \in {chip.irq \cap {"crc_err", "hdr_err"} # {}, FALSE}
  BY DEF Quiet, Noisy
<1>8. (drv'.bad # {}) \in {drv.bad # {}, TRUE}
  BY <1>2
<1>9. Contract!Says(IF drv'.call = "none" THEN drv'.answer ELSE "none")
  <2>1. (IF drv'.call = "none" THEN drv'.answer ELSE "none") = a
    BY <1>2
  <2>2. drv.call = "send" => (a = "sent" => drv.onair \/ drv'.bad # {})
    BY <1>2 DEF Finished
  <2>3. QED
    BY <1>5, <2>1, <2>2 DEF Contract!Says
<1>10. ASSUME drv'.bad = {}
       PROVE  /\ ModeOf' \in Contract!Leaves
              /\ IF a = "none" \/ drv.call \in {"power", "stop"}
                   THEN /\ chip'.latched = chip.latched
                        /\ (chip'.irq \cap {"crc_err", "hdr_err"} # {}) = (chip.irq \cap {"crc_err", "hdr_err"} # {})
                   ELSE chip'.latched = {} /\ (chip'.irq \cap {"crc_err", "hdr_err"} # {}) = FALSE
  <2>1. /\ Finished(drv.call, chip', sw', a, drv.onair)
        /\ drv.call \in {"power", "stop"} => chip'.latched = chip.latched /\ chip'.irq = chip.irq
    BY <1>2, <1>10
  <2>2. CASE drv.call = "sense"
    <3>1. ModeOf' = chip'.mode /\ chip'.mode \in {"standby", "cad"} /\ chip'.latched = {} /\ ~Noisy(chip')
      BY <2>1, <2>2 DEF Finished, ModeOf
    <3>2. Contract!Leaves = {"standby", "cad"}
      BY <2>2 DEF Contract!Leaves
    <3>3. QED
      BY <1>6, <2>2, <3>1, <3>2 DEF Noisy
  <2>3. CASE drv.call \in {"power", "stop"}
    <3>1. ModeOf' = "standby"
      BY <2>1, <2>3 DEF Finished, ModeOf
    <3>2. Contract!Leaves = {"standby"}
      BY <2>3 DEF Contract!Leaves
    <3>3. QED
      BY <2>1, <2>3, <3>1, <3>2
  <2>4. CASE drv.call \in {"send", "retune", "reset"}
    <3>1. ModeOf' = "rx" /\ chip'.irq = {} /\ chip'.latched = {}
      BY <2>1, <2>4 DEF Finished, ModeOf, Listening, Attentive
    <3>2. Contract!Leaves = {"rx"}
      BY <2>4 DEF Contract!Leaves
    <3>3. QED
      BY <1>6, <2>4, <3>1, <3>2
  <2>5. QED
    BY <1>5, <2>2, <2>3, <2>4 DEF Contract!Call
<1>11. Contract!End
  BY <1>2, <1>4, <1>5, <1>6, <1>7, <1>8, <1>9, <1>10 DEF Contract!End
<1>12. QED
  BY <1>3, <1>11 DEF Contract!Next

----------------------------------------------------------------------------
(* A command of a call other than a poll brings it one further.            *)

\* What the wait for the end of a transmission may say.
Said(s, c, a, a2) ==
  /\ s \notin {"await_tx", "await_cad"} => a2 = a
  /\ s = "await_tx" => a2 \in {"failed"} \cup (IF "tx_done" \in c.irq THEN {"sent"} ELSE {})
  /\ s = "await_cad" => a2 \in {"busy", "clear"}

LEMMA QuietDone ==
  ASSUME NEW s, NEW c, NEW c2, NEW antenna, NEW antenna2, Done(s, c, c2, antenna, antenna2), Flagged(c)
  PROVE  Quiet(c, c2) /\ Flagged(c2)
<1>1. CASE s \in {"clear", "reset"}
  <2>1. c2.irq = {} /\ c2.latched = {}
    BY <1>1 DEF Done
  <2>2. QED
    BY <2>1 DEF Quiet, Flagged, Noisy
<1>2. CASE s \notin {"clear", "reset"}
  <2>1. c2.irq = c.irq /\ c2.latched = c.latched /\ c2.rx = c.rx
    BY <1>2 DEF Done
  <2>2. QED
    BY <2>1 DEF Quiet, Flagged, Noisy
<1>3. QED
  BY <1>1, <1>2

\* The command of a call at the head of t worked; and where that brings the call.
Onward(call, t, c, c2, antenna, antenna2, a, a2, aired) ==
  /\ t # <<>> /\ LeftIn(call, t) /\ Achieved(call, Len(t), c, antenna, a, aired)
  /\ Done(Head(t), c, c2, antenna, antenna2) /\ Said(Head(t), c, a, a2)

Brought(call, t, c, c2, antenna2, a2, aired) ==
  /\ Tail(t) # <<>> => Achieved(call, Len(Tail(t)), c2, antenna2, a2, aired)
  /\ Tail(t) = <<>> =>
       /\ Finished(call, c2, antenna2, a2, aired)
       /\ call \in {"power", "stop"} => c2.latched = c.latched /\ c2.irq = c.irq

LEMMA SenseAdvance ==
  ASSUME NEW t \in Seq(Cmd), NEW c, NEW c2, NEW antenna, NEW antenna2, NEW a, NEW a2, NEW aired,
         Onward("sense", t, c, c2, antenna, antenna2, a, a2, aired)
  PROVE  Brought("sense", t, c, c2, antenna2, a2, aired)
<1>a. /\ t # <<>> /\ LeftIn("sense", t) /\ Done(Head(t), c, c2, antenna, antenna2)
      /\ Achieved("sense", Len(t), c, antenna, a, aired)
  BY DEF Onward
<1>1. PICK n, s : n = Len(t) /\ s = Head(t) /\ n \in Nat
  <2>1. Len(t) \in Nat
    OBVIOUS
  <2>2. QED
    BY <2>1
<1>2. Len(Tail(t)) = n - 1 /\ (Tail(t) = <<>> => n - 1 = 0)
  BY <1>a, <1>1, TailIs, EmptySeq
<1>3. /\ n \in 1..9 /\ LeftIn("sense", Tail(t))
      /\ n = 9 => s = "standby"
      /\ n = 8 => s = "clear"
      /\ n \in 1..8 => s \in {"clear", "mask_cad", "cad_params", "sw_rx", "set_cad", "await_cad", "sw_off"}
  BY <1>a, <1>1, AtSense
<1>4. /\ n <= 8 => c.mode \in {"standby", "cad"}
      /\ n <= 7 => c.latched = {} /\ ~Noisy(c)
  BY <1>a, <1>1 DEF Achieved
<1>5. n = 9 \/ n = 8 \/ n \in 1..7
  BY <1>3
<1>6. n \in 1..7 => n <= 7 /\ n <= 8 /\ n \in 1..8
  OBVIOUS
<1>7. c2.mode \in {"standby", "cad"}
  <2>1. CASE n = 9
    BY <1>a, <1>3, <2>1, <1>1 DEF Done
  <2>2. CASE n = 8
    <3>1. s = "clear" /\ c.mode \in {"standby", "cad"}
      BY <1>3, <1>4, <2>2
    <3>2. QED
      BY <1>a, <1>1, <3>1 DEF Done
  <2>3. CASE n \in 1..7
    <3>1. /\ s \in {"clear", "mask_cad", "cad_params", "sw_rx", "set_cad", "await_cad", "sw_off"}
          /\ c.mode \in {"standby", "cad"}
      BY <1>3, <1>4, <1>6, <2>3
    <3>2. QED
      BY <1>a, <1>1, <3>1 DEF Done
  <2>4. QED
    BY <1>5, <2>1, <2>2, <2>3
<1>8. n - 1 <= 7 => c2.latched = {} /\ ~Noisy(c2)
  <2>1. CASE n = 9
    BY <2>1
  <2>2. CASE n = 8
    <3>1. c2.latched = {} /\ c2.irq = {}
      BY <1>a, <1>1, <1>3, <2>2 DEF Done
    <3>2. QED
      BY <3>1 DEF Noisy
  <2>3. CASE n \in 1..7
    <3>1. c.latched = {} /\ ~Noisy(c)
      BY <1>4, <1>6, <2>3
    <3>2. (c2.latched = {} /\ c2.irq = {}) \/ (c2.latched = c.latched /\ c2.irq = c.irq)
      BY <1>a, <1>1 DEF Done
    <3>3. QED
      BY <3>1, <3>2 DEF Noisy
  <2>4. QED
    BY <1>5, <2>1, <2>2, <2>3
<1>9. Achieved("sense", Len(Tail(t)), c2, antenna2, a2, aired)
  BY <1>2, <1>7, <1>8 DEF Achieved
<1>10. Tail(t) = <<>> => Finished("sense", c2, antenna2, a2, aired)
  BY <1>2, <1>7, <1>8 DEF Finished
<1>11. QED
  BY <1>9, <1>10 DEF Brought

LEMMA ShortAdvance ==
  ASSUME NEW call \in {"power", "stop"}, NEW t \in Seq(Cmd), NEW c, NEW c2, NEW antenna, NEW antenna2,
         NEW a, NEW a2, NEW aired, Onward(call, t, c, c2, antenna, antenna2, a, a2, aired)
  PROVE  Brought(call, t, c, c2, antenna2, a2, aired)
<1>a. /\ t # <<>> /\ LeftIn(call, t) /\ Done(Head(t), c, c2, antenna, antenna2)
      /\ Achieved(call, Len(t), c, antenna, a, aired)
  BY DEF Onward
<1>1. PICK n, s : n = Len(t) /\ s = Head(t) /\ n \in Nat
  <2>1. Len(t) \in Nat
    OBVIOUS
  <2>2. QED
    BY <2>1
<1>2. Len(Tail(t)) = n - 1 /\ (Tail(t) = <<>> => n - 1 = 0)
  BY <1>a, <1>1, TailIs, EmptySeq
<1>3. /\ n \in 1..2 /\ LeftIn(call, Tail(t))
      /\ n = 2 => s = "standby"
      /\ n = 1 => s = IF call = "power" THEN "power" ELSE "sw_off"
  BY <1>a, <1>1, AtShort
<1>4. n <= 1 => c.mode = "standby"
  BY <1>a, <1>1 DEF Achieved
<1>5. n = 1 \/ n = 2
  BY <1>3
<1>6. c2.mode = "standby" /\ (n = 1 => c2.latched = c.latched /\ c2.irq = c.irq)
  <2>1. CASE n = 2
    BY <1>a, <1>1, <1>3, <2>1 DEF Done
  <2>2. CASE n = 1
    <3>1. c.mode = "standby" /\ s \in {"power", "sw_off"}
      BY <1>3, <1>4, <2>2
    <3>2. QED
      BY <1>a, <1>1, <3>1 DEF Done
  <2>3. QED
    BY <1>5, <2>1, <2>2
<1>7. Achieved(call, Len(Tail(t)), c2, antenna2, a2, aired)
  BY <1>6 DEF Achieved
<1>8. Tail(t) = <<>> => /\ Finished(call, c2, antenna2, a2, aired)
                        /\ c2.latched = c.latched /\ c2.irq = c.irq
  <2>1. Tail(t) = <<>> => n = 1
    BY <1>2
  <2>2. QED
    BY <1>6, <2>1 DEF Finished
<1>9. QED
  BY <1>7, <1>8 DEF Brought

\* The end of the calls that leave the radio listening.
LEMMA RxAdvance ==
  ASSUME NEW call \in {"send", "retune", "reset"}, NEW t \in Seq(Cmd), t # <<>>, LeftIn(call, t),
         NEW c, NEW c2, NEW antenna, NEW antenna2,
         Done(Head(t), c, c2, antenna, antenna2), NEW a, NEW aired,
         Achieved(call, Len(t), c, antenna, a, aired)
  PROVE  /\ Len(Tail(t)) <= 4 => c2.mode = "standby" \/ Len(Tail(t)) = 0
         /\ Len(Tail(t)) <= 3 => c2.irq = {} /\ c2.latched = {}
         /\ Len(Tail(t)) <= 2 => c2.mask = RxMask
         /\ Len(Tail(t)) <= 1 => antenna2 = "rx"
         /\ Tail(t) = <<>> => Listening(c2, antenna2) /\ c2.irq = {} /\ c2.latched = {}
<1>1. PICK n, s : n = Len(t) /\ s = Head(t) /\ n \in Nat
  <2>1. Len(t) \in Nat
    OBVIOUS
  <2>2. QED
    BY <2>1
<1>2. n >= 1 /\ Len(Tail(t)) = n - 1 /\ (Tail(t) = <<>> => n - 1 = 0)
  <2>1. Len(t) \in Nat \ {0} /\ Len(Tail(t)) = Len(t) - 1
    BY TailIs
  <2>2. Tail(t) = <<>> => Len(Tail(t)) = 0
    BY EmptySeq
  <2>3. n \in Nat \ {0} => n >= 1
    OBVIOUS
  <2>4. QED
    BY <1>1, <2>1, <2>2, <2>3
<1>3. /\ n = 5 => s = "standby"
      /\ n = 4 => s = "clear"
      /\ n = 3 => s = "mask_rx"
      /\ n = 2 => s = "sw_rx"
      /\ n = 1 => s = "set_rx"
  BY <1>1, AtRxEnd
<1>4. /\ n <= 4 => c.mode = "standby"
      /\ n <= 3 => c.irq = {} /\ c.latched = {}
      /\ n <= 2 => c.mask = RxMask
      /\ n <= 1 => antenna = "rx"
  BY <1>1 DEF Achieved
<1>5. n \in {1, 2, 3, 4, 5} \/ n > 5
  <2>1. n \in Nat /\ n >= 1
    BY <1>1, <1>2
  <2>2. QED
    BY <2>1
<1>6. CASE n > 5
  <2>1. ~(n - 1 <= 4) /\ ~(n - 1 <= 3) /\ ~(n - 1 <= 2) /\ ~(n - 1 <= 1) /\ n - 1 # 0
    <3>1. n \in Nat
      BY <1>1
    <3>2. QED
      BY <1>6, <3>1
  <2>2. QED
    BY <1>2, <2>1
<1>7. CASE n = 5
  <2>1. c2.mode = "standby"
    BY <1>1, <1>3, <1>7 DEF Done
  <2>2. Len(Tail(t)) = 4
    BY <1>2, <1>7
  <2>3. ~(4 <= 3) /\ ~(4 <= 2) /\ ~(4 <= 1)
    OBVIOUS
  <2>4. Tail(t) # <<>>
    BY <1>2, <1>7
  <2>5. QED
    BY <2>1, <2>2, <2>3, <2>4
<1>8. CASE n = 4
  <2>1. s = "clear" /\ c.mode = "standby"
    <3>1. 4 <= 4
      OBVIOUS
    <3>2. QED
      BY <1>3, <1>4, <1>8, <3>1
  <2>2. c2.mode = "standby" /\ c2.irq = {} /\ c2.latched = {}
    BY <1>1, <2>1 DEF Done
  <2>3. QED
    BY <1>2, <1>8, <2>2
<1>9. CASE n = 3
  <2>1. s = "mask_rx" /\ c.mode = "standby" /\ c.irq = {} /\ c.latched = {}
    BY <1>3, <1>4, <1>9
  <2>2. c2.mode = "standby" /\ c2.irq = {} /\ c2.latched = {} /\ c2.mask = RxMask
    BY <1>1, <2>1 DEF Done
  <2>3. QED
    BY <1>2, <1>9, <2>2
<1>10. CASE n = 2
  <2>1. s = "sw_rx" /\ c.mode = "standby" /\ c.irq = {} /\ c.latched = {} /\ c.mask = RxMask
    BY <1>3, <1>4, <1>10
  <2>2. c2.mode = "standby" /\ c2.irq = {} /\ c2.latched = {} /\ c2.mask = RxMask /\ antenna2 = "rx"
    BY <1>1, <2>1 DEF Done
  <2>3. QED
    BY <1>2, <1>10, <2>2
<1>11. CASE n = 1
  <2>1. s = "set_rx" /\ c.irq = {} /\ c.latched = {} /\ c.mask = RxMask /\ antenna = "rx"
    BY <1>3, <1>4, <1>11
  <2>2. c2.mode = "rx" /\ c2.irq = {} /\ c2.latched = {} /\ c2.mask = RxMask /\ antenna2 = "rx"
    BY <1>1, <2>1 DEF Done
  <2>3. QED
    BY <1>2, <1>11, <2>2 DEF Listening
<1>12. QED
  BY <1>5, <1>6, <1>7, <1>8, <1>9, <1>10, <1>11

LEMMA RxCallAdvance ==
  ASSUME NEW call \in {"send", "retune", "reset"}, NEW t \in Seq(Cmd), NEW c, NEW c2, NEW antenna,
         NEW antenna2, NEW a, NEW a2, NEW aired, Onward(call, t, c, c2, antenna, antenna2, a, a2, aired)
  PROVE  Brought(call, t, c, c2, antenna2, a2, aired)
<1>a. /\ t # <<>> /\ LeftIn(call, t) /\ Done(Head(t), c, c2, antenna, antenna2)
      /\ Achieved(call, Len(t), c, antenna, a, aired) /\ Said(Head(t), c, a, a2)
  BY DEF Onward
<1>1. /\ Len(Tail(t)) <= 4 => c2.mode = "standby" \/ Len(Tail(t)) = 0
      /\ Len(Tail(t)) <= 3 => c2.irq = {} /\ c2.latched = {}
      /\ Len(Tail(t)) <= 2 => c2.mask = RxMask
      /\ Len(Tail(t)) <= 1 => antenna2 = "rx"
      /\ Tail(t) = <<>> => Listening(c2, antenna2) /\ c2.irq = {} /\ c2.latched = {}
  BY <1>a, RxAdvance
<1>2. Head(t) # "await_cad"
  BY <1>a, AtRxEnd
<1>3. PICK n, s : n = Len(t) /\ s = Head(t) /\ n \in Nat
  <2>1. Len(t) \in Nat
    OBVIOUS
  <2>2. QED
    BY <2>1
<1>4. Len(Tail(t)) = n - 1 /\ (Tail(t) # <<>> => Len(Tail(t)) # 0)
  BY <1>a, <1>3, TailIs, EmptySeq
<1>5. ASSUME call = "send"
      PROVE  /\ n - 1 <= 14 /\ "tx_done" \in c2.irq => aired
             /\ a2 = "sent" => aired
  <2>1. n \in 1..16 /\ (n = 15 => s = "clear") /\ (s = "await_tx" => n = 8)
    BY <1>a, <1>3, <1>5, AtSend
  <2>2. (n <= 14 /\ "tx_done" \in c.irq => aired) /\ (a = "sent" => aired)
    BY <1>a, <1>3, <1>5 DEF Achieved
  <2>3. n = 16 \/ n = 15 \/ n <= 14
    BY <2>1
  <2>4. n - 1 <= 14 /\ "tx_done" \in c2.irq => aired
    <3>1. CASE n = 16
      <4>1. ~(n - 1 <= 14)
        BY <3>1
      <4>2. QED
        BY <4>1
    <3>2. CASE n = 15
      <4>1. c2.irq = {}
        BY <1>a, <1>3, <2>1, <3>2 DEF Done
      <4>2. QED
        BY <4>1
    <3>3. CASE n <= 14
      <4>1. c2.irq = c.irq \/ c2.irq = {}
        BY <1>a DEF Done
      <4>2. QED
        BY <2>2, <3>3, <4>1
    <3>4. QED
      BY <2>3, <3>1, <3>2, <3>3
  <2>5. a2 = "sent" => aired
    <3>1. CASE s = "await_tx"
      <4>1. n = 8 /\ 8 <= 14
        BY <2>1, <3>1
      <4>2. a2 = "sent" => "tx_done" \in c.irq
        BY <1>a, <1>3, <3>1 DEF Said
      <4>3. QED
        BY <2>2, <4>1, <4>2
    <3>2. CASE s # "await_tx"
      <4>1. a2 = a
        BY <1>a, <1>2, <1>3, <3>2 DEF Said
      <4>2. QED
        BY <2>2, <4>1
    <3>3. QED
      BY <3>1, <3>2
  <2>6. QED
    BY <2>4, <2>5
<1>6. Tail(t) # <<>> => Achieved(call, Len(Tail(t)), c2, antenna2, a2, aired)
  <2>1. PICK k : k = Len(Tail(t)) /\ k = n - 1
    BY <1>4
  <2>2. /\ k <= 4 => c2.mode = "standby" \/ k = 0
        /\ k <= 3 => c2.irq = {} /\ c2.latched = {}
        /\ k <= 2 => c2.mask = RxMask
        /\ k <= 1 => antenna2 = "rx"
    BY <1>1, <2>1
  <2>3. call = "send" => /\ k <= 14 /\ "tx_done" \in c2.irq => aired
                         /\ a2 = "sent" => aired
    BY <1>5, <2>1
  <2>4. k # 0 => Achieved(call, k, c2, antenna2, a2, aired)
    BY <2>2, <2>3 DEF Achieved
  <2>5. QED
    BY <1>4, <2>1, <2>4
<1>7. Tail(t) = <<>> => Finished(call, c2, antenna2, a2, aired)
  BY <1>1, <1>5 DEF Finished
<1>8. QED
  BY <1>6, <1>7 DEF Brought

LEMMA CallAdvance ==
  ASSUME NEW call \in Calls \ {"none", "poll"}, NEW t \in Seq(Cmd), NEW c, NEW c2, NEW antenna,
         NEW antenna2, NEW a, NEW a2, NEW aired, Onward(call, t, c, c2, antenna, antenna2, a, a2, aired)
  PROVE  Brought(call, t, c, c2, antenna2, a2, aired)
<1>1. CASE call = "sense"
  BY <1>1, SenseAdvance
<1>2. CASE call \in {"power", "stop"}
  BY <1>2, ShortAdvance
<1>3. CASE call \in {"send", "retune", "reset"}
  BY <1>3, RxCallAdvance
<1>4. QED
  BY <1>1, <1>2, <1>3 DEF Calls

LEMMA CallLeft ==
  ASSUME NEW call \in Calls \ {"none", "poll"}, NEW t \in Seq(Cmd), t # <<>>, LeftIn(call, t)
  PROVE  /\ LeftIn(call, Tail(t))
         /\ Head(t) \notin {"dio", "irq", "buf_status"}
         /\ Head(t) = "await_tx" => call = "send"
         /\ Head(t) = "await_cad" => call = "sense"
         /\ Head(t) = "errors" => call = "reset"
<1>1. CASE call = "sense"
  <2>1. /\ Len(t) \in 1..9 /\ LeftIn("sense", Tail(t))
        /\ Len(t) = 9 => Head(t) = "standby"
        /\ Len(t) \in 1..8 => Head(t) \in {"clear", "mask_cad", "cad_params", "sw_rx", "set_cad",
                                           "await_cad", "sw_off"}
    BY <1>1, AtSense
  <2>2. Len(t) = 9 \/ Len(t) \in 1..8
    BY <2>1
  <2>3. QED
    BY <1>1, <2>1, <2>2
<1>2. CASE call \in {"power", "stop"}
  <2>1. /\ Len(t) \in 1..2 /\ LeftIn(call, Tail(t))
        /\ Len(t) = 2 => Head(t) = "standby"
        /\ Len(t) = 1 => Head(t) = IF call = "power" THEN "power" ELSE "sw_off"
    BY <1>2, AtShort
  <2>2. Len(t) = 1 \/ Len(t) = 2
    BY <2>1
  <2>3. QED
    BY <1>2, <2>1, <2>2
<1>3. CASE call \in {"send", "retune", "reset"}
  BY <1>3, AtRxEnd
<1>4. QED
  BY <1>1, <1>2, <1>3 DEF Calls

LEMMA VerdictSaid ==
  ASSUME NEW call, NEW s, NEW c, NEW a, NEW a2, Said(s, c, a, a2), a \in Verdicts(call),
         s = "await_tx" => call = "send", s = "await_cad" => call = "sense"
  PROVE  a2 \in Verdicts(call)
<1>1. CASE s = "await_tx"
  BY <1>1 DEF Said, Verdicts
<1>2. CASE s = "await_cad"
  BY <1>2 DEF Said, Verdicts
<1>3. CASE s \notin {"await_tx", "await_cad"}
  BY <1>3 DEF Said
<1>4. QED
  BY <1>1, <1>2, <1>3

\* A command of a call other than a poll that worked.
LEMMA DoneFollows ==
  ASSUME CInv, RadioTyped', drv.call \notin {"none", "poll"}, NEW a,
         Done(Head(drv.todo), chip, chip', sw, sw'), Said(Head(drv.todo), chip, drv.answer, a),
         GoOn(Rest, a, {}, FALSE)
  PROVE  KInv' /\ Contract!Next
<1>1. /\ drv \in DrvType /\ drv.call \in Calls \ {"none", "poll"} /\ drv.todo \in Seq(Cmd) /\ drv.todo # <<>>
  BY DEF CInv, RInv, RadioTyped, DrvType
<1>2. /\ Flagged(chip) /\ LeftIn(drv.call, drv.todo) /\ drv.answer \in Verdicts(drv.call)
      /\ drv.bad = {} => Achieved(drv.call, Len(drv.todo), chip, sw, drv.answer, drv.onair)
  BY DEF CInv, KInv
<1>3. Quiet(chip, chip') /\ Flagged(chip')
  BY <1>2, QuietDone
<1>4. LeftIn(drv.call, Rest) /\ Rest \in Seq(Cmd)
  BY <1>1, <1>2, CallLeft, TailIs DEF Rest
<1>5. a \in Verdicts(drv.call)
  BY <1>1, <1>2, CallLeft, VerdictSaid
<1>6. ASSUME drv.bad = {}
      PROVE  /\ Rest # <<>> => Achieved(drv.call, Len(Rest), chip', sw', a, drv.onair)
             /\ Rest = <<>> => /\ Finished(drv.call, chip', sw', a, drv.onair)
                               /\ drv.call \in {"power", "stop"} => chip'.latched = chip.latched /\ chip'.irq = chip.irq
  <2>1. Achieved(drv.call, Len(drv.todo), chip, sw, drv.answer, drv.onair)
    BY <1>2, <1>6
  <2>2. PICK t \in Seq(Cmd), call \in Calls \ {"none", "poll"} : t = drv.todo /\ call = drv.call
    BY <1>1
  <2>3. Onward(call, t, chip, chip', sw, sw', drv.answer, a, drv.onair)
    BY <1>1, <1>2, <2>1, <2>2 DEF Onward
  <2>4. Brought(call, t, chip, chip', sw', a, drv.onair)
    BY <2>3, CallAdvance
  <2>5. QED
    BY <2>2, <2>4 DEF Rest, Brought
<1>7. drv.bad \cup {} = drv.bad
  OBVIOUS
<1>8. CASE Rest # <<>>
  BY <1>3, <1>4, <1>5, <1>6, <1>7, <1>8, WorkFollows
<1>9. CASE Rest = <<>>
  <2>1. GoOn(<<>>, a, {}, FALSE)
    BY <1>9
  <2>2. QED
    BY <1>3, <1>5, <1>6, <1>7, <1>9, <2>1, EndFollows
<1>10. QED
  BY <1>8, <1>9

LEMMA CommandDone ==
  ASSUME RadioTyped, Command, Head(drv.todo) \notin Reads \cup Awaits \cup Switches \cup {"errors"}
  PROVE  /\ Done(Head(drv.todo), chip, chip', sw, sw')
         /\ Said(Head(drv.todo), chip, drv.answer, drv.answer) /\ GoOn(Rest, drv.answer, {}, FALSE)
<1>1. PICK s : s = Head(drv.todo)
  OBVIOUS
<1>2. chip' = Effect(s) /\ UNCHANGED sw /\ GoOn(Rest, drv.answer, {}, FALSE)
  BY <1>1 DEF Command, Next1
<1>3. s \notin {"sw_rx", "sw_tx", "sw_off", "await_tx", "await_cad"}
  BY <1>1 DEF Awaits, Switches
<1>4. /\ s \notin {"clear", "reset"} => chip'.irq = chip.irq /\ chip'.latched = chip.latched /\ chip'.rx = chip.rx
      /\ s \in {"clear", "reset"} => chip'.irq = {} /\ chip'.latched = {}
      /\ s \notin {"standby", "set_rx", "set_tx", "set_cad", "reset"} => chip'.mode = chip.mode
      /\ s = "standby" => chip'.mode = "standby"
      /\ s = "set_rx" => chip'.mode = "rx"
      /\ s = "set_cad" => chip'.mode = "cad"
      /\ s \notin {"mask_rx", "mask_tx", "mask_cad", "reset"} => chip'.mask = chip.mask
      /\ s = "mask_rx" => chip'.mask = RxMask
  BY <1>2, EffectOn
<1>5. Done(s, chip, chip', sw, sw')
  BY <1>2, <1>3, <1>4 DEF Done
<1>6. Said(s, chip, drv.answer, drv.answer)
  BY <1>3 DEF Said
<1>7. QED
  BY <1>1, <1>2, <1>5, <1>6

\* A command that leaves the chip alone.
LEMMA Leaving ==
  ASSUME NEW s, s \notin {"clear", "reset", "standby", "set_rx", "set_tx", "set_cad", "mask_rx", "mask_tx", "mask_cad"},
         NEW c, NEW antenna, NEW antenna2, s \notin Switches => antenna2 = antenna, s = "sw_rx" => antenna2 = "rx"
  PROVE  Done(s, c, c, antenna, antenna2)
BY DEF Done, Switches

LEMMA AwaitDone ==
  ASSUME RadioTyped, Await, Head(drv.todo) \in Awaits
  PROVE  /\ Done(Head(drv.todo), chip, chip', sw, sw')
         /\ \E a : Said(Head(drv.todo), chip, drv.answer, a) /\ GoOn(Rest, a, {}, FALSE)
<1>1. UNCHANGED <<chip, sw>>
  BY DEF Await
<1>2. Done(Head(drv.todo), chip, chip', sw, sw')
  BY <1>1 DEF Awaits, Done
<1>3. CASE Head(drv.todo) = "await_tx"
  <2>1. (IF Dio1 /\ "tx_done" \in chip.irq THEN Next1("sent") ELSE Next1("failed"))
    BY <1>3 DEF Await
  <2>2. Dio1 /\ "tx_done" \in chip.irq => Said(Head(drv.todo), chip, drv.answer, "sent")
    BY <1>3 DEF Said
  <2>3. Said(Head(drv.todo), chip, drv.answer, "failed")
    BY <1>3 DEF Said
  <2>4. \/ "tx_done" \in chip.irq /\ GoOn(Rest, "sent", {}, FALSE)
        \/ GoOn(Rest, "failed", {}, FALSE)
    BY <2>1 DEF Next1
  <2>5. "tx_done" \in chip.irq => Said(Head(drv.todo), chip, drv.answer, "sent")
    BY <1>3 DEF Said
  <2>6. QED
    BY <1>2, <2>3, <2>4, <2>5
<1>4. CASE Head(drv.todo) = "await_cad"
  <2>1. Next1(IF Dio1 /\ {"cad_done", "cad_detected"} \subseteq chip.irq THEN "busy" ELSE "clear")
    BY <1>4 DEF Await
  <2>2. PICK a : a = IF Dio1 /\ {"cad_done", "cad_detected"} \subseteq chip.irq THEN "busy" ELSE "clear"
    OBVIOUS
  <2>3. Said(Head(drv.todo), chip, drv.answer, a)
    BY <1>4, <2>2 DEF Said
  <2>4. GoOn(Rest, a, {}, FALSE)
    BY <2>1, <2>2 DEF Next1
  <2>5. QED
    BY <1>2, <2>3, <2>4
<1>5. QED
  BY <1>3, <1>4 DEF Awaits

LEMMA SwitchDone ==
  ASSUME RadioTyped, Switch, Head(drv.todo) \in Switches
  PROVE  /\ Done(Head(drv.todo), chip, chip', sw, sw')
         /\ Said(Head(drv.todo), chip, drv.answer, drv.answer) /\ GoOn(Rest, drv.answer, {}, FALSE)
<1>1. /\ UNCHANGED chip /\ GoOn(Rest, drv.answer, {}, FALSE)
      /\ Head(drv.todo) = "sw_rx" => sw' = "rx"
  BY DEF Switch, Next1
<1>2. Done(Head(drv.todo), chip, chip', sw, sw')
  BY <1>1 DEF Switches, Done
<1>3. Said(Head(drv.todo), chip, drv.answer, drv.answer)
  BY DEF Switches, Said
<1>4. QED
  BY <1>1, <1>2, <1>3

\* The probe of the oscillator goes on, or starts the bring-up again.
LEMMA ProbeFollows ==
  ASSUME CInv, RadioTyped', drv.call \notin {"none", "poll"}, Head(drv.todo) = "errors", Probe
  PROVE  KInv' /\ Contract!Next
<1>1. UNCHANGED <<chip, sw>> /\ (GoOn(Rest, drv.answer, {}, FALSE) \/ GoOn(BringUp(FALSE), drv.answer, {}, FALSE))
  BY DEF Probe, ProbeClock, Next1
<1>2. CASE GoOn(Rest, drv.answer, {}, FALSE)
  <2>1. Done(Head(drv.todo), chip, chip', sw, sw')
    BY <1>1 DEF Done
  <2>2. Said(Head(drv.todo), chip, drv.answer, drv.answer)
    BY DEF Said
  <2>3. QED
    BY <1>2, <2>1, <2>2, DoneFollows
<1>3. CASE GoOn(BringUp(FALSE), drv.answer, {}, FALSE)
  <2> DEFINE t == BringUp(FALSE)
  <2>1. t \in Seq(Cmd) /\ Len(t) > 5 /\ Body("reset", t)
    BY Lengths DEF Body
  <2>2. LeftIn("reset", t)
    BY <2>1, EndOfItself DEF LeftIn
  <2>3. GoOn(t, drv.answer, {}, FALSE)
    BY <1>3
  <2> HIDE DEF t
  <2>4. /\ drv.call \in Calls \ {"none", "poll"} /\ drv.todo \in Seq(Cmd) /\ drv.todo # <<>>
    BY DEF CInv, RInv, RadioTyped, DrvType
  <2>5. LeftIn(drv.call, drv.todo) /\ drv.answer \in Verdicts(drv.call) /\ Flagged(chip)
    BY DEF CInv, KInv
  <2>6. drv.call = "reset"
    BY <2>4, <2>5, CallLeft
  <2>7. Flagged(chip') /\ Quiet(chip, chip')
    BY <1>1, <2>5 DEF Quiet
  <2>8. t # <<>>
    BY <2>1, EmptySeq
  <2>9. Achieved("reset", Len(t), chip', sw', drv.answer, drv.onair)
    <3>1. PICK n : n = Len(t)
      OBVIOUS
    <3>2. n \in Nat /\ n > 5
      BY <2>1, <3>1
    <3>3. ~(n <= 4) /\ ~(n <= 3) /\ ~(n <= 2) /\ ~(n <= 1)
      BY <3>2
    <3>4. Achieved("reset", n, chip', sw', drv.answer, drv.onair)
      BY <3>3 DEF Achieved
    <3>5. QED
      BY <3>1, <3>4
  <2>10. QED
    BY <2>1, <2>2, <2>3, <2>5, <2>6, <2>7, <2>8, <2>9, WorkFollows
<1>4. QED
  BY <1>1, <1>2, <1>3

\* A step of a call other than a poll.
LEMMA StepFollows ==
  ASSUME CInv, RadioTyped', drv.call \notin {"none", "poll"}, Step
  PROVE  KInv' /\ Contract!Next
<1>1. /\ RadioTyped /\ drv.call \in Calls \ {"none", "poll"} /\ drv.todo \in Seq(Cmd) /\ drv.todo # <<>>
      /\ LeftIn(drv.call, drv.todo)
  BY DEF CInv, RInv, KInv, RadioTyped, DrvType
<1>2. Head(drv.todo) \notin {"dio", "irq", "buf_status"}
  BY <1>1, CallLeft
<1>3. CASE Head(drv.todo) \in Awaits /\ Await
  BY <1>1, <1>3, AwaitDone, DoneFollows
<1>4. CASE Head(drv.todo) \in Switches /\ Switch
  BY <1>1, <1>4, SwitchDone, DoneFollows
<1>5. CASE Head(drv.todo) = "errors" /\ Probe
  BY <1>5, ProbeFollows
<1>6. CASE Head(drv.todo) \notin Reads \cup Awaits \cup Switches \cup {"errors"} /\ Command
  BY <1>1, <1>6, CommandDone, DoneFollows
<1>7. QED
  BY <1>2, <1>3, <1>4, <1>5, <1>6 DEF Step, Reads

\* What a failed call has left is still an end of it.
LEMMA StopLeft ==
  ASSUME CInv, drv.call # "none"
  PROVE  LET t == AfterStop(Head(drv.todo))
         IN  t \in Seq(Cmd) /\ (t # <<>> => LeftIn(drv.call, t))
<1>1. CASE drv.call = "poll" /\ Head(drv.todo) \in {"buf_status", "read"}
  <2>1. AfterStop(Head(drv.todo)) = <<"clear">>
    BY <1>1 DEF AfterStop
  <2>2. <<"clear">> \in Seq(Cmd) /\ FetchRx \in Seq(Cmd)
    BY DEF Cmd, FetchRx
  <2>3. EndOf(<<"clear">>, FetchRx)
    <3>1. Len(<<"clear">>) = 1 /\ Len(FetchRx) = 4 /\ FetchRx[4] = "clear" /\ <<"clear">>[1] = "clear"
      BY DEF FetchRx
    <3>2. ASSUME NEW i \in 1..1
          PROVE  i = 1 /\ 4 - 1 + i = 4
      OBVIOUS
    <3>3. QED
      BY <3>1, <3>2 DEF EndOf
  <2>4. QED
    BY <1>1, <2>1, <2>2, <2>3 DEF LeftIn, Body
<1>2. CASE drv.call = "send" /\ Head(drv.todo) = "set_tx"
  <2> DEFINE p == <<"sw_off">>
             t == p \o StartRx
  <2>1. AfterStop(Head(drv.todo)) = t
    BY <1>2 DEF AfterStop
  <2>2. p \in Seq(Cmd) /\ StartRx \in Seq(Cmd) /\ Len(p) = 1 /\ Len(StartRx) = 5 /\ p[1] = "sw_off"
        /\ StartRx[1] = "standby" /\ StartRx[2] = "clear" /\ StartRx[3] = "mask_rx" /\ StartRx[4] = "sw_rx"
        /\ StartRx[5] = "set_rx"
    BY DEF Cmd, StartRx
  <2> HIDE DEF p
  <2>3. /\ t \in Seq(Cmd) /\ Len(t) = 1 + 5
        /\ \A i \in 1..1 : t[i] = p[i]
        /\ \A i \in 1..5 : t[1 + i] = StartRx[i]
    <3>1. /\ t \in Seq(Cmd) /\ Len(t) = Len(p) + Len(StartRx)
          /\ \A i \in 1..Len(p) : t[i] = p[i]
          /\ \A i \in 1..Len(StartRx) : t[Len(p) + i] = StartRx[i]
      BY <2>2, JoinedIs
    <3>2. Len(p) = 1 /\ Len(StartRx) = 5
      BY <2>2
    <3>3. QED
      BY <3>1, <3>2
  <2> HIDE DEF t
  <2>4. /\ t[1] = "sw_off" /\ t[1 + 1] = "standby" /\ t[1 + 2] = "clear" /\ t[1 + 3] = "mask_rx"
        /\ t[1 + 4] = "sw_rx" /\ t[1 + 5] = "set_rx"
    <3>1. 1 \in 1..1 /\ 1 \in 1..5 /\ 2 \in 1..5 /\ 3 \in 1..5 /\ 4 \in 1..5 /\ 5 \in 1..5
      OBVIOUS
    <3>2. /\ t[1] = p[1] /\ t[1 + 1] = StartRx[1] /\ t[1 + 2] = StartRx[2] /\ t[1 + 3] = StartRx[3]
          /\ t[1 + 4] = StartRx[4] /\ t[1 + 5] = StartRx[5]
      BY <2>3, <3>1
    <3>3. QED
      BY <2>2, <3>2
  <2>5. ASSUME NEW i \in 1..6
        PROVE  t[i] = Transmit[10 + i]
    <3>1. i = 1 \/ i = 2 \/ i = 3 \/ i = 4 \/ i = 5 \/ i = 6
      OBVIOUS
    <3>2. QED
      BY <2>4, <3>1, TransmitIs
  <2>6. EndOf(t, Transmit)
    <3>1. Len(t) = 6 /\ Len(Transmit) = 16 /\ 6 <= 16 /\ 16 - 6 = 10
      BY <2>3, TransmitIs
    <3>2. QED
      BY <2>5, <3>1 DEF EndOf
  <2>7. LeftIn("send", t)
    BY <2>6, TransmitIs DEF LeftIn, Body
  <2>8. QED
    BY <1>2, <2>1, <2>3, <2>7
<1>3. CASE ~(drv.call = "poll" /\ Head(drv.todo) \in {"buf_status", "read"})
           /\ ~(drv.call = "send" /\ Head(drv.todo) = "set_tx")
  <2>1. AfterStop(Head(drv.todo)) = <<>>
    BY <1>3 DEF AfterStop
  <2>2. QED
    BY <2>1, EmptySeq
<1>4. QED
  BY <1>1, <1>2, <1>3

\* A command of a call other than a poll fails.
LEMMA FailFollows ==
  ASSUME CInv, RadioTyped', drv.call \notin {"none", "poll"}, Fail
  PROVE  KInv' /\ Contract!Next
<1>1. /\ RadioTyped /\ drv.call \in Calls \ {"none", "poll"} /\ drv.todo \in Seq(Cmd) /\ drv.todo # <<>>
      /\ LeftIn(drv.call, drv.todo) /\ Flagged(chip) /\ drv.answer \in Verdicts(drv.call)
  BY DEF CInv, RInv, KInv, RadioTyped, DrvType
<1> DEFINE s == Head(drv.todo)
           todo == IF Stops(s) THEN AfterStop(s) ELSE Rest
<1>2. /\ chip' = IF s = "reset" THEN Effect(s) ELSE chip
      /\ GoOn(todo, AnswerAt(s), {s}, InBringUp /\ Stops(s))
  BY DEF Fail
<1>3. AnswerAt(s) \in Verdicts(drv.call)
  BY <1>1 DEF AnswerAt, Verdicts
<1>4. /\ todo \in Seq(Cmd)
      /\ todo # <<>> => LeftIn(drv.call, todo)
  BY <1>1, CallLeft, StopLeft, TailIs DEF Rest
<1>5. Quiet(chip, chip') /\ Flagged(chip')
  <2>1. CASE s = "reset"
    <3>1. chip'.irq = {} /\ chip'.latched = {}
      BY <1>1, <1>2, <2>1, EffectOn
    <3>2. QED
      BY <3>1 DEF Quiet, Flagged, Noisy
  <2>2. CASE s # "reset"
    BY <1>1, <1>2, <2>2 DEF Quiet
  <2>3. QED
    BY <2>1, <2>2
<1>6. drv.bad \cup {s} # {}
  OBVIOUS
<1> HIDE DEF s, todo
<1>7. CASE todo = <<>>
  <2>1. GoOn(<<>>, AnswerAt(s), {s}, InBringUp /\ Stops(s))
    BY <1>2, <1>7
  <2>2. QED
    BY <1>1, <1>3, <1>5, <1>6, <2>1, EndFollows
<1>8. CASE todo # <<>>
  BY <1>1, <1>2, <1>3, <1>4, <1>5, <1>6, <1>8, WorkFollows
<1>9. QED
  BY <1>7, <1>8

----------------------------------------------------------------------------
(* A poll.                                                                 *)

\* What it returns is what it found.
Found(c, antenna, a, bad) ==
  \/ a \in c.latched
  \/ a = "error" /\ (Noisy(c) \/ bad # {})
  \/ a = "none" /\ ((c.latched = {} /\ ~Noisy(c)) \/ ~Listening(c, antenna))

LEMMA PollGoesOn ==
  ASSUME CInv, drv.call = "poll", NEW todo \in Seq(Cmd), todo # <<>>, LeftIn("poll", todo),
         NEW a, NEW failed, NEW cut, GoOn(todo, a, failed, cut),
         chip'.irq = chip.irq, chip'.latched = chip.latched, chip'.rx = chip.rx,
         chip'.mode = chip.mode, chip'.mask = chip.mask, sw' = sw,
         Polling(Head(todo), chip, sw, a, drv.bad \cup failed)
  PROVE  KInv' /\ (Contract!Next \/ UNCHANGED Contract!vars)
<1>1. RadioTyped /\ Flagged(chip)
  BY DEF CInv, RInv, KInv
<1>2. /\ drv'.todo = todo /\ drv'.answer = a /\ drv'.bad = drv.bad \cup failed
      /\ drv'.call = drv.call /\ drv'.onair = drv.onair
  <2>1. /\ drv'.todo = todo /\ drv'.answer = a /\ drv'.bad = drv.bad \cup failed
        /\ todo # <<>> => drv'.call = drv.call /\ drv'.onair = drv.onair
    BY ONLY <1>1, GoOn(todo, a, failed, cut), Goes
  <2>2. QED
    BY <2>1
<1>3. KInv'
  <2>1. Polling(Head(todo), chip', sw', a, drv.bad \cup failed)
    BY DEF Polling, Truthful, Noisy, Listening
  <2>2. Flagged(chip')
    BY <1>1 DEF Flagged
  <2>3. QED
    BY <1>2, <2>1, <2>2 DEF KInv
<1>4. ModeOf' = ModeOf
  BY DEF ModeOf, Attentive
<1>5. (IF drv'.call = "none" THEN drv'.answer ELSE "none") = (IF drv.call = "none" THEN drv.answer ELSE "none")
  BY <1>2
<1>6. CASE drv'.bad = {}
  <2>1. drv.bad = {}
    BY <1>2, <1>6
  <2>2. UNCHANGED Contract!vars
    BY <1>2, <1>4, <1>5, <1>6, <2>1 DEF Contract!vars
  <2>3. QED
    BY <1>3, <2>2
<1>7. CASE drv'.bad # {}
  <2>1. Contract!Fault
    BY <1>2, <1>4, <1>5, <1>7 DEF Contract!Fault
  <2>2. QED
    BY <1>3, <2>1 DEF Contract!Next
<1>8. QED
  BY <1>6, <1>7

LEMMA PollEnds ==
  ASSUME CInv, RadioTyped', drv.call = "poll", NEW a \in Packet \cup {Junk, "none", "error"},
         NEW failed, NEW cut, GoOn(<<>>, a, failed, cut), Flagged(chip'), Quiet(chip, chip'),
         Found(chip, sw, a, drv.bad \cup failed),
         drv.bad \cup failed = {} =>
           /\ chip'.mode = chip.mode /\ chip'.mask = chip.mask /\ sw' = sw
           /\ IF a = "none" THEN chip'.latched = chip.latched /\ Noisy(chip') = Noisy(chip)
              ELSE chip'.latched = {} /\ Noisy(chip') = FALSE
  PROVE  KInv' /\ Contract!Next
<1>1. RadioTyped
  BY DEF CInv, RInv
<1>2. /\ drv'.answer = a /\ drv'.bad = drv.bad \cup failed /\ drv'.call = "none" /\ drv'.onair = FALSE
  BY <1>1, Goes
<1>3. KInv'
  BY <1>2 DEF KInv
<1>4. ModeOf' \in Contract!Mode
  BY DEF ModeOf, Attentive, Contract!Mode, RadioTyped, ChipType
<1>5. a \in Contract!Answer[drv.call] /\ drv.call \in Contract!Call
  BY DEF Contract!Answer, Contract!Call
<1>6. (IF drv'.call = "none" THEN drv'.answer ELSE "none") = a
  BY <1>2
<1>7. Contract!Says(a)
  <2>1. \/ a \in chip.latched
        \/ a = "error" /\ (chip.irq \cap {"crc_err", "hdr_err"} # {} \/ drv'.bad # {})
        \/ a = "none" /\ \/ chip.latched = {} /\ ~(chip.irq \cap {"crc_err", "hdr_err"} # {})
                         \/ ModeOf # "rx"
                         \/ drv'.bad # {}
    BY <1>1, <1>2, ModeIs DEF Found, Noisy
  <2>2. QED
    BY <2>1 DEF Contract!Says
<1>8. (drv'.bad # {}) \in {drv.bad # {}, TRUE}
  BY <1>2
<1>9. /\ chip'.latched \in {chip.latched, {}}
      /\ (chip'.irq \cap {"crc_err", "hdr_err"} # {}) \in {chip.irq \cap {"crc_err", "hdr_err"} # {}, FALSE}
  BY DEF Quiet, Noisy
<1>10. ASSUME drv'.bad = {}
       PROVE  /\ ModeOf' \in Contract!Leaves
              /\ IF a = "none" \/ drv.call \in {"power", "stop"}
                   THEN /\ chip'.latched = chip.latched
                        /\ (chip'.irq \cap {"crc_err", "hdr_err"} # {}) = (chip.irq \cap {"crc_err", "hdr_err"} # {})
                   ELSE chip'.latched = {} /\ (chip'.irq \cap {"crc_err", "hdr_err"} # {}) = FALSE
  <2>1. /\ chip'.mode = chip.mode /\ chip'.mask = chip.mask /\ sw' = sw
        /\ IF a = "none" THEN chip'.latched = chip.latched /\ Noisy(chip') = Noisy(chip)
           ELSE chip'.latched = {} /\ Noisy(chip') = FALSE
    BY <1>2, <1>10
  <2>2. ModeOf' = ModeOf
    BY <2>1 DEF ModeOf, Attentive
  <2>3. Contract!Leaves = {ModeOf}
    BY DEF Contract!Leaves
  <2>4. QED
    BY <2>1, <2>2, <2>3 DEF Noisy
<1>11. Contract!End
  BY <1>2, <1>4, <1>5, <1>6, <1>7, <1>8, <1>9, <1>10 DEF Contract!End
<1>12. QED
  BY <1>3, <1>11 DEF Contract!Next

\* What is left of it after a command.
LEMMA PollRest ==
  ASSUME CInv, drv.call = "poll"
  PROVE  /\ Head(drv.todo) \in {"dio", "irq", "buf_status", "read", "pkt_status", "clear"}
         /\ Rest \in Seq(Cmd) /\ LeftIn("poll", Rest)
         /\ Rest = <<>> => Head(drv.todo) \in {"irq", "clear"}
         /\ Head(drv.todo) = "clear" => Rest = <<>>
         /\ Head(drv.todo) = "dio" => Head(Rest) = "irq"
         /\ Head(drv.todo) \in {"buf_status", "read", "pkt_status"} =>
              Head(Rest) \in {"read", "pkt_status", "clear"}
<1>1. PICK t \in Seq(Cmd) : t = drv.todo
  BY DEF CInv, RInv, RadioTyped, DrvType
<1>2. t # <<>> /\ LeftIn("poll", t)
  BY <1>1 DEF CInv, RInv, KInv, RadioTyped
<1>3. /\ Head(t) \in {"dio", "irq", "buf_status", "read", "pkt_status", "clear"}
      /\ LeftIn("poll", Tail(t)) /\ Tail(t) \in Seq(Cmd)
      /\ Tail(t) = <<>> => Head(t) \in {"irq", "clear"}
      /\ Head(t) = "clear" => Tail(t) = <<>>
      /\ Tail(t) # <<>> => /\ Head(t) = "dio" => Head(Tail(t)) = "irq"
                           /\ Head(t) \in {"buf_status", "read", "pkt_status"}
                               => Head(Tail(t)) \in {"read", "pkt_status", "clear"}
  <2>1. Tail(t) \in Seq(Cmd)
    BY <1>2, TailIs
  <2>2. /\ Head(t) \in {"dio", "irq", "buf_status", "read", "pkt_status", "clear"}
        /\ LeftIn("poll", Tail(t))
        /\ Tail(t) = <<>> => Head(t) \in {"irq", "clear"}
        /\ Head(t) = "clear" => Tail(t) = <<>>
        /\ Tail(t) # <<>> => /\ Head(t) = "dio" => Head(Tail(t)) = "irq"
                             /\ Head(t) \in {"buf_status", "read", "pkt_status"}
                                 => Head(Tail(t)) \in {"read", "pkt_status", "clear"}
                             /\ Head(t) # "irq"
    BY ONLY <1>2, t \in Seq(Cmd), AtPoll
  <2>3. QED
    BY <2>1, <2>2
<1>4. Head(drv.todo) = Head(t) /\ Rest = Tail(t)
  BY <1>1 DEF Rest
<1>5. PICK h, r, k : h = Head(t) /\ r = Tail(t) /\ k = Head(Tail(t))
  OBVIOUS
<1>6. Head(drv.todo) = h /\ Rest = r /\ Head(Rest) = k
  BY <1>4, <1>5
<1>7. /\ h \in {"dio", "irq", "buf_status", "read", "pkt_status", "clear"}
      /\ r \in Seq(Cmd) /\ LeftIn("poll", r)
      /\ r = <<>> => h \in {"irq", "clear"}
      /\ h = "clear" => r = <<>>
      /\ r # <<>> => /\ h = "dio" => k = "irq"
                     /\ h \in {"buf_status", "read", "pkt_status"} => k \in {"read", "pkt_status", "clear"}
  BY <1>3, <1>5
<1>8. /\ h = "dio" => k = "irq"
      /\ h \in {"buf_status", "read", "pkt_status"} => k \in {"read", "pkt_status", "clear"}
  <2>1. h \in {"dio", "buf_status", "read", "pkt_status"} => r # <<>>
    BY <1>7
  <2>2. QED
    BY <1>7, <2>1
<1>9. QED
  BY <1>6, <1>7, <1>8

\* It looks at DIO1.
LEMMA DioFollows ==
  ASSUME CInv, RadioTyped', drv.call = "poll", Head(drv.todo) = "dio", ReadStep
  PROVE  KInv' /\ (Contract!Next \/ UNCHANGED Contract!vars)
<1>1. /\ RadioTyped /\ drv.todo \in Seq(Cmd) /\ drv.todo # <<>> /\ LeftIn("poll", drv.todo) /\ Flagged(chip)
  BY DEF CInv, RInv, KInv, RadioTyped, DrvType
<1>2. UNCHANGED <<chip, sw>> /\ (IF Dio1 THEN GoOn(Rest, "none", {}, FALSE) ELSE GoOn(<<>>, "none", {}, FALSE))
  BY DEF ReadStep, Next1
<1>3. CASE Dio1
  <2>1. Rest \in Seq(Cmd) /\ LeftIn("poll", Rest) /\ Rest # <<>> /\ Head(Rest) = "irq"
    BY PollRest
  <2>2. Polling(Head(Rest), chip, sw, "none", drv.bad \cup {})
    BY <1>3, <2>1 DEF Polling, Dio1
  <2>3. QED
    BY <1>2, <1>3, <2>1, <2>2, PollGoesOn
<1>4. CASE ~Dio1
  <2>1. GoOn(<<>>, "none", {}, FALSE)
    BY <1>2, <1>4
  <2>2. Found(chip, sw, "none", drv.bad \cup {})
    <3>1. Listening(chip, sw) => "rx_done" \notin chip.irq /\ "crc_err" \notin chip.irq /\ "hdr_err" \notin chip.irq
      BY <1>4 DEF Dio1, Listening, RxMask
    <3>2. QED
      BY <1>1, <3>1 DEF Found, Flagged, Noisy
  <2>3. Flagged(chip') /\ Quiet(chip, chip')
    BY <1>1, <1>2 DEF Quiet
  <2>4. QED
    BY <1>2, <2>1, <2>2, <2>3, PollEnds
<1>5. QED
  BY <1>3, <1>4

\* The ends of what fetches a packet.
LEMMA FetchEnds ==
  /\ LeftIn("poll", <<"pkt_status", "clear">>) /\ <<"pkt_status", "clear">> \in Seq(Cmd)
  /\ LeftIn("poll", FetchRx) /\ FetchRx \in Seq(Cmd)
  /\ LeftIn("poll", <<"clear">>) /\ <<"clear">> \in Seq(Cmd)
<1>1. FetchRx \in Seq(Cmd) /\ <<"clear">> \in Seq(Cmd) /\ <<"pkt_status", "clear">> \in Seq(Cmd)
  BY DEF Cmd, FetchRx
<1>2. Len(FetchRx) = 4 /\ FetchRx[4] = "clear" /\ FetchRx[3] = "pkt_status"
  BY DEF FetchRx
<1>3. EndOf(<<"clear">>, FetchRx)
  <2>1. Len(<<"clear">>) = 1 /\ <<"clear">>[1] = "clear"
    OBVIOUS
  <2>2. ASSUME NEW i \in 1..1
        PROVE  i = 1 /\ 4 - 1 + i = 4
    OBVIOUS
  <2>3. QED
    BY <1>2, <2>1, <2>2 DEF EndOf
<1>4. EndOf(<<"pkt_status", "clear">>, FetchRx)
  <2> DEFINE t == <<"pkt_status", "clear">>
  <2>1. Len(t) = 2 /\ t[1] = "pkt_status" /\ t[2] = "clear"
    OBVIOUS
  <2> HIDE DEF t
  <2>2. ASSUME NEW i \in 1..2
        PROVE  t[i] = FetchRx[4 - 2 + i]
    <3>1. (i = 1 /\ 4 - 2 + i = 3) \/ (i = 2 /\ 4 - 2 + i = 4)
      OBVIOUS
    <3>2. QED
      BY <1>2, <2>1, <3>1
  <2>3. EndOf(t, FetchRx)
    BY <1>2, <2>1, <2>2 DEF EndOf
  <2>4. QED
    BY <2>3 DEF t
<1>5. EndOf(FetchRx, FetchRx)
  BY <1>1, EndOfItself
<1>6. Body("poll", FetchRx)
  BY DEF Body
<1>7. QED
  BY <1>1, <1>3, <1>4, <1>5, <1>6 DEF LeftIn

\* It reads the flags.
LEMMA IrqFollows ==
  ASSUME CInv, RadioTyped', drv.call = "poll", Head(drv.todo) = "irq", ReadStep
  PROVE  KInv' /\ (Contract!Next \/ UNCHANGED Contract!vars)
<1>1. RadioTyped /\ Flagged(chip) /\ Polling("irq", chip, sw, drv.answer, drv.bad)
  BY DEF CInv, RInv, KInv
<1>2. /\ UNCHANGED <<chip, sw>>
      /\ \/ {"rx_done", "crc_err"} \subseteq chip.irq /\ GoOn(<<"pkt_status", "clear">>, "error", {}, FALSE)
         \/ /\ "rx_done" \in chip.irq /\ "crc_err" \notin chip.irq
            /\ GoOn(FetchRx, "none", {}, FALSE)
         \/ /\ "rx_done" \notin chip.irq
            /\ \/ "hdr_err" \in chip.irq /\ GoOn(<<"clear">>, "error", {}, FALSE)
               \/ "hdr_err" \notin chip.irq /\ GoOn(<<"clear">>, "none", {}, FALSE)
  BY DEF ReadStep, FetchRx
<1>3. chip.irq \cap chip.mask # {}
  BY <1>1 DEF Polling
<1>4. CASE {"rx_done", "crc_err"} \subseteq chip.irq /\ GoOn(<<"pkt_status", "clear">>, "error", {}, FALSE)
  <2>1. PICK t : t = <<"pkt_status", "clear">>
    OBVIOUS
  <2>2. t \in Seq(Cmd) /\ t # <<>> /\ Head(t) = "pkt_status" /\ LeftIn("poll", t)
    BY <2>1, FetchEnds
  <2>3. Polling(Head(t), chip, sw, "error", drv.bad \cup {})
    BY <1>4, <2>2 DEF Polling, Truthful, Noisy
  <2>4. GoOn(t, "error", {}, FALSE)
    BY <1>4, <2>1
  <2>5. QED
    BY <1>2, <2>2, <2>3, <2>4, PollGoesOn
<1>5. CASE "rx_done" \in chip.irq /\ "crc_err" \notin chip.irq /\ GoOn(FetchRx, "none", {}, FALSE)
  <2>1. FetchRx \in Seq(Cmd) /\ FetchRx # <<>> /\ Head(FetchRx) = "buf_status" /\ LeftIn("poll", FetchRx)
    BY FetchEnds DEF FetchRx
  <2>2. Polling(Head(FetchRx), chip, sw, "none", drv.bad \cup {})
    BY <1>1, <1>5, <2>1 DEF Polling, Flagged
  <2>3. QED
    BY <1>2, <1>5, <2>1, <2>2, PollGoesOn
<1>6. CASE "rx_done" \notin chip.irq
  <2>1. PICK a \in {"error", "none"} :
          /\ GoOn(<<"clear">>, a, {}, FALSE)
          /\ a = "error" <=> "hdr_err" \in chip.irq
    BY <1>2, <1>6
  <2>2. PICK t : t = <<"clear">>
    OBVIOUS
  <2>3. t \in Seq(Cmd) /\ t # <<>> /\ Head(t) = "clear" /\ LeftIn("poll", t)
    BY <2>2, FetchEnds
  <2>4. Truthful(chip, sw, a, drv.bad \cup {})
    <3>1. "crc_err" \notin chip.irq /\ chip.latched = {}
      BY <1>1, <1>6 DEF Flagged
    <3>2. CASE a = "error"
      BY <2>1, <3>2 DEF Truthful, Noisy
    <3>3. CASE a = "none"
      <4>1. "hdr_err" \notin chip.irq
        BY <2>1, <3>3
      <4>2. ~Noisy(chip)
        BY <3>1, <4>1 DEF Noisy
      <4>3. ~Listening(chip, sw)
        BY <1>3, <1>6, <3>1, <4>1 DEF Listening, RxMask
      <4>4. QED
        BY <3>1, <3>3, <4>2, <4>3 DEF Truthful
    <3>4. QED
      BY <3>2, <3>3
  <2>5. Polling(Head(t), chip, sw, a, drv.bad \cup {})
    BY <2>3, <2>4 DEF Polling
  <2>6. GoOn(t, a, {}, FALSE)
    BY <2>1, <2>2
  <2>7. QED
    BY <1>2, <2>3, <2>5, <2>6, PollGoesOn
<1>7. QED
  BY <1>2, <1>4, <1>5, <1>6

\* It asks where the packet is.
LEMMA BufferFollows ==
  ASSUME CInv, RadioTyped', drv.call = "poll", Head(drv.todo) = "buf_status", ReadStep
  PROVE  KInv' /\ (Contract!Next \/ UNCHANGED Contract!vars)
<1>1. /\ drv.todo \in Seq(Cmd) /\ drv.todo # <<>> /\ LeftIn("poll", drv.todo)
      /\ Polling("buf_status", chip, sw, drv.answer, drv.bad)
  BY DEF CInv, RInv, KInv, RadioTyped, DrvType
<1>2. UNCHANGED <<chip, sw>> /\ GoOn(Rest, chip.rx, {}, FALSE)
  BY DEF ReadStep, Next1
<1>3. /\ Rest \in Seq(Cmd) /\ LeftIn("poll", Rest) /\ Rest # <<>>
      /\ Head(Rest) \in {"read", "pkt_status", "clear"}
  BY PollRest
<1>4. Polling(Head(Rest), chip, sw, chip.rx, drv.bad \cup {})
  BY <1>1, <1>3 DEF Polling, Truthful
<1>5. QED
  BY <1>2, <1>3, <1>4, PollGoesOn

\* It fetches the packet, and clears the flags last.
LEMMA FetchFollows ==
  ASSUME CInv, RadioTyped', drv.call = "poll", Head(drv.todo) \in {"read", "pkt_status", "clear"}, Command
  PROVE  KInv' /\ (Contract!Next \/ UNCHANGED Contract!vars)
<1>1. /\ RadioTyped /\ drv.todo \in Seq(Cmd) /\ drv.todo # <<>> /\ LeftIn("poll", drv.todo) /\ Flagged(chip)
      /\ Truthful(chip, sw, drv.answer, drv.bad)
  BY DEF CInv, RInv, KInv, RadioTyped, DrvType, Polling
<1>2. Done(Head(drv.todo), chip, chip', sw, sw') /\ GoOn(Rest, drv.answer, {}, FALSE)
  BY <1>1, CommandDone DEF Reads, Awaits, Switches
<1>3. drv.bad \cup {} = drv.bad
  OBVIOUS
<1>4. CASE Head(drv.todo) # "clear"
  <2>1. /\ Rest \in Seq(Cmd) /\ LeftIn("poll", Rest) /\ Rest # <<>>
        /\ Head(Rest) \in {"read", "pkt_status", "clear"}
    BY <1>4, PollRest
  <2>2. /\ chip'.irq = chip.irq /\ chip'.latched = chip.latched /\ chip'.rx = chip.rx
        /\ chip'.mode = chip.mode /\ chip'.mask = chip.mask /\ sw' = sw
    BY <1>2, <1>4 DEF Done
  <2>3. Polling(Head(Rest), chip, sw, drv.answer, drv.bad \cup {})
    BY <1>1, <1>3, <2>1 DEF Polling
  <2>4. QED
    BY <1>2, <2>1, <2>2, <2>3, PollGoesOn
<1>5. CASE Head(drv.todo) = "clear"
  <2>1. GoOn(<<>>, drv.answer, {}, FALSE)
    BY <1>2, <1>5, PollRest
  <2>2. /\ chip'.irq = {} /\ chip'.latched = {}
        /\ chip'.mode = chip.mode /\ chip'.mask = chip.mask /\ sw' = sw
    BY <1>2, <1>5 DEF Done
  <2>3. Flagged(chip') /\ Quiet(chip, chip') /\ ~Noisy(chip')
    BY <2>2 DEF Flagged, Quiet, Noisy
  <2>4. drv.answer \in Packet \cup {Junk, "none", "error"}
    BY <1>1 DEF Truthful, RadioTyped, ChipType
  <2>5. Found(chip, sw, drv.answer, drv.bad \cup {})
    BY <1>1, <1>3 DEF Truthful, Found
  <2>6. drv.answer = "none" => chip'.latched = chip.latched /\ Noisy(chip') = Noisy(chip)
    <3>1. "none" \notin chip.latched
      BY <1>1, RadioAssumption DEF RadioTyped, ChipType
    <3>2. drv.answer = "none" => chip.latched = {} /\ ~Noisy(chip)
      BY <1>1, <3>1 DEF Truthful
    <3>3. QED
      BY <2>2, <2>3, <3>2 DEF Noisy
  <2>7. drv.answer # "none" => chip'.latched = {} /\ Noisy(chip') = FALSE
    BY <2>2, <2>3 DEF Noisy
  <2>8. QED
    BY <2>1, <2>2, <2>3, <2>4, <2>5, <2>6, <2>7, PollEnds
<1>6. QED
  BY <1>4, <1>5

\* A command of it fails.
LEMMA PollFails ==
  ASSUME CInv, RadioTyped', drv.call = "poll", Fail
  PROVE  KInv' /\ (Contract!Next \/ UNCHANGED Contract!vars)
<1> DEFINE s == Head(drv.todo)
           todo == IF Stops(s) THEN AfterStop(s) ELSE Rest
<1>1. /\ chip' = IF s = "reset" THEN Effect(s) ELSE chip
      /\ GoOn(todo, AnswerAt(s), {s}, InBringUp /\ Stops(s)) /\ UNCHANGED sw
  BY DEF Fail
<1>2. /\ s \in {"dio", "irq", "buf_status", "read", "pkt_status", "clear"}
      /\ Rest \in Seq(Cmd) /\ LeftIn("poll", Rest)
      /\ s = "clear" => Rest = <<>>
      /\ s = "pkt_status" => Rest # <<>> /\ Head(Rest) \in {"read", "pkt_status", "clear"}
  BY PollRest
<1>3. Stops(s) <=> s \in {"dio", "irq", "buf_status", "read"}
  BY <1>2 DEF Stops, InBringUp
<1>4. /\ RadioTyped /\ Flagged(chip)
      /\ s \in {"pkt_status", "clear"} => Truthful(chip, sw, drv.answer, drv.bad)
  BY DEF CInv, RInv, KInv, Polling
<1>5. chip' = chip
  BY <1>1, <1>2
<1>6. Quiet(chip, chip') /\ Flagged(chip')
  BY <1>4, <1>5 DEF Quiet
<1>7. drv.bad \cup {s} # {}
  OBVIOUS
<1>8. /\ Truthful(chip, sw, drv.answer, drv.bad) => Truthful(chip, sw, drv.answer, drv.bad \cup {s})
      /\ Truthful(chip, sw, "error", drv.bad \cup {s})
      /\ Found(chip, sw, "error", drv.bad \cup {s})
      /\ Truthful(chip, sw, drv.answer, drv.bad) => Found(chip, sw, drv.answer, drv.bad \cup {s})
      /\ Truthful(chip, sw, drv.answer, drv.bad) => drv.answer \in Packet \cup {Junk, "none", "error"}
  BY <1>4, <1>7 DEF Truthful, Found, RadioTyped, ChipType
<1>9. PICK cut : GoOn(todo, AnswerAt(s), {s}, cut)
  BY <1>1
<1>10. CASE s \in {"dio", "irq"}
  <2>1. AnswerAt(s) = "error" /\ todo = <<>>
    BY <1>3, <1>10 DEF AnswerAt, AfterStop
  <2>2. GoOn(<<>>, "error", {s}, cut)
    BY <1>9, <2>1
  <2> HIDE DEF s, todo
  <2>3. QED
    BY <1>6, <1>7, <1>8, <2>2, PollEnds
<1>11. CASE s \in {"buf_status", "read"}
  <2>1. AnswerAt(s) = "error" /\ todo = <<"clear">>
    BY <1>3, <1>11 DEF AnswerAt, AfterStop
  <2>2. PICK t : t = <<"clear">>
    OBVIOUS
  <2>3. t \in Seq(Cmd) /\ t # <<>> /\ Head(t) = "clear" /\ LeftIn("poll", t)
    BY <2>2, FetchEnds
  <2>4. GoOn(t, "error", {s}, cut)
    BY <1>9, <2>1, <2>2
  <2> HIDE DEF s, todo
  <2>5. Polling(Head(t), chip, sw, "error", drv.bad \cup {s})
    BY <1>8, <2>3 DEF Polling
  <2>6. QED
    BY <1>1, <1>5, <2>3, <2>4, <2>5, PollGoesOn
<1>12. CASE s = "pkt_status"
  <2>1. AnswerAt(s) = drv.answer /\ todo = Rest
    BY <1>3, <1>12 DEF AnswerAt
  <2>2. GoOn(Rest, drv.answer, {s}, cut)
    BY <1>9, <2>1
  <2> HIDE DEF s, todo
  <2>3. Rest # <<>> /\ Polling(Head(Rest), chip, sw, drv.answer, drv.bad \cup {s})
    BY <1>2, <1>4, <1>8, <1>12 DEF Polling
  <2>4. QED
    BY <1>1, <1>2, <1>5, <2>2, <2>3, PollGoesOn
<1>13. CASE s = "clear"
  <2>1. AnswerAt(s) = drv.answer /\ todo = <<>>
    BY <1>2, <1>3, <1>13 DEF AnswerAt
  <2>2. GoOn(<<>>, drv.answer, {s}, cut)
    BY <1>9, <2>1
  <2> HIDE DEF s, todo
  <2>3. QED
    BY <1>4, <1>6, <1>7, <1>8, <1>13, <2>2, PollEnds
<1>14. QED
  BY <1>2, <1>10, <1>11, <1>12, <1>13

LEMMA PollStepFollows ==
  ASSUME CInv, RadioTyped', drv.call = "poll", Step
  PROVE  KInv' /\ (Contract!Next \/ UNCHANGED Contract!vars)
<1>1. Head(drv.todo) \in {"dio", "irq", "buf_status", "read", "pkt_status", "clear"}
  BY PollRest
<1>2. CASE Head(drv.todo) \in Reads /\ ReadStep
  BY <1>2, DioFollows, IrqFollows, BufferFollows DEF Reads
<1>3. CASE Head(drv.todo) \notin Reads \cup Awaits \cup Switches \cup {"errors"} /\ Command
  BY <1>1, <1>3, FetchFollows DEF Reads
<1>4. QED
  BY <1>1, <1>2, <1>3 DEF Step, Awaits, Switches

\* Every step of the driver and of the chip is one the contract allows.
LEMMA ContractNext ==
  CInv /\ [RadioNext]_radioVars => CInv' /\ [Contract!Next]_(Contract!vars)
<1> SUFFICES ASSUME CInv, [RadioNext]_radioVars
             PROVE  CInv' /\ (Contract!Next \/ UNCHANGED Contract!vars)
  OBVIOUS
<1>1. RInv' /\ RadioTyped'
  BY RInvNext DEF CInv, RInv
<1>2. CASE drv.call = "poll" /\ (Step \/ Fail)
  BY <1>1, <1>2, PollStepFollows, PollFails DEF CInv
<1>3. CASE drv.call \notin {"none", "poll"} /\ (Step \/ Fail)
  BY <1>1, <1>3, StepFollows, FailFollows DEF CInv
<1>4. Step \/ Fail => drv.call # "none"
  BY DEF Step, Fail
<1>5. CASE Caller
  BY <1>1, <1>5, CallerFollows DEF CInv
<1>6. CASE (\E p \in Packet : Receive(p)) \/ ReceiveNoise \/ TxDone \/ CadDone
  BY <1>1, <1>6, ReceiveFollows, NoiseFollows, TxDoneFollows, CadDoneFollows DEF CInv
<1>7. CASE UNCHANGED radioVars
  BY <1>1, <1>7, Unseen DEF radioVars, CInv
<1>8. QED
  BY <1>2, <1>3, <1>4, <1>5, <1>6, <1>7 DEF RadioNext

(* The driver keeps the safety half of its contract: a poll hands out a    *)
(* packet the radio heard, at most once, and says "none" only where there  *)
(* is none; "sent" was on the air; and a call whose commands all worked    *)
(* leaves the radio as its callers expect, whatever commands fail and      *)
(* whatever arrives between them (sx126x_poll_rx, sx126x_transmit,         *)
(* sx126x_channel_busy, sx126x_reinit).                                    *)
THEOREM RadioKeepsContract == RadioSpec => Contract!Safe
<1>1. RadioInit => CInv /\ Contract!Init
  BY RInvInit, CallInitially DEF CInv
<1>2. CInv /\ [RadioNext]_radioVars => CInv' /\ [Contract!Next]_(Contract!vars)
  BY ContractNext
<1>3. QED
  BY <1>1, <1>2, PTL DEF RadioSpec, Contract!Safe
=============================================================================
