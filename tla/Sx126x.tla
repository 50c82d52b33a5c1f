------------------------------ MODULE Sx126x ------------------------------
(***************************************************************************)
(* The SX1268 driver: each of its functions is the list of commands it     *)
(* sends, one SPI exchange per step, with the chip working in between and  *)
(* any command able to fail. The main loop calls them as mesh_service_tx   *)
(* and the CLI do. It implements Radio.                                    *)
(***************************************************************************)
EXTENDS Naturals, Sequences, FiniteSets

CONSTANTS
  Packet,     \* what another station sends
  Junk,       \* the bytes of a corrupt packet
  Payload,    \* what the mesh transmits
  Power,      \* transmit powers
  MaxRx, MaxFault, MaxRetune  \* bounds of the runs: arrivals, failed commands, retunes

\* What a poll returns without a packet is not one.
ASSUME RadioAssumption == "none" \notin Packet \cup {Junk}

VARIABLES
  chip,       \* the chip: mode, latched and enabled interrupts, registers, packets
  sw,         \* the antenna switch: "off", "rx" or "tx"
  gcfg,       \* g_cfg: the settings the driver believes the chip has
  asked,      \* the settings its callers asked for
  unwritten,  \* registers whose last write failed or was never reached; the clock also
              \* if the probe that would have corrected it was not
  drv,        \* the call that runs: what is left of it and what it found
  turn,       \* what the main loop calls next
  board,      \* whether the board has a TCXO
  used        \* how much of each bound is used

radioVars == <<chip, sw, gcfg, asked, unwritten, drv, turn, board, used>>

----------------------------------------------------------------------------
\* The functions, as the commands they send.

\* A faulty return to reception that does not stop the chip first.
StartRxHot == <<"clear", "mask_rx", "sw_rx", "set_rx">>
StartRx == <<"standby", "clear", "mask_rx", "sw_rx", "set_rx">>
PollRx == <<"dio", "irq">>
ChannelBusy ==
  <<"standby", "clear", "mask_cad", "cad_params", "sw_rx", "set_cad", "await_cad", "clear", "sw_off">>
SetTxPower == <<"standby", "power">>
\* A faulty transmission that leaves the radio in standby.
TransmitDeaf ==
  <<"standby", "clear", "length", "base", "write", "mask_tx", "sw_tx", "set_tx", "await_tx",
    "clear", "sw_off">>
Transmit ==
  <<"standby", "clear", "length", "base", "write", "mask_tx", "sw_tx", "set_tx", "await_tx",
    "clear", "sw_off">> \o StartRx
SetModem == <<"standby", "power", "modem", "packet">> \o StartRx
SetFrequency == <<"standby", "freq", "image">> \o StartRx
Standby == <<"standby", "sw_off">>

\* init_sequence; the oscillator is probed only if the settings name a TCXO.
InitSequence(tcxo) ==
  <<"sw_off", "reset", "standby", "regulator", "clear_errors">>
  \o (IF tcxo THEN <<"tcxo", "calibrate", "standby", "errors">> ELSE <<>>)
  \o <<"type", "freq", "image", "pa", "power", "modem", "packet", "sync", "base">>

\* sx126x_init, then sx126x_start_rx.
BringUp(tcxo) == InitSequence(tcxo) \o StartRx

\* The settings a command writes, and what it writes there.
Writes(s) ==
  CASE s = "freq" -> {"freq"} [] s = "modem" -> {"modem"} [] s = "power" -> {"power"}
    [] s = "tcxo" -> {"clock"} [] s = "packet" -> {"packet", "length"}
    [] s = "length" -> {"packet", "length"} [] s = "write" -> {"buffer"}
    [] s = "sync" -> {"sync"} [] OTHER -> {}
Register == {"freq", "modem", "power", "clock", "packet", "length", "buffer", "sync"}
Unset == 0          \* a register after the reset
Longest == 255      \* the length accepted in reception

Value(s, r) ==
  CASE r \in {"freq", "modem", "packet"} -> gcfg.tuning
    [] r = "power" -> gcfg.power
    [] r = "length" -> IF s = "length" THEN asked.payload ELSE Longest
    [] r = "buffer" -> asked.payload
    [] OTHER -> 1

\* What a register must hold when the chip goes on air.
Wanted(r) ==
  CASE r \in {"freq", "modem", "packet"} -> asked.tuning
    [] r = "power" -> asked.power
    [] r \in {"length", "buffer"} -> asked.payload
    [] r = "clock" -> IF board THEN 1 ELSE Unset
    [] OTHER -> 1

RxMask == {"rx_done", "crc_err", "hdr_err"}
Mask(s) ==
  CASE s = "mask_rx" -> RxMask
    [] s = "mask_tx" -> {"tx_done", "timeout"}
    [] s = "mask_cad" -> {"cad_done", "cad_detected"}
Dio1 == chip.irq \cap chip.mask # {}
Latch(events) == chip.irq \cup (events \cap chip.mask)

----------------------------------------------------------------------------
\* The chip and the air.

\* What a command does to the chip.
Effect(s) ==
  CASE s = "standby" -> [chip EXCEPT !.mode = "standby"]
    [] s = "clear" -> [chip EXCEPT !.irq = {}, !.latched = {}, !.rx = "none"]
    [] s \in {"mask_rx", "mask_tx", "mask_cad"} -> [chip EXCEPT !.mask = Mask(s)]
    [] s = "set_rx" -> [chip EXCEPT !.mode = "rx"]
    [] s = "set_tx" -> [chip EXCEPT !.mode = "tx"]
    [] s = "set_cad" -> [chip EXCEPT !.mode = "cad"]
    [] s = "reset" -> [chip EXCEPT !.mode = "standby", !.irq = {}, !.mask = {}, !.latched = {}, !.rx = "none",
                                   !.reg = [r \in Register |-> Unset]]
    [] OTHER -> [chip EXCEPT !.reg = [r \in Register |-> IF r \in Writes(s) THEN Value(s, r) ELSE @[r]]]

Attentive == chip.mode = "rx" /\ chip.mask = RxMask /\ sw = "rx"

Receive(p) ==
  /\ Attentive /\ used.rx < MaxRx
  /\ chip' = [chip EXCEPT !.irq = Latch({"rx_done"}), !.latched = @ \cup {p}, !.rx = p]
  /\ used' = [used EXCEPT !.rx = @ + 1]
  /\ UNCHANGED <<sw, gcfg, asked, unwritten, drv, turn, board>>

\* A corrupt packet: its bytes are in the chip's memory too. Or a header alone.
ReceiveNoise ==
  /\ Attentive /\ used.rx < MaxRx
  /\ \/ chip' = [chip EXCEPT !.irq = Latch({"rx_done", "crc_err"}), !.rx = Junk,
                             !.latched = IF drv.call = "poll" THEN @ \cup {Junk} ELSE @]
     \/ chip' = [chip EXCEPT !.irq = Latch({"hdr_err"})]
  /\ used' = [used EXCEPT !.rx = @ + 1]
  /\ UNCHANGED <<sw, gcfg, asked, unwritten, drv, turn, board>>

TxDone ==
  /\ chip.mode = "tx"
  /\ chip' = [chip EXCEPT !.mode = "standby", !.irq = Latch({"tx_done"})]
  /\ drv' = [drv EXCEPT !.onair = @ \/ drv.call = "send"]
  /\ UNCHANGED <<sw, gcfg, asked, unwritten, turn, board, used>>

CadDone ==
  /\ chip.mode = "cad"
  /\ \E found \in {{}, {"cad_detected"}} :
       chip' = [chip EXCEPT !.mode = "standby", !.irq = Latch({"cad_done"} \cup found)]
  /\ UNCHANGED <<sw, gcfg, asked, unwritten, drv, turn, board, used>>

----------------------------------------------------------------------------
\* The driver, a step of the call that runs at a time.

\* No call runs.
Idle == [call |-> "none", todo |-> <<>>, answer |-> "none", bad |-> {}, onair |-> FALSE]

Rest == Tail(drv.todo)
WrittenBy(steps) == UNION {Writes(steps[i]) : i \in 1..Len(steps)}

\* What the main loop calls after this call has answered a; cut: a bring-up
\* stopped half way, which ends the process only at its start.
NextTurn(a, cut) ==
  CASE drv.call = "poll" -> "due"
    [] drv.call = "sense" -> IF a = "busy" THEN "cli" ELSE "power"
    [] drv.call = "power" -> "send"
    [] drv.call = "send" -> IF a = "failed" THEN "reinit" ELSE "cli"
    [] drv.call = "reset" -> IF turn = "reinit" THEN "cli" ELSE IF cut THEN "boot" ELSE "poll"
    [] drv.call = "retune" -> "poll"
    [] drv.call = "stop" -> "boot"

\* The call goes on with the steps todo, or returns a when there are none left.
GoOn(todo, a, failed, cut) ==
  LET over == todo = <<>>
  IN /\ drv' = IF over THEN [Idle EXCEPT !.answer = a, !.bad = drv.bad \cup failed]
               ELSE [drv EXCEPT !.todo = todo, !.answer = a, !.bad = @ \cup failed]
     /\ turn' = IF over THEN NextTurn(a, cut) ELSE turn

Next1(a) == GoOn(Rest, a, {}, FALSE)

\* The steps that read the chip: what they find decides how the call goes on.
ReadStep ==
  /\ UNCHANGED <<chip, sw, gcfg, asked, unwritten, board, used>>
  /\ CASE Head(drv.todo) = "dio" -> IF Dio1 THEN Next1("none") ELSE GoOn(<<>>, "none", {}, FALSE)
       [] Head(drv.todo) = "irq" ->
            IF {"rx_done", "crc_err"} \subseteq chip.irq
              THEN GoOn(<<"pkt_status", "clear">>, "error", {}, FALSE)
            ELSE IF "rx_done" \in chip.irq
              THEN GoOn(<<"buf_status", "read", "pkt_status", "clear">>, "none", {}, FALSE)
            ELSE GoOn(<<"clear">>, IF "hdr_err" \in chip.irq THEN "error" ELSE "none", {}, FALSE)
       [] Head(drv.todo) = "buf_status" -> Next1(chip.rx)

\* Waiting for the end of a transmission or of a channel check: DIO1 and the
\* flag, or the software's own deadline.
Await ==
  /\ UNCHANGED <<chip, sw, gcfg, asked, unwritten, board, used>>
  /\ CASE Head(drv.todo) = "await_tx" ->
            IF Dio1 /\ "tx_done" \in chip.irq THEN Next1("sent") ELSE Next1("failed")
       [] Head(drv.todo) = "await_cad" ->
            Next1(IF Dio1 /\ {"cad_done", "cad_detected"} \subseteq chip.irq THEN "busy" ELSE "clear")

\* The antenna switch has GPIO lines of its own.
Switch ==
  /\ sw' = CASE Head(drv.todo) = "sw_rx" -> "rx" [] Head(drv.todo) = "sw_tx" -> "tx"
             [] Head(drv.todo) = "sw_off" -> "off"
  /\ Next1(drv.answer)
  /\ UNCHANGED <<chip, gcfg, asked, unwritten, board, used>>

\* After the calibration: the oscillator did not start, so there is no TCXO.
\* The bring-up starts again without one, and so will the later ones.
ProbeClock ==
  IF board THEN /\ Next1(drv.answer) /\ UNCHANGED gcfg
  ELSE /\ gcfg' = [gcfg EXCEPT !.tcxo = FALSE]
       /\ GoOn(BringUp(FALSE), drv.answer, {}, FALSE)

Probe ==
  /\ ProbeClock
  /\ UNCHANGED <<chip, sw, asked, unwritten, board, used>>

\* Any other command reaches the chip.
Command ==
  /\ chip' = Effect(Head(drv.todo))
  /\ unwritten' = unwritten \ Writes(Head(drv.todo))
  /\ Next1(drv.answer)
  /\ UNCHANGED <<sw, gcfg, asked, board, used>>

Reads == {"dio", "irq", "buf_status"}
Awaits == {"await_tx", "await_cad"}
Switches == {"sw_rx", "sw_tx", "sw_off"}

Step ==
  /\ drv.call # "none"
  /\ \/ Head(drv.todo) \in Reads /\ ReadStep
     \/ Head(drv.todo) \in Awaits /\ Await
     \/ Head(drv.todo) \in Switches /\ Switch
     \/ Head(drv.todo) = "errors" /\ Probe
     \/ Head(drv.todo) \notin Reads \cup Awaits \cup Switches \cup {"errors"} /\ Command

----------------------------------------------------------------------------
\* A command fails: BUSY stays high or the SPI transfer is refused.

InBringUp == drv.call = "reset" /\ Len(drv.todo) > Len(StartRx)

\* The failures a function returns at; it ignores every other one.
Stops(s) ==
  \/ InBringUp /\ s \notin {"clear_errors", "errors"}
  \/ drv.call = "retune" /\ s \in {"modem", "packet", "freq", "image", "set_rx"}
  \/ drv.call = "poll" /\ s \in {"dio", "irq", "buf_status", "read"}
  \/ drv.call = "send" /\ s \in {"write", "set_tx"}

\* What it still does then.
AfterStop(s) ==
  CASE drv.call = "poll" /\ s \in {"buf_status", "read"} -> <<"clear">>
    [] drv.call = "send" /\ s = "set_tx" -> <<"sw_off">> \o StartRx
    [] OTHER -> <<>>

AnswerAt(s) ==
  CASE drv.call = "poll" /\ Stops(s) -> "error"
    [] drv.call = "send" /\ Stops(s) -> "failed"
    [] OTHER -> drv.answer

\* What is left of the call would find out that the board has no TCXO.
ProbeAhead == \E i \in 1..Len(Rest) : Rest[i] = "errors"

Fail ==
  /\ drv.call # "none" /\ used.fault < MaxFault
  /\ LET s == Head(drv.todo)
         todo == IF Stops(s) THEN AfterStop(s) ELSE Rest
     IN /\ s \notin Awaits \cup Switches
        /\ chip' = IF s = "reset" THEN Effect(s) ELSE chip
        /\ unwritten' = unwritten \cup Writes(s)
             \cup (IF Stops(s) THEN WrittenBy(Rest) ELSE {})
             \cup (IF ~board /\ (s = "errors" \/ (Stops(s) /\ ProbeAhead)) THEN {"clock"} ELSE {})
        /\ GoOn(todo, AnswerAt(s), {s}, InBringUp /\ Stops(s))
  /\ used' = [used EXCEPT !.fault = @ + 1]
  /\ UNCHANGED <<sw, gcfg, asked, board>>

----------------------------------------------------------------------------
\* The callers: main's loop, mesh_service_tx and the CLI.

Starts(c, todo, a) ==
  /\ drv' = [Idle EXCEPT !.call = c, !.todo = todo, !.answer = a]
  /\ UNCHANGED <<chip, sw, unwritten, turn, board>>

\* The process starts with the configuration's power and the settings last set.
CallInit ==
  /\ turn = "boot"
  /\ \E p \in Power :
       /\ asked' = [asked EXCEPT !.power = p]
       /\ gcfg' = [tcxo |-> TRUE, tuning |-> asked.tuning, power |-> p]
  /\ Starts("reset", BringUp(TRUE), "done")
  /\ UNCHANGED used

CallPoll == turn = "poll" /\ Starts("poll", PollRx, "none") /\ UNCHANGED <<gcfg, asked, used>>

\* A packet is due; the channel is checked first if use_cad is set.
CallChannelBusy ==
  turn = "due" /\ Starts("sense", ChannelBusy, "clear") /\ UNCHANGED <<gcfg, asked, used>>

\* A faulty sx126x_set_tx_power that does not remember what it has set.
CallSetTxPowerForgets ==
  /\ turn \in {"due", "power"}
  /\ \E p \in Power :
       /\ asked' = [asked EXCEPT !.power = p] /\ UNCHANGED gcfg
       /\ IF p = gcfg.power
            THEN turn' = "send" /\ UNCHANGED <<chip, sw, unwritten, drv, board>>
            ELSE Starts("power", SetTxPower, "done")
  /\ UNCHANGED used

\* Each packet has its own power; an unchanged one leaves the chip alone.
CallSetTxPower ==
  /\ turn \in {"due", "power"}
  /\ \E p \in Power :
       /\ asked' = [asked EXCEPT !.power = p]
       /\ gcfg' = [gcfg EXCEPT !.power = p]
       /\ IF p = gcfg.power
            THEN turn' = "send" /\ UNCHANGED <<chip, sw, unwritten, drv, board>>
            ELSE Starts("power", SetTxPower, "done")
  /\ UNCHANGED used

CallTransmit ==
  /\ turn = "send"
  /\ \E m \in Payload : asked' = [asked EXCEPT !.payload = m]
  /\ Starts("send", Transmit, "failed") /\ UNCHANGED <<gcfg, used>>

\* A transmission failed: the chip is reset and set up again from g_cfg.
CallReinit ==
  /\ turn = "reinit"
  /\ Starts("reset", BringUp(gcfg.tcxo), "done") /\ UNCHANGED <<gcfg, asked, used>>

\* A live change of a radio setting (apply_radio): modem, power and frequency.
CallRetune ==
  /\ turn = "cli" /\ used.retune < MaxRetune
  /\ \E p \in Power :
       LET v == asked.tuning + 1
       IN /\ asked' = [asked EXCEPT !.tuning = v, !.power = p]
          /\ gcfg' = [gcfg EXCEPT !.tuning = v, !.power = p]
  /\ Starts("retune", SetModem \o SetFrequency, "done")
  /\ used' = [used EXCEPT !.retune = @ + 1]

\* The process ends; systemd starts it again.
CallStandby == turn = "cli" /\ Starts("stop", Standby, "done") /\ UNCHANGED <<gcfg, asked, used>>

Nothing ==
  /\ turn \in {"due", "cli"}
  /\ turn' = IF turn = "due" THEN "cli" ELSE "poll"
  /\ UNCHANGED <<chip, sw, gcfg, asked, unwritten, drv, board, used>>

Caller ==
  /\ drv.call = "none"
  /\ \/ CallInit \/ CallPoll \/ CallChannelBusy \/ CallSetTxPower \/ CallTransmit
     \/ CallReinit \/ CallRetune \/ CallStandby \/ Nothing

RadioInit ==
  /\ chip = [mode |-> "standby", irq |-> {}, mask |-> {}, latched |-> {}, rx |-> "none",
             reg |-> [r \in Register |-> Unset]]
  /\ sw = "off" /\ unwritten = {} /\ turn = "boot" /\ board \in BOOLEAN
  /\ \E p \in Power : /\ gcfg = [tcxo |-> TRUE, tuning |-> 1, power |-> p]
                      /\ asked = [tuning |-> 1, power |-> p, payload |-> Unset]
  /\ drv = Idle
  /\ used = [rx |-> 0, fault |-> 0, retune |-> 0]

RadioNext ==
  \/ Step \/ Fail \/ Caller
  \/ \E p \in Packet : Receive(p)
  \/ ReceiveNoise \/ TxDone \/ CadDone

RadioSpec == RadioInit /\ [][RadioNext]_radioVars /\ WF_radioVars(Step)

----------------------------------------------------------------------------
\* The variables have their types.
RadioTypeOK ==
  /\ chip.mode \in {"standby", "rx", "tx", "cad"} /\ sw \in {"off", "rx", "tx"}
  /\ chip.latched \subseteq Packet \cup {Junk} /\ unwritten \subseteq Register
  /\ turn \in {"boot", "poll", "due", "power", "send", "reinit", "cli"}
  /\ (drv.call = "none") <=> (drv.todo = <<>>)

\* The chip receives, yet nothing would get through.
ModeOf == IF chip.mode = "rx" /\ ~Attentive THEN "deaf" ELSE chip.mode

Contract == INSTANCE Radio WITH
  call <- drv.call, mode <- ModeOf, heard <- chip.latched,
  noisy <- chip.irq \cap {"crc_err", "hdr_err"} # {}, onair <- drv.onair,
  bad <- drv.bad # {}, out <- IF drv.call = "none" THEN drv.answer ELSE "none"

\* The driver keeps its contract: a poll loses nothing it could have delivered
\* and delivers nothing twice, "sent" means sent, and a call whose commands all
\* worked leaves the radio listening or standing by as its callers expect; and
\* every call returns, for the main loop has no other thread (sx126x_poll_rx,
\* sx126x_transmit, sx126x_channel_busy, sx126x_reinit).
ImplementsRadio == Contract!Spec

\* The antenna is never switched to the receiver while the chip transmits, nor
\* the chip set to transmit into it, unless the chip refused to stop: the
\* software deadline of sx126x_transmit runs out with the chip still on air.
SwitchSafe ==
  [][(chip'.mode = "tx" /\ sw' = "rx") =>
       (chip.mode = "tx" /\ sw = "rx") \/ "standby" \in drv'.bad]_radioVars

\* A packet goes on air with the settings, the power and the bytes its callers
\* asked for last, through resets, retunes and the cached power of
\* sx126x_set_tx_power, except where the last write of a register failed.
SentAsAsked ==
  [][(chip'.mode = "tx" /\ chip.mode # "tx") =>
       \A r \in Register \ unwritten : chip.reg[r] = Wanted(r)]_radioVars

============================================================================
