------------------------------ MODULE MCParts ------------------------------
(***************************************************************************)
(* Small instances of the parts around the mesh: the dedup ring alone, the *)
(* ways into it, the radio driver, the control port and the node's files.  *)
(* They share no variable, so nothing is gained from their interleavings:  *)
(* a behaviour runs one part, and the others keep their initial state.     *)
(***************************************************************************)
EXTENDS Ingress, Sx126x, Console, Settings

VARIABLE part

\* What the monitors of the small instance ask for, and what happens.
MCTarget == {[kind |-> k, name |-> "#x"] : k \in {"all", "room", "drop"}}
MCEvent == {[kind |-> k, name |-> "#x"] : k \in {"public", "room", "drop"}}

partsVars == <<part, ingressVars, radioVars, consoleVars, settingsVars>>
Others(p) ==
  /\ IF p \in {"ring", "ears", "hub"} THEN TRUE ELSE UNCHANGED ingressVars
  /\ IF p = "radio" THEN TRUE ELSE UNCHANGED radioVars
  /\ IF p = "console" THEN TRUE ELSE UNCHANGED consoleVars
  /\ IF p = "settings" THEN TRUE ELSE UNCHANGED settingsVars
  /\ UNCHANGED part

\* The ring as such is called more often than a run of the ears or the hub
\* calls it; for the token bucket one frame and a garbled one are enough.
OneFrame == CHOOSE h \in Hash : TRUE
RingStep ==
  /\ part = "ring" /\ Next
  /\ UNCHANGED <<clock, loop, linkVars, hubVars>> /\ Others("ring")
EarsStep == part = "ears" /\ Len(ring.log) < MaxLog - 2 /\ (EarsNext \/ LoopNext) /\ Others("ears")
HubStep ==
  /\ part = "hub" /\ (OwnRadio \/ SetRate \/ LoopNext \/ \E f \in Frame \cap {OneFrame, Garbled} : OnFrame(f))
  /\ ring'.log \in {<<>>, <<[hash |-> OneFrame, src |-> CHOOSE s \in Source : TRUE]>>}
  /\ Others("hub")
RadioStep == part = "radio" /\ RadioNext /\ Others("radio")
ConsoleStep == part = "console" /\ ConsoleNext /\ Others("console")
SettingsStep == part = "settings" /\ SettingsNext /\ Others("settings")

PartsInit ==
  /\ part \in {"ring", "ears", "hub", "radio", "console", "settings"}
  /\ IngressInit /\ RadioInit /\ ConsoleInit /\ SettingsInit
  /\ part # "hub" => rate = Top
  /\ part # "radio" => board /\ gcfg.power = CHOOSE p \in Power : TRUE
  /\ part # "settings" => want.conf.link_mode = "off"

PartsNext == RingStep \/ EarsStep \/ HubStep \/ RadioStep \/ ConsoleStep \/ SettingsStep

PartsSpec ==
  /\ PartsInit /\ [][PartsNext]_partsVars
  /\ WF_partsVars(part = "radio" /\ Step /\ Others("radio"))
  /\ WF_partsVars(part = "console" /\ ConsoleLoop /\ Others("console"))

\* The variables of every part have their types.
PartsTypeOK == IngressTypeOK /\ RadioTypeOK /\ ConsoleTypeOK /\ SettingsTypeOK
============================================================================
