------------------------------ MODULE Settings ------------------------------
(***************************************************************************)
(* The two files a node keeps of its own, the configuration and the        *)
(* identity, from one start to the next: both are rewritten in place, any  *)
(* write may be cut by a crash or a full disk, the operator changes and    *)
(* saves settings, and every start reads what is there. One key stands for *)
(* each kind of setting: tx_power for checked numbers and flags, latitude  *)
(* for numbers printed with fewer digits than they have, aprs_comment for  *)
(* free text, blacklist for the lists.                                     *)
(***************************************************************************)
EXTENDS Naturals, SequencesExt, FiniteSets

CONSTANTS
  Banned,                          \* names an operator may blacklist
  MaxBlacklist,                    \* MC_MAX_BLACKLIST
  MaxSets, MaxSaves, MaxStarts     \* bounds of the runs

ASSUME SettingsAssumption == {MaxBlacklist, MaxSets, MaxSaves, MaxStarts} \subseteq Nat

VARIABLES
  conf,     \* mc_config_t
  disk,     \* the configuration file: lines, the last one perhaps cut
  keyfile,  \* the identity in each key file, NoKey if it has none whole
  node,     \* the process: where its start is, its identity, rx_node
  want,     \* history: the settings of the last save, and how many lines got written
  start,    \* history: the settings this process read, and want at that time
  onair,    \* history: the identities used on air, each with the key file meant
  hurt,     \* history: a write was cut or refused
  spent     \* how much of each bound is used

settingsVars == <<conf, disk, keyfile, node, want, start, onair, hurt, spent>>

----------------------------------------------------------------------------
\* The settings.

Path == {"repeater.key", "own.key", "stub", ""}
Unwritable == {""}
NoKey == 0

Defaults ==
  [tx_power |-> 22, key_file |-> "repeater.key", location |-> FALSE, latitude |-> 0,
   aprs_comment |-> "plain", link_mode |-> "off", link_key |-> "", blacklist |-> <<>>]

\* What config_set accepts; anything else leaves the settings alone.
Legal(k) ==
  CASE k = "tx_power" -> {2, 22} [] k = "key_file" -> Path [] k = "location" -> BOOLEAN
    [] k = "latitude" -> {0, 4, 5} [] k = "aprs_comment" -> {"plain", "R", "R#", ""}
    [] k = "link_mode" -> {"off", "rx", "tx"} [] k = "link_key" -> {"", "secret", "stub"}
    [] k = "blacklist" -> Banned \cup {"stub"}

\* config_blacklist_add: no duplicates, and no more than the table holds.
Listed(l, v) == \E i \in 1..Len(l) : l[i] = v
BlacklistAdd(l, v) == IF Listed(l, v) \/ Len(l) >= MaxBlacklist THEN l ELSE Append(l, v)
BlacklistRemove(l, v) ==
  IF Listed(l, v) THEN RemoveAt(l, CHOOSE i \in 1..Len(l) : l[i] = v) ELSE l

\* config_set: a coordinate also switches the location on.
ConfigSet(c, k, v) ==
  IF v \notin Legal(k) THEN c
  ELSE CASE k = "latitude" -> [c EXCEPT !.latitude = v, !.location = TRUE]
         [] k = "blacklist" -> [c EXCEPT !.blacklist = BlacklistAdd(@, v)]
         [] OTHER -> [c EXCEPT ![k] = v]

\* config_get: coordinates are printed to six digits, here 5 to 4.
Printed(k, v) == IF k = "latitude" /\ v = 5 THEN 4 ELSE v

\* How a line's value reads: '#' starts a comment.
Uncommented(k, v) == IF k = "aprs_comment" /\ v = "R#" THEN "R" ELSE v

\* What a line cut short may read as.
Stubs(k, v) ==
  CASE k = "tx_power" -> IF v = 22 THEN {2} ELSE {}
    [] k = "key_file" -> {"stub", ""} [] k = "aprs_comment" -> {""}
    [] k = "link_key" -> {"stub", ""} [] k = "blacklist" -> {"stub"}
    [] OTHER -> {}

\* A faulty list, without the name of the key file.
OrderedNoKeyFile == <<"tx_power", "location", "latitude", "aprs_comment", "link_mode">>

\* The order of the lines config_save writes first (KEYS); the secret and the
\* lists come after them.
Ordered == <<"tx_power", "key_file", "location", "latitude", "aprs_comment", "link_mode">>

\* config_save: a secret only if there is one, and a line for each list entry.
Secret(c) == IF c.link_key = "" THEN <<>> ELSE <<<<"link_key", c.link_key>>>>
Lines(c) ==
  [i \in 1..Len(Ordered) |-> <<Ordered[i], Printed(Ordered[i], c[Ordered[i]])>>]
  \o Secret(c) \o [i \in 1..Len(c.blacklist) |-> <<"blacklist", c.blacklist[i]>>]

\* config_load: the lists start empty, a line at a time is applied to what is
\* in memory, so that a key the file lacks keeps the value it had.
ReadLine(c, l) == ConfigSet(c, l[1], Uncommented(l[1], l[2]))
Load(c, lines) == FoldLeft(ReadLine, [c EXCEPT !.blacklist = <<>>], lines)

\* What a write cut after n lines leaves, the next line perhaps begun.
CutAt(lines, n) ==
  {SubSeq(lines, 1, n)} \cup
  (IF n = Len(lines) THEN {}
   ELSE {Append(SubSeq(lines, 1, n), <<lines[n + 1][1], v>>) : v \in Stubs(lines[n + 1][1], lines[n + 1][2])})

----------------------------------------------------------------------------
\* Writing the configuration.

\* config_save got to write n lines; it does not look whether they were written.
Written(c, n) ==
  /\ disk' \in CutAt(Lines(c), n)
  /\ want' = [conf |-> c, lines |-> n]
  /\ hurt' = (hurt \/ n < Len(Lines(c)))
  /\ spent' = [spent EXCEPT !.saves = @ + 1]

\* config_save of c: the whole file, or part of it, on a full disk or because
\* the process ends (Crash), or nothing because it cannot be opened; on a full
\* disk it reports success.
Save(c) ==
  /\ spent.saves < MaxSaves
  /\ \/ \E n \in 0..Len(Lines(c)) : Written(c, n)
     \/ UNCHANGED <<disk, want, hurt>> /\ spent' = [spent EXCEPT !.saves = @ + 1]

Up == node.at = "up"
Fixed == UNCHANGED <<keyfile, node, start, onair>>

\* CLI: set <key> <value>, with a value an operator would type.
Typed(k) ==
  IF k \in {"key_file", "aprs_comment", "link_key", "blacklist"} THEN Legal(k) \ {"stub", ""} ELSE Legal(k)

CliSet ==
  /\ Up /\ spent.sets < MaxSets
  /\ \E k \in DOMAIN Defaults : \E v \in Typed(k) :
       conf' = ConfigSet(conf, k, v) /\ conf' # conf
  /\ spent' = [spent EXCEPT !.sets = @ + 1]
  /\ Fixed /\ UNCHANGED <<disk, want, hurt>>

\* CLI: save.
CliSave == Up /\ Save(conf) /\ Fixed /\ UNCHANGED conf

\* CLI: blacklist add and remove save at once, whatever else was set.
CliBlacklist ==
  /\ Up
  /\ \E v \in Banned : \E l \in {BlacklistAdd(conf.blacklist, v), BlacklistRemove(conf.blacklist, v)} :
       l # conf.blacklist /\ conf' = [conf EXCEPT !.blacklist = l]
  /\ Save(conf') /\ Fixed

\* CLI: reload. No file: nothing is read.
CliReload ==
  /\ Up /\ conf' = Load(conf, disk)
  /\ Fixed /\ UNCHANGED <<disk, want, hurt, spent>>

\* The process ends: its memory is gone, its identity and rx_node too.
Stopped == [at |-> "down", id |-> NoKey, rx |-> FALSE]
Ends == node' = Stopped /\ conf' = Defaults

\* It may end at any time; a save it ends in is one that got no further.
Crash ==
  /\ node.at # "down" /\ Ends
  /\ UNCHANGED <<disk, keyfile, want, start, onair, hurt, spent>>

----------------------------------------------------------------------------
\* The start, in main's order.

\* The settings: defaults, then the file.
StartConfig ==
  /\ node.at = "down" /\ spent.starts < MaxStarts
  /\ conf' = Load(Defaults, disk)
  /\ start' = [conf |-> conf', want |-> want]
  /\ node' = [node EXCEPT !.at = "identity"]
  /\ spent' = [spent EXCEPT !.starts = @ + 1]
  /\ UNCHANGED <<disk, keyfile, want, onair, hurt>>

\* mc_identity_load: a file with both keys; otherwise a new identity is made.
StartIdentity ==
  /\ node.at = "identity"
  /\ IF keyfile[conf.key_file] # NoKey
       THEN node' = [node EXCEPT !.at = "hardware", !.id = keyfile[conf.key_file]]
       ELSE node' = [node EXCEPT !.at = "new", !.id = spent.starts]
  /\ UNCHANGED <<conf, disk, keyfile, want, start, onair, hurt, spent>>

\* A faulty start that does not write the identity it made.
SaveIdentityNever ==
  /\ node.at = "new" /\ node' = [node EXCEPT !.at = "hardware"]
  /\ UNCHANGED <<conf, disk, keyfile, want, start, onair, hurt, spent>>

\* mc_identity_save: it may be refused, or cut by a full disk; the node goes on
\* with the identity in memory. A crash may cut it too.
SaveIdentity ==
  /\ node.at = "new"
  /\ \/ /\ conf.key_file \notin Unwritable
        /\ keyfile' = [keyfile EXCEPT ![conf.key_file] = node.id]
        /\ node' = [node EXCEPT !.at = "hardware"] /\ UNCHANGED <<conf, hurt>>
     \/ /\ hurt' = TRUE /\ UNCHANGED keyfile
        /\ Ends \/ (node' = [node EXCEPT !.at = "hardware"] /\ UNCHANGED conf)
  /\ UNCHANGED <<disk, want, start, onair, spent>>

\* link_init: a link needs its key.
LinkFails == conf.link_mode # "off" /\ conf.link_key = ""

\* A faulty start that goes on without the link, and is an ear only with one.
StartHardwareSoft ==
  /\ node.at = "hardware" /\ node' = [node EXCEPT !.at = "up", !.rx = conf.link_mode = "rx" /\ ~LinkFails]
  /\ UNCHANGED <<conf, disk, keyfile, want, start, onair, hurt, spent>>

\* hal_init, sx126x_init and link_init: main ends if one of them fails. rx_node
\* is what the settings say at this moment, and stays.
StartHardware ==
  /\ node.at = "hardware"
  /\ \/ /\ ~LinkFails /\ node' = [node EXCEPT !.at = "up", !.rx = conf.link_mode = "rx"]
        /\ onair' = IF conf.link_mode = "rx" THEN onair
                    ELSE onair \cup {[file |-> start.want.conf.key_file, id |-> node.id]}
        /\ UNCHANGED conf
     \/ Ends /\ UNCHANGED onair
  /\ UNCHANGED <<disk, keyfile, want, start, hurt, spent>>

\* A node as an operator first installed it.
Installed ==
  {[Defaults EXCEPT !.key_file = "own.key", !.link_mode = m, !.link_key = "secret"] : m \in {"off", "rx"}}

SettingsInit ==
  /\ \E c \in Installed : disk = Lines(c) /\ want = [conf |-> c, lines |-> Len(Lines(c))]
  /\ keyfile = [p \in Path |-> NoKey] /\ node = Stopped /\ conf = Defaults
  /\ start = [conf |-> conf, want |-> want] /\ onair = {} /\ hurt = FALSE
  /\ spent = [sets |-> 0, saves |-> 0, starts |-> 0]

SettingsNext ==
  \/ CliSet \/ CliSave \/ CliBlacklist \/ CliReload \/ Crash
  \/ StartConfig \/ StartIdentity \/ SaveIdentity \/ StartHardware

SettingsSpec == SettingsInit /\ [][SettingsNext]_settingsVars

----------------------------------------------------------------------------
\* The variables have their types.
SettingsTypeOK ==
  /\ \A k \in DOMAIN Defaults \ {"blacklist"} : conf[k] \in Legal(k)
  /\ Len(conf.blacklist) <= MaxBlacklist
  /\ node.at \in {"down", "identity", "new", "hardware", "up"}

\* What a save and a start make of settings: a text ends at its '#', a
\* coordinate loses digits, and a location that was off is on again, because
\* the coordinates after it in the file switch it on.
RoundTrip(c) ==
  [c EXCEPT !.location = TRUE, !.latitude = Printed("latitude", @), !.aprs_comment = Uncommented("aprs_comment", @)]

\* A process starts with the settings last saved, as their lines read back; if
\* that save was cut, each of them has its value, a piece of it, or the default
\* (config_save, config_load, config_set).
SettingsSurvive ==
  node.at # "down" =>
    LET c == start.want.conf
        whole == start.want.lines = Len(Lines(c))
    IN /\ whole => start.conf = RoundTrip(c)
       /\ \A k \in DOMAIN Defaults \ {"blacklist"} :
            start.conf[k] \in {c[k], RoundTrip(c)[k], Defaults[k]} \cup Stubs(k, c[k])

\* A node saved as a receive-only ear transmits only if the line that makes it
\* one was lost with everything after it: a file cut later stops the start
\* instead (main's rx_node, link_init, the order of config_save).
RxNeverTransmits ==
  Up /\ ~node.rx /\ start.want.conf.link_mode = "rx" =>
    start.want.lines < (CHOOSE i \in 1..Len(Ordered) : Ordered[i] = "link_mode")

\* With one key file a node keeps one identity on air from start to start,
\* unless a write of one of its files failed or was cut (mc_identity_load,
\* mc_identity_save, main).
IdentityKept == hurt \/ \A x, y \in onair : x.file = y.file => x.id = y.id
============================================================================
