--------------------------- MODULE CentralPolicy ----------------------------
(***************************************************************************)
(* The hub's sets of rooms and blocks (POLICY): collected page by page     *)
(* (on_policy, backbone.c), merged on top of the node's own rooms          *)
(* (config_set_policy, config_policy_merge), and kept in a file across     *)
(* restarts (config_policy_save, config_policy_load, config.c).            *)
(*                                                                         *)
(* The session under it delivers a page at most once, in any order, or     *)
(* never (Backbone, FrameChannel). A room stands for its name, its region  *)
(* key and its hashtag channel. The hub is external: it numbers its sets   *)
(* by their versions, sends the one it has to every new session and when   *)
(* it changes, and again when a STATUS reports another version.            *)
(***************************************************************************)
EXTENDS Naturals, SequencesExt, FiniteSetsExt

CONSTANTS
  Room,          \* names of rooms
  Block,         \* names and keys that the hub may block
  Itself,        \* the node's own name or key, as a block
  Sets,          \* the sets the hub publishes: each a sequence of pages
  FileRooms,     \* the rooms of the config file at the first start, in order
  Ping,          \* the room whose channel the node always has
  MaxRooms,      \* MC_MAX_ROOMS
  MaxChannels,   \* MC_MAX_PUBLIC_CHANNELS, less the explicit channels of the config file
  MaxFaults,     \* bound: pages and STATUS lost, sessions lost, saves failed, crashes
  MaxCli,        \* bound: commands of the local operator
  MaxSeq         \* bound: the sequence number up to which the hub sends a set again

\* What a page carries: rooms, whose order decides when a table fills, and blocks.
Content == [rooms : Seq(Room), blocks : SUBSET Block]

ASSUME CentralAssumption ==
  /\ Room \cap Block = {} /\ Itself \in Block /\ Ping \in Room
  /\ Sets \in Seq(Seq(Content)) /\ Sets # <<>>
  /\ \A v \in 1..Len(Sets) : Sets[v] # <<>>
  /\ {MaxRooms, MaxChannels, MaxFaults, MaxCli, MaxSeq} \subseteq Nat
  /\ FileRooms \in Seq(Room) /\ IsInjective(FileRooms) /\ Len(FileRooms) <= MaxRooms

VARIABLES
  cfg,      \* mc_config_t: own rooms and channels, the hub's, and the set in force
  col,      \* the pages collected (bb->pol, pol_have, pol_min_seq, pol_max_seq)
  applied,  \* pol_applied_seq
  soon,     \* a STATUS is due at once (backbone_status_soon)
  pc,       \* "loop", or how far a file is written
  disk,     \* the policy file, its temporary file, and the rooms of the config file
  hub,      \* the last set published, the session and its last sequence number
  flight,   \* pages on their way
  asked,    \* history: rooms the operator set, or that the config file brought
  used      \* how much of each bound is used up

vars == <<cfg, col, applied, soon, pc, disk, hub, flight, asked, used>>

Count(what) == used' = [used EXCEPT ![what] = @ + 1]
Fault == used.faults < MaxFaults /\ Count("faults")
----------------------------------------------------------------------------
(* The tables of the configuration.                                        *)

NoPolicy == [version |-> 0, rooms |-> <<>>, blocks |-> {}]

\* The first n elements of S that occur in s.
FirstOf(s, S, n) ==
  {s[i] : i \in {i \in DOMAIN s : s[i] \in S /\ Cardinality(S \cap {s[j] : j \in 1..i}) <= n}}

OwnRooms(c) == ToSet(c.own)

\* A merge that leaves the channels of the last set in place.
MergedOver(c) ==
  LET add == FirstOf(c.policy.rooms, Room \ OwnRooms(c), MaxRooms - Len(c.own))
  IN [c EXCEPT !.hub = add, !.hubch = @ \cup (add \ c.ownch)]

\* A merge that clears the whole table of rooms first.
MergedAlone(c) ==
  LET add == FirstOf(c.policy.rooms, Room, MaxRooms)
  IN [c EXCEPT !.own = <<>>, !.hub = add, !.hubch = add \ c.ownch]

\* config_policy_merge: the rooms of the set that the node does not have itself, as
\* far as the table goes, and their channels (add_room_ex, register_channel).
Merged(c) ==
  LET add == FirstOf(c.policy.rooms, Room \ OwnRooms(c), MaxRooms - Len(c.own))
  IN [c EXCEPT !.hub = add,
               !.hubch = FirstOf(c.policy.rooms, add \ c.ownch,
                                 MaxChannels - Cardinality(c.ownch))]

\* config_set_policy: a block of the node itself is dropped.
WithPolicy(c, p) ==
  Merged([c EXCEPT !.policy =
    [version |-> p.version, rooms |-> p.rooms, blocks |-> p.blocks \ {Itself}]])

\* config_load: the rooms of the file, then the set that is in force.
Loaded(c, rooms) ==
  Merged([c EXCEPT !.own = rooms, !.ownch = FirstOf(rooms \o <<Ping>>, Room, MaxChannels)])

Blank == [own |-> <<>>, ownch |-> {}, hub |-> {}, hubch |-> {}, policy |-> NoPolicy]

\* main, config_policy_load: the config file, then the policy file if there is one.
StartedFrom(d) ==
  LET c == Loaded(Blank, d.conf)
  IN IF d.file.version = 0 THEN c ELSE WithPolicy(c, d.file)

Served(c) == OwnRooms(c) \cup c.hub

\* add_room_ex for the operator, when there is no room of that name yet.
WithRoom(c, r) ==
  [c EXCEPT !.own = Append(@, r),
            !.ownch = IF Cardinality(@ \cup c.hubch) < MaxChannels THEN @ \cup {r} ELSE @]
----------------------------------------------------------------------------
(* The collection of a set, and its application.                           *)

NoPages ==
  [version |-> 0, pages |-> 0, have |-> {}, min |-> 0, max |-> 0, rooms |-> <<>>, blocks |-> {}]

\* A node that forgets how far the set it applied goes.
StaleNever(p) == FALSE

\* A page from before every page of the set last applied.
Stale(p) == applied > 0 /\ p.seq < applied

Differs(p) == col.pages > 0 /\ (p.version # col.version \/ p.pages # col.pages)

\* A node that collects the set it has begun, whatever comes.
UnwantedOther(p) == col.pages > 0 /\ (Differs(p) \/ p.page \in col.have)

\* A page of an older set than the one being collected, or a page that is held.
Unwanted(p) ==
  \/ Differs(p) /\ p.seq <= col.max
  \/ col.pages > 0 /\ ~Differs(p) /\ p.page \in col.have

\* The collection the page belongs to, with the page.
With(p) ==
  LET c == IF col.pages = 0 \/ Differs(p)
           THEN [NoPages EXCEPT !.version = p.version, !.pages = p.pages,
                                !.min = p.seq, !.max = p.seq]
           ELSE col
      page == Sets[p.version][p.page]
  IN [c EXCEPT !.have = @ \cup {p.page},
               !.rooms = @ \o page.rooms, !.blocks = @ \cup page.blocks,
               !.min = IF p.seq < @ THEN p.seq ELSE @, !.max = IF p.seq > @ THEN p.seq ELSE @]

Complete(c) == c.have = 1..c.pages

\* on_policy, up to the application of a complete set.
OnPolicy(p) ==
  /\ pc = "loop" /\ flight' = flight \ {p}
  /\ UNCHANGED <<disk, hub, asked, used>>
  /\ \/ /\ Stale(p) \/ Unwanted(p)
        /\ UNCHANGED <<cfg, col, applied, soon, pc>>
     \/ /\ ~Stale(p) /\ ~Unwanted(p)
        /\ \E c \in {With(p)} :
             \/ ~Complete(c) /\ col' = c /\ UNCHANGED <<cfg, applied, soon, pc>>
             \/ /\ Complete(c)
                /\ applied' = c.min /\ col' = NoPages /\ soon' = TRUE
                /\ IF c.version = cfg.policy.version THEN UNCHANGED <<cfg, pc>>
                   ELSE cfg' = WithPolicy(cfg, c) /\ pc' = "open"

\* config_policy_save: the temporary file is truncated, written and renamed. A step
\* that fails leaves the old file, and on_policy only logs it.
SaveOpens ==
  /\ pc = "open"
  /\ \/ disk' = [disk EXCEPT !.tmp = NoPolicy] /\ pc' = "write" /\ UNCHANGED used
     \/ pc' = "loop" /\ UNCHANGED disk /\ Fault
  /\ UNCHANGED <<cfg, col, applied, soon, hub, flight, asked>>

SaveWrites ==
  /\ pc = "write"
  /\ \/ disk' = [disk EXCEPT !.tmp = cfg.policy] /\ pc' = "rename" /\ UNCHANGED used
     \/ disk' = [disk EXCEPT !.tmp = NoPolicy] /\ pc' = "loop" /\ Fault
  /\ UNCHANGED <<cfg, col, applied, soon, hub, flight, asked>>

SaveRenames ==
  /\ pc = "rename"
  /\ \/ disk' = [disk EXCEPT !.file = disk.tmp, !.tmp = NoPolicy] /\ UNCHANGED used
     \/ disk' = [disk EXCEPT !.tmp = NoPolicy] /\ Fault
  /\ pc' = "loop"
  /\ UNCHANGED <<cfg, col, applied, soon, hub, flight, asked>>
----------------------------------------------------------------------------
(* The operator.                                                           *)

MayCli == pc = "loop" /\ used.cli < MaxCli /\ Count("cli")

\* "set room": a room that is served already, even for the hub, is left as it is.
SetRoom(r) ==
  /\ MayCli
  /\ \/ r \in Served(cfg) /\ UNCHANGED cfg /\ asked' = asked \cup {r}
     \/ /\ r \notin Served(cfg) /\ Cardinality(Served(cfg)) < MaxRooms
        /\ cfg' = WithRoom(cfg, r) /\ asked' = asked \cup {r}
     \/ /\ r \notin Served(cfg) /\ Cardinality(Served(cfg)) >= MaxRooms
        /\ UNCHANGED <<cfg, asked>>
  /\ UNCHANGED <<col, applied, soon, pc, disk, hub, flight>>

\* "save": config_save truncates the config file and writes it in place.
Save ==
  /\ MayCli
  /\ disk' = [disk EXCEPT !.conf = <<>>] /\ pc' = "conf"
  /\ UNCHANGED <<cfg, col, applied, soon, hub, flight, asked>>

SaveConf ==
  /\ pc = "conf"
  /\ disk' = [disk EXCEPT !.conf = cfg.own] /\ pc' = "loop"
  /\ UNCHANGED <<cfg, col, applied, soon, hub, flight, asked, used>>

\* "reload": the file's rooms, and the set in force on top of them.
Reload ==
  /\ MayCli
  /\ cfg' = Loaded(cfg, disk.conf) /\ asked' = ToSet(disk.conf)
  /\ UNCHANGED <<col, applied, soon, pc, disk, hub, flight>>

\* The process ends between any two steps and starts again, without a session.
Restart ==
  /\ Fault
  /\ cfg' = StartedFrom(disk) /\ asked' = ToSet(disk.conf)
  /\ col' = NoPages /\ applied' = 0 /\ soon' = FALSE /\ pc' = "loop"
  /\ hub' = [hub EXCEPT !.up = FALSE] /\ flight' = {}
  /\ UNCHANGED disk
----------------------------------------------------------------------------
(* The hub and the session.                                                *)

Pages(v, after) ==
  {[seq |-> after + i, version |-> v, page |-> i, pages |-> Len(Sets[v])] : i \in DOMAIN Sets[v]}

Current == hub.last

\* The pages of the current set, in the session.
Sends(h) ==
  /\ hub' = [h EXCEPT !.seq = @ + Len(Sets[h.last])]
  /\ flight' = flight \cup Pages(h.last, h.seq)

Publish ==
  /\ Current < Len(Sets)
  /\ IF hub.up THEN Sends([hub EXCEPT !.last = @ + 1])
     ELSE hub' = [hub EXCEPT !.last = @ + 1] /\ UNCHANGED flight
  /\ UNCHANGED <<cfg, col, applied, soon, pc, disk, asked, used>>

\* A session comes up, the first one or after a loss: the client collects afresh
\* (on_welcome) and the hub sends its set.
NewSession ==
  /\ pc = "loop"
  /\ IF hub.up THEN Fault ELSE UNCHANGED used
  /\ col' = NoPages /\ applied' = 0 /\ soon' = TRUE
  /\ hub' = [hub EXCEPT !.up = TRUE, !.seq = Len(Sets[Current])]
  /\ flight' = Pages(Current, 0)
  /\ UNCHANGED <<cfg, pc, disk, asked>>

\* A STATUS, at once or when its time has come, which is long after what is in
\* flight has arrived: then the hub sends its set again if another one is reported.
Status ==
  /\ pc = "loop" /\ hub.up
  /\ \/ soon /\ flight # {} /\ soon' = FALSE /\ UNCHANGED <<hub, flight, used>>
     \/ /\ flight = {} /\ soon' = FALSE
        /\ IF cfg.policy.version = Current \/ hub.seq >= MaxSeq THEN UNCHANGED <<hub, flight, used>>
           ELSE \/ Sends(hub) /\ UNCHANGED used
                \/ Fault /\ UNCHANGED <<hub, flight>>
  /\ UNCHANGED <<cfg, col, applied, pc, disk, asked>>

Lose(p) ==
  /\ Fault
  /\ flight' = flight \ {p}
  /\ UNCHANGED <<cfg, col, applied, soon, pc, disk, hub, asked>>

Saving == SaveOpens \/ SaveWrites \/ SaveRenames \/ SaveConf

Next ==
  \/ \E p \in flight : OnPolicy(p) \/ Lose(p)
  \/ Saving
  \/ \E r \in Room : SetRoom(r)
  \/ Save \/ Reload \/ Restart
  \/ Publish \/ NewSession \/ Status

Init ==
  /\ disk = [file |-> NoPolicy, tmp |-> NoPolicy, conf |-> FileRooms]
  /\ cfg = StartedFrom(disk) /\ asked = ToSet(FileRooms)
  /\ col = NoPages /\ applied = 0 /\ soon = FALSE /\ pc = "loop"
  /\ hub = [last |-> 1, up |-> FALSE, seq |-> 0] /\ flight = {}
  /\ used = [faults |-> 0, cli |-> 0]

Spec == Init /\ [][Next]_vars

\* The loop runs, a session comes up (Backbone!Settles), its STATUS go out, and what is
\* not lost arrives.
FairSpec ==
  /\ Spec
  /\ WF_vars(\E p \in flight : OnPolicy(p)) /\ WF_vars(Saving)
  /\ WF_vars(~hub.up /\ NewSession) /\ WF_vars(Status)
----------------------------------------------------------------------------
Policy == [version : Nat, rooms : Seq(Room), blocks : SUBSET Block]

Page == [seq : Nat, version : 1..Len(Sets), page : Nat \ {0}, pages : Nat \ {0}]

\* The tables stay within their sizes, rooms and channels of the node and of the hub
\* apart, whatever is added, merged and loaded.
TypeOK ==
  /\ cfg \in [own : Seq(Room), ownch : SUBSET Room, hub : SUBSET Room, hubch : SUBSET Room,
              policy : Policy]
  /\ IsInjective(cfg.own) /\ OwnRooms(cfg) \cap cfg.hub = {} /\ Cardinality(Served(cfg)) <= MaxRooms
  /\ cfg.ownch \cap cfg.hubch = {} /\ Cardinality(cfg.ownch \cup cfg.hubch) <= MaxChannels
  /\ col \in [version : Nat, pages : Nat, have : SUBSET Nat, min : Nat, max : Nat,
              rooms : Seq(Room), blocks : SUBSET Block]
  /\ applied \in Nat /\ soon \in BOOLEAN /\ pc \in {"loop", "open", "write", "rename", "conf"}
  /\ disk \in [file : Policy, tmp : Policy, conf : Seq(Room)]
  /\ hub \in [last : 1..Len(Sets), up : BOOLEAN, seq : Nat]
  /\ flight \in SUBSET Page /\ asked \in SUBSET Room
  /\ used \in [{"faults", "cli"} -> Nat]

\* The rooms of the config file are served whatever sets come, go or fill the tables
\* (config_policy_merge: "the hub adds rooms on top of this node's own").
FileRoomsServed == ToSet(disk.conf) \subseteq Served(cfg)

\* Nothing stays of a set that is no longer in force: each room and channel of the hub
\* is in the set in force, and the rooms of that set that are missing found the
\* table full (config_policy_merge).
HubRoomsInForce ==
  LET rooms == ToSet(cfg.policy.rooms)
  IN /\ cfg.hub \subseteq rooms /\ cfg.hubch \subseteq cfg.hub
     /\ (rooms \subseteq Served(cfg) \/ Cardinality(Served(cfg)) = MaxRooms)

\* Sets are applied whole and in the order of the hub, whatever the order of their
\* pages, and what survives a crash is whole (on_policy, config_policy_save).
Entries(p) == ToSet(p.rooms) \cup p.blocks
InForce(p) == [version |-> p.version, entries |-> Entries(p)]
WholeSet(v) == (UNION {Entries(Sets[v][i]) : i \in DOMAIN Sets[v]}) \ {Itself}
Register == INSTANCE PolicyRegister
  WITH Content <- [v \in DOMAIN Sets |-> WholeSet(v)],
       inForce <- InForce(cfg.policy), kept <- InForce(disk.file)
ImplementsRegister == Register!Spec

\* Once nothing more is published, lost or restarted, the hub's last set is in force.
Converges == <>[](cfg.policy.version = Current)

\* A room the operator set is served until the node loads a file without it ("the hub
\* adds rooms but can never remove a node's own").
AskedRoomsServed == asked \subseteq Served(cfg)
=============================================================================
