------------------------------- MODULE Segment -------------------------------
(* The life of the shared-memory segment: managers that create, initialise and
   remove it (init_rt_db.c), clients that attach and index its points
   (rt_db_init, build_index_map), and the page server that attaches from Python
   (agc_ui_server.get_shm, AgcShmReader.attach).  The name on Windows, or the
   System V key, refers to one segment or to none; a segment that lost its name
   lives on with whoever holds it.                                             *)
EXTENDS Naturals, Integers, Sequences, FiniteSets

CONSTANTS
  Managers,    \* processes running rt_db_init
  Clients,     \* processes that link rt_db_api.c
  Daemons,     \* the clients that attach twice and go on when that fails
  Page,        \* the page server
  Worlds,      \* the platforms and name settings to start in
  Registry,    \* point names in the order the manager registers them
  DefaultIds,  \* point names a client writes when it finds none
  Health,      \* the name of COMM.IsHealthy
  HealthAfter, \* how many points are registered when it gets its default
  NSlots,      \* MAX_DATA_POINTS
  Blank,       \* the id of a slot of zeros
  Unused,      \* an id that begins with UNUSED_
  MaxSegments, \* bound on segments that exist at one time
  MaxKills     \* bound on killed processes

Slots == 1..NSlots
Segments == 1..MaxSegments
Names == {Registry[i] : i \in DOMAIN Registry}
Ids == Names \cup {Blank, Unused}
Processes == Managers \cup Clients \cup {Page}

ASSUME SegmentAssumption ==
  /\ NSlots \in Nat /\ Registry \in Seq(Names) /\ Len(Registry) <= NSlots
  /\ DefaultIds \in Seq(Names) /\ Len(DefaultIds) \in 1..Len(Registry)
  /\ \A s \in DOMAIN DefaultIds : DefaultIds[s] = Registry[s]
  /\ \A i, j \in DOMAIN Registry : Registry[i] = Registry[j] => i = j
  /\ Blank \notin Names /\ Unused \notin Names /\ Blank # Unused
  /\ HealthAfter \in 1..(Len(Registry) - 1)
  /\ \E i \in 1..HealthAfter : Registry[i] = Health
  /\ MaxSegments \in Nat /\ MaxKills \in Nat
  /\ Worlds \subseteq {"linux", "windows", "split"}
  /\ Daemons \subseteq Clients
  /\ Managers \cap Clients = {} /\ Page \notin Managers \cup Clients

VARIABLES
  world,     \* "split" is Windows with RT_DB_SHM_NAME unset
  name,      \* the segment the name refers to, 0 for none
  holds,     \* the segments a process has mapped or has a handle of
  seg,       \* the segments
  mpc, mseg, mslot, signalled,                              \* managers
  cpc, att, cseg, cslot, map, index, open, healthy,         \* clients
  ppc, pseg, pslot, pindex,                                 \* the page server
  kills

mgrVars == <<mpc, mseg, mslot, signalled>>
cliVars == <<cpc, att, cseg, cslot, map, index, open, healthy>>
pageVars == <<ppc, pseg, pslot, pindex>>
vars == <<world, name, holds, seg, mgrVars, cliVars, pageVars, kills>>

(* The header and the point names; COMM.IsHealthy is the one value that counts.
   The last five fields are history: made by the page and too small for the
   struct, initialised to its end, mapped by a client before that, attachments
   of killed clients, manager killed.                                          *)
Zeros == [s \in Slots |-> Blank]
Fresh == [ids |-> Zeros, clients |-> 0, stop |-> FALSE, numbered |-> FALSE, comm |-> FALSE,
          small |-> FALSE, served |-> FALSE, early |-> FALSE, lost |-> 0, orphan |-> FALSE]

Handles == 1..2
Nothing == [k \in Handles |-> {}]
NotOpen == [k \in Handles |-> 0]
Set(f, x, v) == [f EXCEPT ![x] = v]

Init ==
  /\ world \in Worlds /\ name = 0 /\ holds = [p \in Processes |-> {}]
  /\ seg = [g \in Segments |-> Fresh]
  /\ mpc = [m \in Managers |-> "down"] /\ mseg = [m \in Managers |-> 0]
  /\ mslot = [m \in Managers |-> 1] /\ signalled = [m \in Managers |-> FALSE]
  /\ cpc = [c \in Clients |-> "down"] /\ att = [c \in Clients |-> 1]
  /\ cseg = [c \in Clients |-> 0] /\ cslot = [c \in Clients |-> 1]
  /\ map = [c \in Clients |-> {}] /\ index = [c \in Clients |-> Nothing]
  /\ open = [c \in Clients |-> NotOpen] /\ healthy = [c \in Clients |-> TRUE]
  /\ ppc = "idle" /\ pseg = 0 /\ pslot = 1 /\ pindex = {} /\ kills = 0

----------------------------------------------------------------------------
(* Names and handles.  On Windows a section loses its name with its last handle;
   on Linux the key is unlinked by IPC_RMID only.  Memory that is neither named
   nor held is gone, and new memory is zero.                                   *)
Held(g, h) == \E p \in Processes : g \in h[p]
NameAfter(h) == IF world # "linux" /\ ~Held(name, h) THEN 0 ELSE name
Freed(s) == [g \in Segments |-> IF g = name' \/ Held(g, holds') THEN s[g] ELSE Fresh]

(* Process p lets go of all but the segments kept; s are the segments it leaves. *)
Release(p, kept, s) ==
  /\ holds' = Set(holds, p, kept)
  /\ name' = NameAfter(holds')
  /\ seg' = Freed(s)

Take(p, g) == holds' = Set(holds, p, holds[p] \cup {g})

Make(p, small) ==
  \E g \in Segments :
    /\ g # name /\ ~Held(g, holds)
    /\ \A f \in Segments : f < g => f = name \/ Held(f, holds)
    /\ name' = g /\ Take(p, g)
    /\ seg' = Set(seg, g, [Fresh EXCEPT !.small = small])

----------------------------------------------------------------------------
(* The manager: main and initialize_shared_memory_segment of init_rt_db.c.     *)
MGoes(m, pc) == mpc' = Set(mpc, m, pc)

ManagerOpens(m) ==
  /\ mpc[m] = "down"
  /\ IF name = 0 THEN Make(m, FALSE) ELSE Take(m, name) /\ UNCHANGED <<name, seg>>
  /\ MGoes(m, "wipe") /\ mseg' = Set(mseg, m, name')
  /\ UNCHANGED <<world, mslot, signalled, cliVars, pageVars, kills>>

ManagerCreates(m) ==
  /\ mpc[m] = "down" /\ name = 0
  /\ Make(m, FALSE)
  /\ MGoes(m, "wipe") /\ mseg' = Set(mseg, m, name')
  /\ UNCHANGED <<world, mslot, signalled, cliVars, pageVars, kills>>

(* CreateFileMapping with ERROR_ALREADY_EXISTS, shmget with EEXIST.            *)
ManagerRefused(m) ==
  /\ mpc[m] = "down" /\ name # 0
  /\ MGoes(m, "refused")
  /\ UNCHANGED <<world, name, holds, seg, mseg, mslot, signalled, cliVars, pageVars, kills>>

ManagerExits(m) ==
  /\ mpc[m] = "refused"
  /\ MGoes(m, "down")
  /\ UNCHANGED <<world, name, holds, seg, mseg, mslot, signalled, cliVars, pageVars, kills>>

(* A step of the initialisation that turns the manager's segment into s.       *)
Initialise(m, s) ==
  /\ seg' = Set(seg, mseg[m], s)
  /\ UNCHANGED <<world, name, holds, mseg, signalled, cliVars, pageVars, kills>>

(* memset of the whole segment, whatever clients did to it since it was made.  *)
Wipe(m) ==
  /\ mpc[m] = "wipe" /\ MGoes(m, "header") /\ UNCHANGED mslot
  /\ Initialise(m, [seg[mseg[m]] EXCEPT !.ids = Zeros, !.clients = 0, !.stop = FALSE,
                                        !.numbered = FALSE, !.comm = FALSE])

Header(m) ==
  /\ mpc[m] = "header" /\ MGoes(m, "fill") /\ UNCHANGED mslot
  /\ Initialise(m, [seg[mseg[m]] EXCEPT !.clients = 0, !.stop = FALSE, !.numbered = TRUE])

(* The loops over the slots: first UNUSED_, then the registered names, with the
   default of COMM.IsHealthy set on the way; then the manager serves.          *)
WriteSlot(m, id, last, after, pause) ==
  LET more == mslot[m] < last IN
  /\ MGoes(m, IF pause THEN "health" ELSE IF more THEN mpc[m] ELSE after)
  /\ mslot' = Set(mslot, m, IF more THEN mslot[m] + 1 ELSE 1)
  /\ Initialise(m, [seg[mseg[m]] EXCEPT !.ids[mslot[m]] = id, !.served = ~more /\ after = "serve"])

FillPastEnd(m) == mpc[m] = "fill" /\ WriteSlot(m, Unused, NSlots + 1, "register", FALSE)
Fill(m) == mpc[m] = "fill" /\ WriteSlot(m, Unused, NSlots, "register", FALSE)
Register(m) ==
  /\ mpc[m] = "register"
  /\ WriteSlot(m, Registry[mslot[m]], Len(Registry), "serve", mslot[m] = HealthAfter)

NoDefaultHealth(m) ==
  /\ mpc[m] = "health" /\ MGoes(m, "register") /\ UNCHANGED mslot
  /\ Initialise(m, seg[mseg[m]])

(* COMM.IsHealthy = 1, so that the controller does not start in scene 6.       *)
DefaultHealth(m) ==
  /\ mpc[m] = "health" /\ MGoes(m, "register") /\ UNCHANGED mslot
  /\ Initialise(m, [seg[mseg[m]] EXCEPT !.comm = TRUE])

(* SIGINT or a console event, at any time; only the monitor looks at the flag.  *)
Signal(m) ==
  /\ mpc[m] \notin {"down", "refused"}
  /\ signalled' = Set(signalled, m, TRUE)
  /\ UNCHANGED <<world, name, holds, seg, mpc, mseg, mslot, cliVars, pageVars, kills>>

(* The end of monitor_shared_memory: signalled, or the flag in the header.      *)
MonitorEnds(m) ==
  /\ mpc[m] = "serve" /\ (signalled[m] \/ seg[mseg[m]].stop)
  /\ MGoes(m, "clean") /\ UNCHANGED mslot
  /\ Initialise(m, [seg[mseg[m]] EXCEPT !.stop = TRUE])

Forgotten(m) ==
  /\ MGoes(m, "down") /\ mseg' = Set(mseg, m, 0)
  /\ mslot' = Set(mslot, m, 1) /\ signalled' = Set(signalled, m, FALSE)

(* shmdt and IPC_RMID, or UnmapViewOfFile and CloseHandle.                     *)
Clean(m) ==
  /\ mpc[m] = "clean" /\ Forgotten(m)
  /\ holds' = Set(holds, m, {})
  /\ name' = IF name = mseg[m] /\ world = "linux" THEN 0 ELSE NameAfter(holds')
  /\ seg' = Freed(seg)
  /\ UNCHANGED <<world, cliVars, pageVars, kills>>

KillManager(m) ==
  /\ mpc[m] \notin {"down", "refused"} /\ kills < MaxKills
  /\ kills' = kills + 1
  /\ Release(m, {}, [seg EXCEPT ![mseg[m]].orphan = TRUE]) /\ Forgotten(m)
  /\ UNCHANGED <<world, cliVars, pageVars>>

----------------------------------------------------------------------------
(* A client: rt_db_init, build_index_map, the look-ups, rt_db_cleanup.  The map
   belongs to the process, so a second attachment rebuilds it.                 *)
Attachments(c) == IF c \in Daemons THEN 2 ELSE 1
CGoes(c, pc) == cpc' = Set(cpc, c, pc)

StartClient(c) ==
  /\ cpc[c] = "down" /\ CGoes(c, "open")
  /\ UNCHANGED <<world, name, holds, seg, mgrVars, att, cseg, cslot, map, index, open, healthy, pageVars, kills>>

(* What follows an attachment: the next one, the daemon's loop, or for a client
   that gives up the end of the process.                                       *)
Onward(c, ok) ==
  LET again == att[c] < Attachments(c) IN
  /\ att' = Set(att, c, IF again THEN att[c] + 1 ELSE 1)
  /\ CGoes(c, IF again THEN "open" ELSE IF ok \/ c \in Daemons THEN "run" ELSE "exit")

Finds == name # 0 /\ world # "split"

(* No segment under the name the library has compiled in.                      *)
NotFound(c) ==
  /\ cpc[c] = "open" /\ ~Finds
  /\ Onward(c, FALSE)
  /\ UNCHANGED <<world, name, holds, seg, mgrVars, cseg, cslot, map, index, open, healthy, pageVars, kills>>

(* The page's section is smaller than the struct: mapping fails and the handle
   stays open.                                                                 *)
TooSmall(c) ==
  /\ cpc[c] = "open" /\ Finds /\ seg[name].small
  /\ Take(c, name) /\ Onward(c, FALSE)
  /\ UNCHANGED <<world, name, seg, mgrVars, cseg, cslot, map, index, open, healthy, pageVars, kills>>

OpenAtSecond(c) ==
  /\ cpc[c] = "open" /\ Finds /\ ~seg[name].small
  /\ CGoes(c, "scan") /\ Take(c, name)
  /\ cseg' = Set(cseg, c, name) /\ cslot' = Set(cslot, c, 2) /\ map' = Set(map, c, {})
  /\ seg' = [seg EXCEPT ![name].early = @ \/ ~seg[name].served]
  /\ UNCHANGED <<world, name, mgrVars, att, index, open, healthy, pageVars, kills>>

Open(c) ==
  /\ cpc[c] = "open" /\ Finds /\ ~seg[name].small
  /\ CGoes(c, "scan") /\ Take(c, name)
  /\ cseg' = Set(cseg, c, name) /\ cslot' = Set(cslot, c, 1) /\ map' = Set(map, c, {})
  /\ seg' = [seg EXCEPT ![name].early = @ \/ ~seg[name].served]
  /\ UNCHANGED <<world, name, mgrVars, att, index, open, healthy, pageVars, kills>>

Entries(id, s) == IF id \in {Blank, Unused} THEN {} ELSE {<<id, s>>}
ScannedByCount(c) ==
  map[c] \cup Entries(seg[cseg[c]].ids[cslot[c]], Cardinality(map[c]) + 1)
Scanned(c) == map[c] \cup Entries(seg[cseg[c]].ids[cslot[c]], cslot[c])

Scan(c) ==
  LET s == cslot[c] IN
  /\ cpc[c] = "scan"
  /\ map' = Set(map, c, Scanned(c))
  /\ cslot' = Set(cslot, c, IF s < NSlots THEN s + 1 ELSE 1)
  /\ CGoes(c, IF s < NSlots THEN "scan" ELSE IF Scanned(c) = {} THEN "default" ELSE "count")
  /\ UNCHANGED <<world, name, holds, seg, mgrVars, att, cseg, index, open, healthy, pageVars, kills>>

(* With no name found the client writes eight names of its own into the segment. *)
Default(c) ==
  LET s == cslot[c] IN
  /\ cpc[c] = "default"
  /\ map' = Set(map, c, map[c] \cup {<<DefaultIds[s], s>>})
  /\ seg' = [seg EXCEPT ![cseg[c]].ids[s] = DefaultIds[s]]
  /\ cslot' = Set(cslot, c, IF s < Len(DefaultIds) THEN s + 1 ELSE 1)
  /\ CGoes(c, IF s < Len(DefaultIds) THEN "default" ELSE "count")
  /\ UNCHANGED <<world, name, holds, mgrVars, att, cseg, index, open, healthy, pageVars, kills>>

(* connected_clients + 1; the caller looks its points up once and for all.     *)
Count(c) ==
  /\ cpc[c] = "count" /\ Onward(c, TRUE)
  /\ seg' = [seg EXCEPT ![cseg[c]].clients = @ + 1]
  /\ open' = [open EXCEPT ![c][att[c]] = cseg[c]]
  /\ index' = [index EXCEPT ![c][att[c]] = map[c]]
  /\ UNCHANGED <<world, name, holds, mgrVars, cseg, cslot, map, healthy, pageVars, kills>>

(* The daemon's cycle, as far as COMM.IsHealthy goes: the second attachment
   reads it, the logger, which attached first, writes it back.                 *)
Knows(c, k) == open[c][k] # 0 /\ \E e \in index[c][k] : e[1] = Health

ReadHealth(c) ==
  /\ cpc[c] = "run" /\ c \in Daemons /\ Knows(c, 2)
  /\ healthy' = Set(healthy, c, seg[open[c][2]].comm)
  /\ UNCHANGED <<world, name, holds, seg, mgrVars, cpc, att, cseg, cslot, map, index, open, pageVars, kills>>

EchoHealth(c) ==
  /\ cpc[c] = "run" /\ c \in Daemons /\ Knows(c, 1)
  /\ seg' = [seg EXCEPT ![open[c][1]].comm = healthy[c]]
  /\ UNCHANGED <<world, name, holds, mgrVars, cliVars, pageVars, kills>>

Attached(c, g) == Cardinality({k \in Handles : open[c][k] = g})

Gone(c, s) ==
  /\ CGoes(c, "down") /\ att' = Set(att, c, 1) /\ cseg' = Set(cseg, c, 0) /\ cslot' = Set(cslot, c, 1)
  /\ map' = Set(map, c, {}) /\ index' = Set(index, c, Nothing)
  /\ open' = Set(open, c, NotOpen) /\ healthy' = Set(healthy, c, TRUE)
  /\ Release(c, {}, s)

LeaveUncounted(c) ==
  /\ cpc[c] \in {"run", "exit"}
  /\ Gone(c, seg)
  /\ UNCHANGED <<world, mgrVars, pageVars, kills>>

(* The end of the process: rt_db_cleanup of what was attached.                 *)
LeaveClient(c) ==
  /\ cpc[c] \in {"run", "exit"}
  /\ Gone(c, [g \in Segments |-> [seg[g] EXCEPT !.clients = @ - Attached(c, g)]])
  /\ UNCHANGED <<world, mgrVars, pageVars, kills>>

KillClient(c) ==
  /\ cpc[c] # "down" /\ kills < MaxKills
  /\ kills' = kills + 1
  /\ Gone(c, [g \in Segments |-> [seg[g] EXCEPT !.lost = @ + Attached(c, g)]])
  /\ UNCHANGED <<world, mgrVars, pageVars>>

----------------------------------------------------------------------------
(* The page server: get_shm tries once per process; what it maps it keeps.     *)
Asks ==
  /\ ppc = "idle" /\ ppc' = "open"
  /\ UNCHANGED <<world, name, holds, seg, mgrVars, cliVars, pseg, pslot, pindex, kills>>

(* mmap with a tag name raises a TypeError on Linux; on Windows it opens the
   section, or creates one of its own size.                                    *)
CannotOpen ==
  /\ ppc = "open" /\ world = "linux" /\ ppc' = "simulated"
  /\ UNCHANGED <<world, name, holds, seg, mgrVars, cliVars, pseg, pslot, pindex, kills>>

OpensOrCreates ==
  /\ ppc = "open" /\ world # "linux" /\ ppc' = "verify"
  /\ IF name = 0 THEN Make(Page, TRUE) ELSE Take(Page, name) /\ UNCHANGED <<name, seg>>
  /\ pseg' = name'
  /\ UNCHANGED <<world, mgrVars, cliVars, pslot, pindex, kills>>

(* num_data_points tells an initialised segment from one just created.         *)
Accepts ==
  /\ ppc = "verify" /\ seg[pseg].numbered /\ ppc' = "index"
  /\ UNCHANGED <<world, name, holds, seg, mgrVars, cliVars, pseg, pslot, pindex, kills>>

NotClosed == holds[Page]
Closed == holds[Page] \ {pseg}

Rejects ==
  /\ ppc = "verify" /\ ~seg[pseg].numbered /\ ppc' = "simulated"
  /\ Release(Page, Closed, seg)
  /\ pseg' = 0
  /\ UNCHANGED <<world, mgrVars, cliVars, pslot, pindex, kills>>

Indexes ==
  /\ ppc = "index" /\ ppc' = IF pslot < NSlots THEN "index" ELSE "live"
  /\ pindex' = pindex \cup Entries(seg[pseg].ids[pslot], pslot)
  /\ pslot' = IF pslot < NSlots THEN pslot + 1 ELSE 1
  /\ UNCHANGED <<world, name, holds, seg, mgrVars, cliVars, pseg, kills>>

(* The shell kills what listens on its port and starts a server of its own.    *)
PageRestarts ==
  /\ ppc # "idle" /\ kills < MaxKills /\ ppc' = "idle"
  /\ kills' = kills + 1
  /\ Release(Page, {}, seg)
  /\ pseg' = 0 /\ pslot' = 1 /\ pindex' = {}
  /\ UNCHANGED <<world, mgrVars, cliVars>>

----------------------------------------------------------------------------
Initialises(m) ==
  ManagerCreates(m) \/ ManagerRefused(m) \/ ManagerExits(m) \/ Wipe(m) \/ Header(m)
  \/ Fill(m) \/ Register(m) \/ DefaultHealth(m)
Stops(m) == MonitorEnds(m) \/ Clean(m)
Attaches(c) == NotFound(c) \/ TooSmall(c) \/ Open(c) \/ Scan(c) \/ Default(c) \/ Count(c)
Cycles(c) == ReadHealth(c) \/ EchoHealth(c)
PageAttaches == CannotOpen \/ OpensOrCreates \/ Accepts \/ Rejects \/ Indexes

ManagerSteps(m) == Initialises(m) \/ Stops(m) \/ Signal(m) \/ KillManager(m)
ClientSteps(c) == StartClient(c) \/ Attaches(c) \/ Cycles(c) \/ LeaveClient(c) \/ KillClient(c)
PageSteps == Asks \/ PageAttaches \/ PageRestarts

Next ==
  \/ \E m \in Managers : ManagerSteps(m)
  \/ \E c \in Clients : ClientSteps(c)
  \/ PageSteps

Spec == Init /\ [][Next]_vars

----------------------------------------------------------------------------
Working == {"wipe", "header", "fill", "register", "health", "serve", "clean"}
Initialising == Working \ {"serve", "clean"}
Entry == Ids \X Slots

SegmentType ==
  [ids : [Slots -> Ids], clients : Int, stop : BOOLEAN, numbered : BOOLEAN, comm : BOOLEAN,
   small : BOOLEAN, served : BOOLEAN, early : BOOLEAN, lost : Nat, orphan : BOOLEAN]

(* Every variable keeps its type; a slot is blank, unused or named.            *)
TypeOK ==
  /\ world \in Worlds /\ name \in 0..MaxSegments
  /\ holds \in [Processes -> SUBSET Segments] /\ seg \in [Segments -> SegmentType]
  /\ mpc \in [Managers -> Working \cup {"down", "refused"}]
  /\ mseg \in [Managers -> 0..MaxSegments] /\ mslot \in [Managers -> Slots]
  /\ signalled \in [Managers -> BOOLEAN]
  /\ cpc \in [Clients -> {"down", "open", "scan", "default", "count", "run", "exit"}]
  /\ att \in [Clients -> Handles] /\ cseg \in [Clients -> 0..MaxSegments]
  /\ cslot \in [Clients -> Slots] /\ map \in [Clients -> SUBSET Entry]
  /\ index \in [Clients -> [Handles -> SUBSET Entry]]
  /\ open \in [Clients -> [Handles -> 0..MaxSegments]] /\ healthy \in [Clients -> BOOLEAN]
  /\ ppc \in {"idle", "open", "verify", "index", "live", "simulated"}
  /\ pseg \in 0..MaxSegments /\ pslot \in Slots /\ pindex \subseteq Entry
  /\ kills \in 0..MaxKills

(* An index that a client or the page looked up, at whatever moment of the
   initialisation, denotes the point of that name once the segment is served:
   build_index_map and initialize_shared_memory_segment agree on the slots.    *)
Means(e, g) == seg[g].served => seg[g].ids[e[2]] = e[1]
IndicesMeanTheirNames ==
  /\ \A c \in Clients, k \in Handles :
       open[c][k] # 0 => \A e \in index[c][k] : Means(e, open[c][k])
  /\ pseg # 0 => \A e \in pindex : Means(e, pseg)

(* Two managers never work on one segment, and none initialises a segment that
   was already served: memset would take the points from under the clients.    *)
OneManagerPerSegment ==
  \A m \in Managers : mpc[m] \in Working =>
    /\ mpc[m] \in Initialising => ~seg[mseg[m]].served
    /\ \A n \in Managers \ {m} : mpc[n] \in Working => mseg[n] # mseg[m]

(* Who attaches to a segment that is served finds every registered point.      *)
CompleteUnlessEarly ==
  \A c \in Clients, k \in Handles :
    open[c][k] # 0 /\ ~seg[open[c][k]].early => Names \subseteq {e[1] : e \in index[c][k]}

(* connected_clients counts the attachments there are and those of killed
   processes, unless a client came before the memset.                          *)
CountExactUnlessEarly ==
  \A g \in Segments : seg[g].served /\ ~seg[g].early =>
    seg[g].clients = seg[g].lost + Cardinality({a \in Clients \X Handles : open[a[1]][a[2]] = g})

(* A controller never takes communication for lost, nor writes that back, when
   nobody has reported it: the manager's default is in place before anybody can
   read the point, unless a client came too early.                             *)
HealthyUnlessEarly ==
  name # 0 /\ seg[name].served /\ ~seg[name].early =>
    /\ seg[name].comm
    /\ \A c \in Daemons : open[c][2] = name => healthy[c]

(* A manager is refused only while another process works on the segment, or,
   on Linux, after a manager was killed; an attachment of the page that failed
   leaves nothing behind that would stand in the way.                          *)
Occupied(m) ==
  \/ \E n \in Managers \ {m} : mpc[n] \in Working /\ mseg[n] = name
  \/ world = "linux" /\ seg[name].orphan
  \/ world # "linux" /\ \E c \in Clients : cpc[c] # "down" /\ name \in holds[c]
  \/ world # "linux" /\ ppc \in {"verify", "index", "live"} /\ pseg = name
RefusalsHaveAReason ==
  [][\A m \in Managers : mpc[m] # "refused" /\ mpc'[m] = "refused" => Occupied(m)]_vars
=============================================================================
