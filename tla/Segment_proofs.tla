--------------------------- MODULE Segment_proofs ---------------------------
(***************************************************************************)
(* Proofs about Segment, for any number of managers, clients, segments and *)
(* points: no two managers work on one segment, an index that was looked   *)
(* up denotes the point of its name, a client that attaches to a segment   *)
(* in service finds every point and counts itself exactly, nobody takes    *)
(* communication for lost without cause, and no manager is refused without *)
(* one.                                                                    *)
(***************************************************************************)
EXTENDS Segment, FiniteSetTheorems, TLAPS

(* Slot s is the place of the name id.                                     *)
Place(id, s) == s \in DOMAIN Registry /\ id = Registry[s]

(* A working manager holds its segment and shares it with no other one; it *)
(* has registered the names before the slot it is at.                      *)
ManagerInv ==
  \A m \in Managers : mpc[m] \in Working =>
    /\ mseg[m] \in Segments /\ mseg[m] \in holds[m]
    /\ \A n \in Managers \ {m} : mpc[n] \in Working => mseg[n] # mseg[m]
    /\ mpc[m] \in Initialising => ~seg[mseg[m]].served
    /\ mpc[m] \in {"register", "health"} =>
         /\ mslot[m] <= Len(Registry)
         /\ \A s \in 1..(mslot[m] - 1) : seg[mseg[m]].ids[s] = Registry[s]

(* A name stands in its own slot or nowhere, and in a segment in service   *)
(* every name does.                                                        *)
SlotInv ==
  \A g \in Segments :
    /\ \A s \in Slots : seg[g].ids[s] \in {Blank, Unused} \/ Place(seg[g].ids[s], s)
    /\ seg[g].served => \A s \in DOMAIN Registry : seg[g].ids[s] = Registry[s]

(* What was looked up, or is being looked up, is a name with its slot.     *)
IndexInv ==
  /\ \A c \in Clients : \A e \in map[c] : Place(e[1], e[2])
  /\ \A c \in Clients : \A k \in Handles : \A e \in index[c][k] : Place(e[1], e[2])
  /\ \A e \in pindex : Place(e[1], e[2])

(* A client that came when the segment was in service finds every name in  *)
(* the slots it has passed.                                                *)
Passed(c) == IF cpc[c] = "scan" THEN {s \in DOMAIN Registry : s < cslot[c]}
             ELSE DOMAIN Registry
ClientInv ==
  \A c \in Clients :
    /\ cpc[c] \in {"scan", "default", "count"} =>
         /\ cseg[c] \in Segments /\ cseg[c] \in holds[c]
         /\ cpc[c] = "default" => cslot[c] <= Len(DefaultIds)
         /\ \/ seg[cseg[c]].early
            \/ /\ seg[cseg[c]].served /\ cpc[c] # "default"
               /\ \A s \in Passed(c) : <<Registry[s], s>> \in map[c]
    /\ \A k \in Handles : open[c][k] # 0 =>
         /\ open[c][k] \in holds[c]
         /\ \/ seg[open[c][k]].early
            \/ /\ seg[open[c][k]].served
               /\ \A s \in DOMAIN Registry : <<Registry[s], s>> \in index[c][k]

(* The page server looks at a segment only when it has one.                *)
PageInv == ppc \in {"verify", "index"} => pseg \in Segments

IInv == TypeOK /\ ManagerInv /\ SlotInv /\ IndexInv /\ ClientInv /\ PageInv

-----------------------------------------------------------------------------
(* The names are the first slots, and a segment of zeros is a segment.     *)
LEMMA RegistryLemma ==
  /\ NSlots \in Nat /\ MaxSegments \in Nat /\ MaxKills \in Nat
  /\ Len(Registry) \in 1..NSlots /\ DOMAIN Registry = 1..Len(Registry)
  /\ DOMAIN Registry \subseteq Slots
  /\ \A s \in DOMAIN Registry : Registry[s] \in Names
  /\ Names \subseteq Ids
  /\ Blank \notin Names /\ Unused \notin Names
  /\ DOMAIN DefaultIds = 1..Len(DefaultIds) /\ Len(DefaultIds) \in 1..Len(Registry)
  /\ \A s \in DOMAIN DefaultIds : s \in DOMAIN Registry /\ DefaultIds[s] = Registry[s]
<1>1. Registry \in Seq(Names) /\ DefaultIds \in Seq(Names)
  BY SegmentAssumption
<1>2. Len(Registry) \in Nat /\ DOMAIN Registry = 1..Len(Registry)
      /\ Len(DefaultIds) \in Nat /\ DOMAIN DefaultIds = 1..Len(DefaultIds)
  BY <1>1
<1> QED
  BY <1>2, SegmentAssumption DEF Names, Ids, Slots

LEMMA FreshLemma ==
  /\ Zeros \in [Slots -> Ids] /\ \A s \in Slots : Zeros[s] = Blank
  /\ Fresh \in SegmentType /\ Fresh.ids = Zeros /\ Fresh.served = FALSE
  /\ \A b \in BOOLEAN : LET f == [Fresh EXCEPT !.small = b] IN
       f \in SegmentType /\ f.ids = Zeros /\ f.served = FALSE
<1>1. Zeros \in [Slots -> Ids] /\ \A s \in Slots : Zeros[s] = Blank
  BY DEF Zeros, Ids
<1>2. Fresh \in SegmentType /\ Fresh.ids = Zeros /\ Fresh.served = FALSE
  BY <1>1 DEF Fresh, SegmentType
<1>3. ASSUME NEW b \in BOOLEAN, NEW f, f = [Fresh EXCEPT !.small = b]
      PROVE f \in SegmentType /\ f.ids = Zeros /\ f.served = FALSE
  BY <1>2, <1>3 DEF SegmentType
<1> QED
  BY <1>1, <1>2, <1>3

THEOREM InitIInv == Init => IInv
<1> SUFFICES ASSUME Init PROVE IInv
  OBVIOUS
<1>1. TypeOK
  BY RegistryLemma, FreshLemma, SegmentAssumption
     DEF Init, TypeOK, Nothing, NotOpen, Handles, Slots, Segments, Working
<1>2. SlotInv
  BY FreshLemma DEF Init, SlotInv
<1>3. ManagerInv /\ IndexInv /\ ClientInv /\ PageInv
  BY DEF Init, ManagerInv, IndexInv, ClientInv, PageInv, Working, Nothing, NotOpen
<1> QED
  BY <1>1, <1>2, <1>3 DEF IInv

-----------------------------------------------------------------------------
(* What a step does to a segment.  It stays: who came early stays early, what *)
(* is in service stays so, a slot keeps its name or gets its own, and only a  *)
(* segment that is not in service loses names.  Or it is made anew, which     *)
(* happens to no segment that a process keeps.                                *)
Stays(g) ==
  /\ seg[g].early => seg'[g].early
  /\ seg[g].served => seg'[g].served
  /\ seg'[g].served => seg[g].served \/ \A s \in DOMAIN Registry : seg'[g].ids[s] = Registry[s]
  /\ \A s \in Slots : \/ seg'[g].ids[s] = seg[g].ids[s]
                      \/ Place(seg'[g].ids[s], s)
                      \/ ~seg[g].served /\ seg'[g].ids[s] \in {Blank, Unused}
Anew(g) ==
  /\ seg'[g].ids = Zeros /\ ~seg'[g].served
  /\ \A p \in Processes : g \notin holds[p] \/ g \notin holds'[p]
Evolves == \A g \in Segments : seg'[g] = seg[g] \/ Stays(g) \/ Anew(g)

LEMMA SlotsEvolve == IInv /\ Evolves => SlotInv'
<1> SUFFICES ASSUME IInv, Evolves, NEW g \in Segments
    PROVE /\ \A s \in Slots : seg'[g].ids[s] \in {Blank, Unused} \/ Place(seg'[g].ids[s], s)
          /\ seg'[g].served => \A s \in DOMAIN Registry : seg'[g].ids[s] = Registry[s]
  BY DEF SlotInv
<1> USE RegistryLemma
<1>1. CASE seg'[g] = seg[g]
  BY <1>1 DEF IInv, SlotInv
<1>2. CASE Stays(g)
  BY <1>2 DEF IInv, SlotInv, Stays, Place
<1>3. CASE Anew(g)
  BY <1>3, FreshLemma DEF Anew
<1> QED
  BY <1>1, <1>2, <1>3 DEF Evolves

(* A client that the step does not touch is as it was.                      *)
SameClient(c) ==
  /\ cpc'[c] = cpc[c] /\ cseg'[c] = cseg[c] /\ cslot'[c] = cslot[c] /\ map'[c] = map[c]
  /\ index'[c] = index[c] /\ open'[c] = open[c] /\ holds'[c] = holds[c]

ScanOk(c) ==
  cpc[c] \in {"scan", "default", "count"} =>
    /\ cseg[c] \in Segments /\ cseg[c] \in holds[c]
    /\ cpc[c] = "default" => cslot[c] <= Len(DefaultIds)
    /\ \/ seg[cseg[c]].early
       \/ /\ seg[cseg[c]].served /\ cpc[c] # "default"
          /\ \A s \in Passed(c) : <<Registry[s], s>> \in map[c]
OpenOk(c) ==
  \A k \in Handles : open[c][k] # 0 =>
    /\ open[c][k] \in holds[c]
    /\ \/ seg[open[c][k]].early
       \/ /\ seg[open[c][k]].served
          /\ \A s \in DOMAIN Registry : <<Registry[s], s>> \in index[c][k]
ClientOk(c) == ScanOk(c) /\ OpenOk(c)

LEMMA HeldEvolves ==
  ASSUME IInv, Evolves, NEW c \in Clients, NEW g \in Segments, g \in holds[c], g \in holds'[c]
  PROVE  (seg[g].early => seg'[g].early) /\ (seg[g].served => seg'[g].served)
BY DEF Evolves, Stays, Anew, Processes

LEMMA ClientEvolves ==
  ASSUME IInv, Evolves, NEW c \in Clients, SameClient(c)
  PROVE  ClientOk(c)'
<1>1. ClientOk(c) /\ holds[c] \subseteq Segments
  BY DEF IInv, ClientInv, ClientOk, ScanOk, OpenOk, TypeOK, Processes
<1>2. \A g \in holds[c] :
        (seg[g].early => seg'[g].early) /\ (seg[g].served => seg'[g].served)
  BY <1>1, HeldEvolves DEF SameClient
<1>3. Passed(c)' = Passed(c)
  BY DEF Passed, SameClient
<1> QED
  BY <1>1, <1>2, <1>3 DEF ClientOk, ScanOk, OpenOk, SameClient

(* Nor does a manager notice what leaves its own segment's names alone.     *)
SameManager(m) ==
  /\ mpc'[m] = mpc[m] /\ mseg'[m] = mseg[m] /\ mslot'[m] = mslot[m] /\ holds'[m] = holds[m]
Harmless(g) ==
  /\ seg'[g].served = seg[g].served
  /\ \A s \in DOMAIN Registry : seg[g].ids[s] = Registry[s] => seg'[g].ids[s] = Registry[s]

ManagerOk(m) ==
  mpc[m] \in Working =>
    /\ mseg[m] \in Segments /\ mseg[m] \in holds[m]
    /\ mpc[m] \in Initialising => ~seg[mseg[m]].served
    /\ mpc[m] \in {"register", "health"} =>
         /\ mslot[m] <= Len(Registry)
         /\ \A s \in 1..(mslot[m] - 1) : seg[mseg[m]].ids[s] = Registry[s]
Apart == \A m, n \in Managers :
  m # n /\ mpc[m] \in Working /\ mpc[n] \in Working => mseg[m] # mseg[n]

LEMMA ManagerParts == ManagerInv <=> Apart /\ \A m \in Managers : ManagerOk(m)
BY DEF ManagerInv, Apart, ManagerOk

LEMMA ManagerEvolves ==
  ASSUME IInv, NEW m \in Managers, SameManager(m),
         mpc[m] \in Working => Harmless(mseg[m])
  PROVE  ManagerOk(m)'
<1>1. ManagerOk(m) /\ mslot[m] \in Slots
  BY ManagerParts DEF IInv, TypeOK
<1>2. mpc[m] \in {"register", "health"} => 1..(mslot[m] - 1) \subseteq DOMAIN Registry
  BY <1>1, RegistryLemma DEF ManagerOk, Working, Slots
<1> QED
  BY <1>1, <1>2 DEF ManagerOk, SameManager, Harmless

(* What the proof of a step comes down to.                                  *)
LEMMA StepParts ==
  ASSUME IInv, TypeOK', Evolves, Apart', \A m \in Managers : ManagerOk(m)',
         IndexInv', \A c \in Clients : ClientOk(c)', PageInv'
  PROVE  IInv'
<1>1. SlotInv'
  BY SlotsEvolve
<1>2. ManagerInv'
  BY DEF ManagerInv, Apart, ManagerOk
<1>3. ClientInv'
  BY DEF ClientInv, ClientOk, ScanOk, OpenOk
<1> QED
  BY <1>1, <1>2, <1>3 DEF IInv

(* A new segment was held by nobody.                                        *)
LEMMA MakeLemma ==
  ASSUME IInv, NEW p \in Processes, NEW b \in BOOLEAN, Make(p, b)
  PROVE  /\ name' \in Segments /\ name' # 0
         /\ holds' \in [Processes -> SUBSET Segments]
         /\ seg' \in [Segments -> SegmentType]
         /\ \A q \in Processes : name' \notin holds[q]
         /\ name' \in holds'[p] /\ holds[p] \subseteq holds'[p]
         /\ \A q \in Processes \ {p} : holds'[q] = holds[q]
         /\ \A g \in Segments : g # name' => seg'[g] = seg[g]
         /\ ~seg'[name'].served
         /\ Evolves
<1>1. holds \in [Processes -> SUBSET Segments] /\ seg \in [Segments -> SegmentType]
  BY DEF IInv, TypeOK
<1>2. PICK g \in Segments :
        /\ ~Held(g, holds) /\ name' = g /\ Take(p, g)
        /\ seg' = Set(seg, g, [Fresh EXCEPT !.small = b])
  BY DEF Make
<1>3. \A q \in Processes : g \notin holds[q]
  BY <1>2 DEF Held
<1>4. holds' = [holds EXCEPT ![p] = holds[p] \cup {g}]
  BY <1>2 DEF Take, Set
<1>5. PICK f : f = [Fresh EXCEPT !.small = b] /\ seg' = [seg EXCEPT ![g] = f]
  BY <1>2 DEF Set
<1>6. f \in SegmentType /\ f.ids = Zeros /\ f.served = FALSE
  BY <1>5, FreshLemma
<1>7. g # 0
  BY RegistryLemma DEF Segments
<1>8. Evolves
  BY <1>1, <1>3, <1>5, <1>6 DEF Evolves, Anew
<1> QED
  BY <1>1, <1>2, <1>3, <1>4, <1>5, <1>6, <1>7, <1>8

(* Letting go frees no segment that a process keeps.                        *)
LEMMA ReleaseLemma ==
  ASSUME IInv, NEW p \in Processes, NEW kept \in SUBSET Segments,
         NEW s \in [Segments -> SegmentType],
         \A g \in Segments : /\ s[g].ids = seg[g].ids /\ s[g].served = seg[g].served
                             /\ s[g].early = seg[g].early,
         holds' = Set(holds, p, kept), seg' = Freed(s)
  PROVE  /\ holds' \in [Processes -> SUBSET Segments]
         /\ seg' \in [Segments -> SegmentType]
         /\ holds'[p] = kept
         /\ \A q \in Processes \ {p} : holds'[q] = holds[q]
         /\ \A q \in Processes, g \in Segments : g \in holds'[q] => seg'[g] = s[g]
         /\ Evolves
<1>1. holds \in [Processes -> SUBSET Segments] /\ seg \in [Segments -> SegmentType]
  BY DEF IInv, TypeOK
<1>2. holds' = [holds EXCEPT ![p] = kept]
  BY DEF Set
<1>3. \A g \in Segments : seg'[g] = s[g] \/ (seg'[g] = Fresh /\ ~Held(g, holds'))
  BY DEF Freed
<1>4. seg' \in [Segments -> SegmentType]
  BY FreshLemma DEF Freed
<1>5. \A q \in Processes, g \in Segments : g \in holds'[q] => seg'[g] = s[g]
  BY DEF Freed, Held
<1>6. \A g \in Segments : seg'[g] = s[g] => Stays(g)
  BY DEF Stays
<1>7. \A g \in Segments : seg'[g] = Fresh /\ ~Held(g, holds') => Anew(g)
  BY FreshLemma DEF Anew, Held
<1>8. Evolves
  BY <1>3, <1>6, <1>7 DEF Evolves
<1> QED
  BY <1>1, <1>2, <1>4, <1>5, <1>8

(* A process that takes one more segment keeps those it had.                *)
LEMMA TakeLemma ==
  ASSUME IInv, NEW p \in Processes, NEW g \in Segments, Take(p, g)
  PROVE  /\ holds' \in [Processes -> SUBSET Segments]
         /\ g \in holds'[p] /\ holds[p] \subseteq holds'[p]
         /\ \A q \in Processes \ {p} : holds'[q] = holds[q]
BY DEF IInv, TypeOK, Take, Set

(* The processes are of three kinds.                                        *)
LEMMA Kinds ==
  /\ Managers \subseteq Processes /\ Clients \subseteq Processes /\ Page \in Processes
  /\ Managers \cap Clients = {} /\ Page \notin Managers /\ Page \notin Clients
BY SegmentAssumption DEF Processes

(* Steps that change no manager and harm no segment leave managers alone;   *)
(* likewise clients and indices.                                            *)
LEMMA ManagersSame ==
  ASSUME IInv, UNCHANGED mgrVars, \A m \in Managers : holds'[m] = holds[m],
         \A m \in Managers : mpc[m] \in Working => Harmless(mseg[m])
  PROVE  Apart' /\ \A m \in Managers : ManagerOk(m)'
<1>1. Apart'
  BY ManagerParts DEF IInv, Apart, mgrVars
<1>2. \A m \in Managers : SameManager(m)
  BY DEF SameManager, mgrVars
<1> QED
  BY <1>1, <1>2, ManagerEvolves

LEMMA ClientsSame ==
  ASSUME IInv, Evolves, UNCHANGED cliVars, \A c \in Clients : holds'[c] = holds[c]
  PROVE  \A c \in Clients : ClientOk(c)'
<1>1. \A c \in Clients : SameClient(c)
  BY DEF SameClient, cliVars
<1> QED
  BY <1>1, ClientEvolves

LEMMA QuietLemma ==
  ASSUME UNCHANGED seg
  PROVE  Evolves /\ \A g : Harmless(g)
BY DEF Evolves, Harmless

(* A manager at work disturbs no other one.                                 *)
LEMMA OthersSame ==
  ASSUME IInv, NEW m \in Managers, \A n \in Managers \ {m} : SameManager(n),
         \A g \in Segments : g # mseg'[m] => seg'[g] = seg[g],
         \A n \in Managers \ {m} : mpc[n] \in Working => mseg[n] # mseg'[m]
  PROVE  Apart' /\ \A n \in Managers \ {m} : ManagerOk(n)'
<1>1. Apart /\ \A n \in Managers : ManagerOk(n)
  BY ManagerParts DEF IInv
<1>2. Apart'
  BY <1>1 DEF Apart, SameManager
<1>3. \A n \in Managers \ {m} : mpc[n] \in Working => Harmless(mseg[n])
  BY <1>1 DEF ManagerOk, Harmless
<1> QED
  BY <1>2, <1>3, ManagerEvolves

-----------------------------------------------------------------------------
(* The manager's steps.                                                     *)
LEMMA ManagerMakes == ASSUME IInv, NEW m \in Managers, ManagerCreates(m) PROVE IInv'
<1>1. /\ Make(m, FALSE) /\ mpc[m] = "down" /\ mpc' = [mpc EXCEPT ![m] = "wipe"]
      /\ mseg' = [mseg EXCEPT ![m] = name']
      /\ UNCHANGED <<world, mslot, signalled, cliVars, pageVars, kills>>
  BY DEF ManagerCreates, MGoes, Set
<1>2. m \in Processes
  BY Kinds
<1>3. /\ name' \in Segments /\ holds' \in [Processes -> SUBSET Segments]
      /\ seg' \in [Segments -> SegmentType]
      /\ \A q \in Processes : name' \notin holds[q]
      /\ name' \in holds'[m] /\ holds[m] \subseteq holds'[m]
      /\ \A q \in Processes \ {m} : holds'[q] = holds[q]
      /\ \A g \in Segments : g # name' => seg'[g] = seg[g]
      /\ ~seg'[name'].served /\ Evolves
  BY <1>1, <1>2, MakeLemma
<1>4. TypeOK'
  BY <1>1, <1>3 DEF IInv, TypeOK, Working, Segments, cliVars, pageVars
<1>5. mseg'[m] = name' /\ mpc'[m] = "wipe"
  BY <1>1 DEF IInv, TypeOK
<1>6. \A n \in Managers \ {m} : SameManager(n) /\ n \in Processes
  BY <1>1, <1>3, Kinds DEF IInv, TypeOK, SameManager
<1>7. \A n \in Managers \ {m} : mpc[n] \in Working => mseg[n] # mseg'[m]
  BY <1>3, <1>5, <1>6, ManagerParts DEF IInv, ManagerOk
<1>8. Apart' /\ \A n \in Managers \ {m} : ManagerOk(n)'
  BY <1>3, <1>5, <1>6, <1>7, OthersSame
<1>9. ManagerOk(m)'
  BY <1>3, <1>5 DEF ManagerOk
<1>10. \A c \in Clients : ClientOk(c)'
  BY <1>1, <1>3, Kinds, ClientsSame
<1>11. IndexInv' /\ PageInv'
  BY <1>1 DEF IInv, IndexInv, PageInv, cliVars, pageVars
<1> QED
  BY <1>3, <1>4, <1>8, <1>9, <1>10, <1>11, StepParts

LEMMA ManagerQuiet ==
  ASSUME IInv, NEW m \in Managers, ManagerRefused(m) \/ ManagerExits(m) \/ Signal(m)
  PROVE  IInv'
<1>1. /\ UNCHANGED <<world, name, holds, seg, mseg, mslot, cliVars, pageVars, kills>>
      /\ \A n \in Managers : mpc'[n] \in Working => mpc'[n] = mpc[n]
      /\ \A n \in Managers : mpc'[n] = mpc[n] \/ mpc'[n] \in {"down", "refused"}
  BY DEF ManagerRefused, ManagerExits, Signal, MGoes, Set, IInv, TypeOK, Working
<1>2. TypeOK'
  BY <1>1 DEF ManagerRefused, ManagerExits, Signal, MGoes, Set, IInv, TypeOK, Working,
              cliVars, pageVars
<1>3. Evolves /\ \A g : Harmless(g)
  BY <1>1, QuietLemma
<1>4. Apart' /\ \A n \in Managers : ManagerOk(n)'
  BY <1>1, ManagerParts DEF IInv, Apart, ManagerOk
<1>5. \A c \in Clients : ClientOk(c)'
  BY <1>1, <1>3, ClientsSame
<1>6. IndexInv' /\ PageInv'
  BY <1>1 DEF IInv, IndexInv, PageInv, cliVars, pageVars
<1> QED
  BY <1>2, <1>3, <1>4, <1>5, <1>6, StepParts

(* A step of a manager at work inside its segment, which turns it into s    *)
(* and goes to pc at slot.                                                  *)
Lawful(t, pc, slot, s) ==
  /\ s \in SegmentType /\ pc \in Working /\ slot \in Slots
  /\ s.early = t.early /\ (t.served => s.served)
  /\ s.served => t.served \/ \A i \in DOMAIN Registry : s.ids[i] = Registry[i]
  /\ \A i \in Slots : \/ s.ids[i] = t.ids[i] \/ Place(s.ids[i], i)
                      \/ ~t.served /\ s.ids[i] \in {Blank, Unused}
  /\ pc \in Initialising => ~s.served
  /\ pc \in {"register", "health"} =>
       slot <= Len(Registry) /\ \A i \in 1..(slot - 1) : s.ids[i] = Registry[i]

LEMMA InitialiseLemma ==
  ASSUME IInv, NEW m \in Managers, mpc[m] \in Working, NEW s, Initialise(m, s),
         NEW pc, MGoes(m, pc), NEW slot, mslot' = Set(mslot, m, slot),
         Lawful(seg[mseg[m]], pc, slot, s)
  PROVE  IInv'
<1> USE DEF Lawful
<1>1. /\ mpc \in [Managers -> Working \cup {"down", "refused"}] /\ mslot \in [Managers -> Slots]
      /\ seg \in [Segments -> SegmentType] /\ ManagerOk(m) /\ Apart
  BY ManagerParts DEF IInv, TypeOK
<1>2. /\ mseg[m] \in Segments /\ mseg[m] \in holds[m]
      /\ UNCHANGED <<world, name, holds, mseg, signalled, cliVars, pageVars, kills>>
      /\ seg' = [seg EXCEPT ![mseg[m]] = s]
      /\ mpc' = [mpc EXCEPT ![m] = pc] /\ mslot' = [mslot EXCEPT ![m] = slot]
  BY <1>1 DEF ManagerOk, Initialise, MGoes, Set
<1>3. TypeOK'
  BY <1>1, <1>2 DEF IInv, TypeOK, cliVars, pageVars
<1>4. Evolves
  BY <1>1, <1>2 DEF Evolves, Stays
<1>5. /\ \A n \in Managers \ {m} : SameManager(n)
      /\ \A n \in Managers \ {m} : mpc[n] \in Working => mseg[n] # mseg'[m]
      /\ \A g \in Segments : g # mseg'[m] => seg'[g] = seg[g]
  BY <1>1, <1>2 DEF SameManager, Apart
<1>6. Apart' /\ \A n \in Managers \ {m} : ManagerOk(n)'
  BY <1>5, OthersSame
<1>7. mpc'[m] = pc /\ mslot'[m] = slot /\ seg'[mseg'[m]] = s
  BY <1>1, <1>2
<1>8. ManagerOk(m)'
  BY <1>2, <1>7 DEF ManagerOk
<1>9. \A c \in Clients : ClientOk(c)'
  BY <1>2, <1>4, ClientsSame
<1>10. IndexInv' /\ PageInv'
  BY <1>2 DEF IInv, IndexInv, PageInv, cliVars, pageVars
<1> QED
  BY <1>3, <1>4, <1>6, <1>8, <1>9, <1>10, StepParts

LEMMA ManagerFacts ==
  ASSUME IInv, NEW m \in Managers, mpc[m] \in Working
  PROVE  /\ mslot[m] \in Slots /\ mseg[m] \in Segments /\ mseg[m] \in holds[m]
         /\ seg[mseg[m]] \in SegmentType /\ ManagerOk(m)
         /\ mpc[m] \in Initialising => ~seg[mseg[m]].served
         /\ mslot = Set(mslot, m, mslot[m]) /\ 1 \in Slots
         /\ \A s \in DOMAIN Registry : s \in Slots
BY ManagerParts, RegistryLemma DEF IInv, TypeOK, ManagerOk, Set, Slots

(* A field of a segment may be replaced by one of its type.                 *)
LEMMA FieldTypes ==
  ASSUME NEW t \in SegmentType
  PROVE  /\ \A z \in [Slots -> Ids] : [t EXCEPT !.ids = z] \in SegmentType
         /\ \A n \in Int : [t EXCEPT !.clients = n] \in SegmentType
         /\ \A b \in BOOLEAN : /\ [t EXCEPT !.stop = b] \in SegmentType
                             /\ [t EXCEPT !.numbered = b] \in SegmentType
                             /\ [t EXCEPT !.comm = b] \in SegmentType
<1>1. \A z \in [Slots -> Ids] : [t EXCEPT !.ids = z] \in SegmentType
  BY DEF SegmentType
<1>2. \A n \in Int : [t EXCEPT !.clients = n] \in SegmentType
  BY DEF SegmentType
<1>3. \A b \in BOOLEAN : [t EXCEPT !.stop = b] \in SegmentType
  BY DEF SegmentType
<1>4. \A b \in BOOLEAN : [t EXCEPT !.numbered = b] \in SegmentType
  BY DEF SegmentType
<1>5. \A b \in BOOLEAN : [t EXCEPT !.comm = b] \in SegmentType
  BY DEF SegmentType
<1> QED
  BY <1>1, <1>2, <1>3, <1>4, <1>5

LEMMA ManagerWipes == ASSUME IInv, NEW m \in Managers, Wipe(m) PROVE IInv'
<1>1. /\ mpc[m] \in Working /\ mpc[m] \in Initialising /\ mslot' = mslot
      /\ "header" \in Working /\ MGoes(m, "header")
  BY DEF Wipe, Working, Initialising
<1>2. PICK s :
        /\ s = [seg[mseg[m]] EXCEPT !.ids = Zeros, !.clients = 0, !.stop = FALSE,
                                    !.numbered = FALSE, !.comm = FALSE]
        /\ Initialise(m, s)
  BY DEF Wipe
<1>3. /\ mslot[m] \in Slots /\ seg[mseg[m]] \in SegmentType /\ ~seg[mseg[m]].served
      /\ mslot' = Set(mslot, m, mslot[m])
  BY <1>1, ManagerFacts
<1>4. /\ s \in SegmentType /\ ~s.served /\ s.early = seg[mseg[m]].early
      /\ \A i \in Slots : s.ids[i] = Blank
  <2>1. /\ s.ids = Zeros /\ ~s.served /\ s.early = seg[mseg[m]].early
    BY <1>2, <1>3 DEF SegmentType
  <2>2. Zeros \in [Slots -> Ids] /\ \A i \in Slots : Zeros[i] = Blank
    BY FreshLemma
  <2> DEFINE t1 == [seg[mseg[m]] EXCEPT !.ids = Zeros]
             t2 == [t1 EXCEPT !.clients = 0]
             t3 == [t2 EXCEPT !.stop = FALSE]
             t4 == [t3 EXCEPT !.numbered = FALSE]
             t5 == [t4 EXCEPT !.comm = FALSE]
  <2> HIDE DEF t1, t2, t3, t4, t5
  <2>3. t1 \in SegmentType
    BY <1>3, <2>2, FieldTypes DEF t1
  <2>4. t2 \in SegmentType
    BY <2>3, FieldTypes DEF t2
  <2>5. t3 \in SegmentType
    BY <2>4, FieldTypes DEF t3
  <2>6. t4 \in SegmentType
    BY <2>5, FieldTypes DEF t4
  <2>7. t5 \in SegmentType
    BY <2>6, FieldTypes DEF t5
  <2>8. s \in SegmentType
    BY <1>2, <2>7 DEF t1, t2, t3, t4, t5
  <2> QED
    BY <2>1, <2>2, <2>8
<1>5. Lawful(seg[mseg[m]], "header", mslot[m], s)
  BY <1>1, <1>3, <1>4 DEF Lawful
<1> QED
  BY <1>1, <1>2, <1>3, <1>5, InitialiseLemma

LEMMA ManagerHeads == ASSUME IInv, NEW m \in Managers, Header(m) PROVE IInv'
<1>1. /\ mpc[m] \in Working /\ mpc[m] \in Initialising /\ mslot' = mslot
      /\ "fill" \in Working /\ MGoes(m, "fill")
  BY DEF Header, Working, Initialising
<1>2. PICK s :
        /\ s = [seg[mseg[m]] EXCEPT !.clients = 0, !.stop = FALSE, !.numbered = TRUE]
        /\ Initialise(m, s)
  BY DEF Header
<1>3. /\ mslot[m] \in Slots /\ seg[mseg[m]] \in SegmentType /\ ~seg[mseg[m]].served
      /\ mslot' = Set(mslot, m, mslot[m])
  BY <1>1, ManagerFacts
<1>4. /\ s \in SegmentType /\ ~s.served /\ s.early = seg[mseg[m]].early
      /\ s.ids = seg[mseg[m]].ids
  <2> DEFINE t1 == [seg[mseg[m]] EXCEPT !.clients = 0]
             t2 == [t1 EXCEPT !.stop = FALSE]
             t3 == [t2 EXCEPT !.numbered = TRUE]
  <2> HIDE DEF t1, t2, t3
  <2>1. t1 \in SegmentType
    BY <1>3, FieldTypes DEF t1
  <2>2. t2 \in SegmentType
    BY <2>1, FieldTypes DEF t2
  <2>3. t3 \in SegmentType
    BY <2>2, FieldTypes DEF t3
  <2>4. s \in SegmentType
    BY <1>2, <2>3 DEF t1, t2, t3
  <2> QED
    BY <1>2, <1>3, <2>4 DEF SegmentType
<1>5. Lawful(seg[mseg[m]], "fill", mslot[m], s)
  BY <1>1, <1>3, <1>4 DEF Lawful
<1> QED
  BY <1>1, <1>2, <1>3, <1>5, InitialiseLemma

LEMMA ManagerSetsHealth == ASSUME IInv, NEW m \in Managers, DefaultHealth(m) PROVE IInv'
<1>1. /\ mpc[m] = "health" /\ mpc[m] \in Working /\ mpc[m] \in Initialising /\ mslot' = mslot
      /\ "register" \in Working /\ MGoes(m, "register")
  BY DEF DefaultHealth, Working, Initialising
<1>2. PICK s : s = [seg[mseg[m]] EXCEPT !.comm = TRUE] /\ Initialise(m, s)
  BY DEF DefaultHealth
<1>3. /\ mslot[m] \in Slots /\ seg[mseg[m]] \in SegmentType /\ ~seg[mseg[m]].served
      /\ mslot' = Set(mslot, m, mslot[m]) /\ ManagerOk(m)
  BY <1>1, ManagerFacts
<1>4. /\ s \in SegmentType /\ ~s.served /\ s.early = seg[mseg[m]].early
      /\ s.ids = seg[mseg[m]].ids
  BY <1>2, <1>3 DEF SegmentType
<1>5. mslot[m] <= Len(Registry) /\ \A i \in 1..(mslot[m] - 1) : s.ids[i] = Registry[i]
  BY <1>1, <1>3, <1>4 DEF ManagerOk
<1>6. Lawful(seg[mseg[m]], "register", mslot[m], s)
  BY <1>1, <1>3, <1>4, <1>5 DEF Lawful
<1> QED
  BY <1>1, <1>2, <1>3, <1>6, InitialiseLemma

LEMMA ManagerMonitors == ASSUME IInv, NEW m \in Managers, MonitorEnds(m) PROVE IInv'
<1>1. /\ mpc[m] \in Working /\ mslot' = mslot
      /\ "clean" \in Working \ Initialising /\ MGoes(m, "clean")
  BY DEF MonitorEnds, Working, Initialising
<1>2. PICK s : s = [seg[mseg[m]] EXCEPT !.stop = TRUE] /\ Initialise(m, s)
  BY DEF MonitorEnds
<1>3. /\ mslot[m] \in Slots /\ seg[mseg[m]] \in SegmentType
      /\ mslot' = Set(mslot, m, mslot[m])
  BY <1>1, ManagerFacts
<1>4. /\ s \in SegmentType /\ s.served = seg[mseg[m]].served
      /\ s.early = seg[mseg[m]].early /\ s.ids = seg[mseg[m]].ids
  BY <1>2, <1>3 DEF SegmentType
<1>5. Lawful(seg[mseg[m]], "clean", mslot[m], s)
  BY <1>1, <1>3, <1>4 DEF Lawful
<1> QED
  BY <1>1, <1>2, <1>3, <1>5, InitialiseLemma

LEMMA ManagerFills == ASSUME IInv, NEW m \in Managers, Fill(m) PROVE IInv'
<1> DEFINE more == mslot[m] < NSlots
           slot == IF more THEN mslot[m] + 1 ELSE 1
           pc == IF more THEN "fill" ELSE "register"
<1>1. /\ mpc[m] \in Working /\ mpc[m] \in Initialising
      /\ pc \in Working /\ MGoes(m, pc) /\ mslot' = Set(mslot, m, slot)
  BY DEF Fill, WriteSlot, Working, Initialising
<1>2. PICK s :
        /\ s = [seg[mseg[m]] EXCEPT !.ids[mslot[m]] = Unused, !.served = FALSE]
        /\ Initialise(m, s)
  BY DEF Fill, WriteSlot
<1>3. /\ mslot[m] \in Slots /\ seg[mseg[m]] \in SegmentType /\ ~seg[mseg[m]].served
  BY <1>1, ManagerFacts
<1>4. /\ s \in SegmentType /\ ~s.served /\ s.early = seg[mseg[m]].early
      /\ \A i \in Slots : s.ids[i] \in {seg[mseg[m]].ids[i], Unused}
  BY <1>2, <1>3 DEF SegmentType, Ids
<1>5. slot \in Slots /\ (pc = "register" => slot = 1) /\ pc # "health"
  BY <1>3, RegistryLemma DEF Slots
<1>6. pc \in {"register", "health"} =>
        slot <= Len(Registry) /\ \A i \in 1..(slot - 1) : s.ids[i] = Registry[i]
  BY <1>5, RegistryLemma
<1> HIDE DEF slot, pc
<1>7. Lawful(seg[mseg[m]], pc, slot, s)
  BY <1>1, <1>3, <1>4, <1>5, <1>6 DEF Lawful
<1> QED
  BY <1>1, <1>2, <1>7, InitialiseLemma

LEMMA ManagerRegisters == ASSUME IInv, NEW m \in Managers, Register(m) PROVE IInv'
<1> DEFINE more == mslot[m] < Len(Registry)
           slot == IF more THEN mslot[m] + 1 ELSE 1
           pc == IF mslot[m] = HealthAfter THEN "health" ELSE IF more THEN "register" ELSE "serve"
<1>1. /\ mpc[m] = "register" /\ mpc[m] \in Working /\ mpc[m] \in Initialising
      /\ pc \in Working /\ MGoes(m, pc) /\ mslot' = Set(mslot, m, slot)
  BY DEF Register, WriteSlot, Working, Initialising
<1>2. PICK s :
        /\ s = [seg[mseg[m]] EXCEPT !.ids[mslot[m]] = Registry[mslot[m]], !.served = ~more]
        /\ Initialise(m, s)
  BY DEF Register, WriteSlot
<1>3. /\ mslot[m] \in Slots /\ seg[mseg[m]] \in SegmentType /\ ~seg[mseg[m]].served
      /\ ManagerOk(m)
  BY <1>1, ManagerFacts
<1>4. /\ mslot[m] \in 1..Len(Registry)
      /\ \A i \in 1..(mslot[m] - 1) : seg[mseg[m]].ids[i] = Registry[i]
  BY <1>1, <1>3 DEF ManagerOk, Slots
<1>5. /\ s \in SegmentType /\ s.served = ~more /\ s.early = seg[mseg[m]].early
      /\ s.ids[mslot[m]] = Registry[mslot[m]]
      /\ \A i \in Slots \ {mslot[m]} : s.ids[i] = seg[mseg[m]].ids[i]
  BY <1>2, <1>3, <1>4, RegistryLemma DEF SegmentType
<1>6. slot \in Slots /\ (more => slot <= Len(Registry))
  BY <1>3, <1>4, RegistryLemma DEF Slots
<1>7. \A i \in 1..mslot[m] : s.ids[i] = Registry[i]
  BY <1>3, <1>4, <1>5, RegistryLemma DEF Slots
<1>8. ~more => \A i \in DOMAIN Registry : s.ids[i] = Registry[i]
  BY <1>4, <1>7, RegistryLemma
<1>9. pc \in {"register", "health"} => more
  BY SegmentAssumption, RegistryLemma
<1>10. pc \in Initialising => ~s.served
  BY <1>5, <1>9 DEF Initialising, Working
<1>11. pc \in {"register", "health"} =>
         slot <= Len(Registry) /\ \A i \in 1..(slot - 1) : s.ids[i] = Registry[i]
  BY <1>4, <1>6, <1>7, <1>9
<1>12. \A i \in Slots : s.ids[i] = seg[mseg[m]].ids[i] \/ Place(s.ids[i], i)
  BY <1>4, <1>5, RegistryLemma DEF Place
<1> HIDE DEF slot, pc, more
<1>13. Lawful(seg[mseg[m]], pc, slot, s)
  BY <1>1, <1>3, <1>5, <1>6, <1>8, <1>10, <1>11, <1>12 DEF Lawful
<1> QED
  BY <1>1, <1>2, <1>13, InitialiseLemma

(* A manager that ends, by itself or killed.                                *)
LEMMA ForgottenLemma ==
  ASSUME IInv, NEW m \in Managers, Forgotten(m),
         NEW s \in [Segments -> SegmentType],
         \A g \in Segments : /\ s[g].ids = seg[g].ids /\ s[g].served = seg[g].served
                             /\ s[g].early = seg[g].early,
         holds' = Set(holds, m, {}), seg' = Freed(s),
         name' \in 0..MaxSegments, kills' \in 0..MaxKills,
         UNCHANGED <<world, cliVars, pageVars>>
  PROVE  IInv'
<1>1. m \in Processes /\ {} \in SUBSET Segments
  BY Kinds
<1>2. /\ holds' \in [Processes -> SUBSET Segments] /\ seg' \in [Segments -> SegmentType]
      /\ \A q \in Processes \ {m} : holds'[q] = holds[q]
      /\ \A q \in Processes, g \in Segments : g \in holds'[q] => seg'[g] = s[g]
      /\ Evolves
  BY <1>1, ReleaseLemma
<1>3. /\ mpc' = [mpc EXCEPT ![m] = "down"] /\ mseg' = [mseg EXCEPT ![m] = 0]
      /\ mslot' = [mslot EXCEPT ![m] = 1] /\ signalled' = [signalled EXCEPT ![m] = FALSE]
  BY DEF Forgotten, MGoes, Set
<1>4. TypeOK'
  <2>1. TypeOK /\ 1 \in Slots /\ 0 \in 0..MaxSegments
    BY RegistryLemma DEF IInv, Slots
  <2> QED
    BY <1>2, <1>3, <2>1 DEF TypeOK, cliVars, pageVars
<1>5. \A n \in Managers \ {m} : SameManager(n) /\ n \in Processes
  BY <1>2, <1>3, Kinds DEF IInv, TypeOK, SameManager
<1>6. Apart /\ \A n \in Managers : ManagerOk(n)
  BY ManagerParts DEF IInv
<1>7. mpc'[m] = "down" /\ "down" \notin Working
  BY <1>3 DEF IInv, TypeOK, Working
<1>8. Apart'
  BY <1>5, <1>6, <1>7 DEF Apart, SameManager
<1>9. \A n \in Managers \ {m} : mpc[n] \in Working => Harmless(mseg[n])
  BY <1>2, <1>5, <1>6 DEF ManagerOk, Harmless, SameManager
<1>10. ManagerOk(m)'
  BY <1>7 DEF ManagerOk
<1>11. \A n \in Managers : ManagerOk(n)'
  BY <1>5, <1>9, <1>10, ManagerEvolves
<1>12. \A c \in Clients : ClientOk(c)'
  BY <1>2, Kinds, ClientsSame
<1>13. IndexInv' /\ PageInv'
  BY DEF IInv, IndexInv, PageInv, cliVars, pageVars
<1> QED
  BY <1>2, <1>4, <1>8, <1>11, <1>12, <1>13, StepParts

LEMMA NameLemma == IInv => \A h : NameAfter(h) \in 0..MaxSegments
BY RegistryLemma DEF IInv, TypeOK, NameAfter

LEMMA ManagerCleans == ASSUME IInv, NEW m \in Managers, Clean(m) PROVE IInv'
<1>1. seg \in [Segments -> SegmentType] /\ kills \in 0..MaxKills /\ 0 \in 0..MaxSegments
  BY RegistryLemma DEF IInv, TypeOK
<1>2. name' \in 0..MaxSegments
  BY <1>1, NameLemma DEF Clean
<1> QED
  BY <1>1, <1>2, ForgottenLemma DEF Clean

LEMMA ManagerKilled == ASSUME IInv, NEW m \in Managers, KillManager(m) PROVE IInv'
<1> DEFINE s == [seg EXCEPT ![mseg[m]].orphan = TRUE]
<1>1. seg \in [Segments -> SegmentType] /\ kills \in 0..MaxKills /\ kills < MaxKills
  BY DEF IInv, TypeOK, KillManager
<1>2. /\ s \in [Segments -> SegmentType]
      /\ \A g \in Segments : /\ s[g].ids = seg[g].ids /\ s[g].served = seg[g].served
                             /\ s[g].early = seg[g].early
  BY <1>1 DEF SegmentType
<1>3. kills' \in 0..MaxKills /\ name' \in 0..MaxSegments
  BY <1>1, NameLemma, RegistryLemma DEF KillManager, Release
<1>4. /\ Forgotten(m) /\ holds' = Set(holds, m, {}) /\ seg' = Freed(s)
      /\ UNCHANGED <<world, cliVars, pageVars>>
  BY DEF KillManager, Release
<1> HIDE DEF s
<1> QED
  BY <1>2, <1>3, <1>4, ForgottenLemma

LEMMA ManagerStep == ASSUME IInv, NEW m \in Managers, ManagerSteps(m) PROVE IInv'
BY ManagerMakes, ManagerQuiet, ManagerWipes, ManagerHeads, ManagerFills, ManagerRegisters,
   ManagerSetsHealth, ManagerMonitors, ManagerCleans, ManagerKilled
   DEF ManagerSteps, Initialises, Stops

-----------------------------------------------------------------------------
(* The client's steps.                                                      *)
IndexOk(c) ==
  /\ \A e \in map[c] : Place(e[1], e[2])
  /\ \A k \in Handles : \A e \in index[c][k] : Place(e[1], e[2])

LEMMA ClientParts ==
  ASSUME IInv, NEW c \in Clients
  PROVE  /\ ScanOk(c) /\ OpenOk(c) /\ IndexOk(c)
         /\ c \in Processes /\ holds[c] \subseteq Segments
         /\ open[c] \in [Handles -> 0..MaxSegments] /\ att[c] \in Handles
         /\ cslot[c] \in Slots /\ map[c] \subseteq Entry
BY Kinds DEF IInv, TypeOK, ClientInv, ScanOk, OpenOk, IndexInv, IndexOk

LEMMA ClientStepParts ==
  ASSUME IInv, NEW c \in Clients, TypeOK', Evolves,
         \A d \in Clients \ {c} : SameClient(d),
         \A m \in Managers : holds'[m] = holds[m],
         \A m \in Managers : mpc[m] \in Working => Harmless(mseg[m]),
         UNCHANGED <<mgrVars, pageVars>>,
         ScanOk(c)', OpenOk(c)', IndexOk(c)'
  PROVE  IInv'
<1>1. Apart' /\ \A m \in Managers : ManagerOk(m)'
  BY ManagersSame
<1>2. \A d \in Clients : ClientOk(d)'
  BY ClientEvolves DEF ClientOk
<1>3. \A d \in Clients : IndexOk(d)'
  BY DEF IInv, IndexInv, IndexOk, SameClient
<1>4. IndexInv' /\ PageInv'
  BY <1>3 DEF IInv, IndexInv, IndexOk, PageInv, pageVars
<1> QED
  BY <1>1, <1>2, <1>4, StepParts

(* What was attached before the step stays so.                              *)
LEMMA OpenEvolves ==
  ASSUME IInv, Evolves, NEW c \in Clients, NEW k \in Handles, open[c][k] # 0,
         open'[c][k] = open[c][k], index'[c][k] = index[c][k], holds[c] \subseteq holds'[c]
  PROVE  /\ open'[c][k] \in holds'[c]
         /\ \/ seg'[open'[c][k]].early
            \/ /\ seg'[open'[c][k]].served
               /\ \A s \in DOMAIN Registry : <<Registry[s], s>> \in index'[c][k]
<1>1. OpenOk(c) /\ open[c][k] \in Segments /\ open[c][k] \in holds[c]
  BY ClientParts DEF OpenOk
<1>2. (seg[open[c][k]].early => seg'[open[c][k]].early)
      /\ (seg[open[c][k]].served => seg'[open[c][k]].served)
  BY <1>1, HeldEvolves
<1> QED
  BY <1>1, <1>2 DEF OpenOk

LEMMA OpenStays ==
  ASSUME IInv, Evolves, NEW c \in Clients,
         open'[c] = open[c], index'[c] = index[c], holds[c] \subseteq holds'[c]
  PROVE  OpenOk(c)'
BY OpenEvolves DEF OpenOk

LEMMA OnwardLemma ==
  ASSUME IInv, NEW c \in Clients, NEW ok, Onward(c, ok)
  PROVE  /\ cpc' \in [Clients -> {"down", "open", "scan", "default", "count", "run", "exit"}]
         /\ att' \in [Clients -> Handles]
         /\ \A d \in Clients \ {c} : cpc'[d] = cpc[d]
         /\ cpc'[c] \in {"open", "run", "exit"}
<1> DEFINE again == att[c] < Attachments(c)
<1>1. /\ att' = [att EXCEPT ![c] = IF again THEN att[c] + 1 ELSE 1]
      /\ cpc' = [cpc EXCEPT ![c] = IF again THEN "open" ELSE
                                   IF ok \/ c \in Daemons THEN "run" ELSE "exit"]
  BY DEF Onward, CGoes, Set
<1>2. (IF again THEN att[c] + 1 ELSE 1) \in Handles
  BY DEF IInv, TypeOK, Attachments, Handles
<1> HIDE DEF again
<1> QED
  BY <1>1, <1>2 DEF IInv, TypeOK

(* Steps that leave every segment and every index alone.                    *)
LEMMA ClientQuiet ==
  ASSUME IInv, NEW c \in Clients,
         StartClient(c) \/ NotFound(c) \/ TooSmall(c) \/ ReadHealth(c)
  PROVE  IInv'
<1>1. /\ UNCHANGED <<world, name, seg, mgrVars, cseg, cslot, map, index, open, pageVars, kills>>
      /\ \A d \in Clients \ {c} : cpc'[d] = cpc[d]
      /\ cpc'[c] \notin {"scan", "default", "count"}
  BY DEF StartClient, NotFound, TooSmall, ReadHealth, Onward, CGoes, Set, IInv, TypeOK
<1>2. /\ holds' \in [Processes -> SUBSET Segments] /\ holds[c] \subseteq holds'[c]
      /\ \A p \in Processes \ {c} : holds'[p] = holds[p]
  <2>1. CASE TooSmall(c)
    <3>1. c \in Processes /\ name \in Segments /\ Take(c, name)
      BY <2>1, ClientParts DEF TooSmall, Finds, IInv, TypeOK, Segments
    <3> QED
      BY <3>1, TakeLemma
  <2>2. CASE ~TooSmall(c)
    BY <2>2 DEF StartClient, NotFound, ReadHealth, IInv, TypeOK
  <2> QED
    BY <2>1, <2>2
<1>3. TypeOK'
  <2>1. /\ cpc' \in [Clients -> {"down", "open", "scan", "default", "count", "run", "exit"}]
        /\ att' \in [Clients -> Handles]
    <3>1. CASE NotFound(c) \/ TooSmall(c)
      BY <3>1, OnwardLemma DEF NotFound, TooSmall
    <3>2. CASE StartClient(c) \/ ReadHealth(c)
      BY <3>2 DEF StartClient, ReadHealth, CGoes, Set, IInv, TypeOK
    <3> QED
      BY <3>1, <3>2
  <2>2. healthy' \in [Clients -> BOOLEAN]
    <3>1. CASE ReadHealth(c)
      <4>1. open[c][2] \in Segments /\ seg \in [Segments -> SegmentType]
        BY <3>1, ClientParts DEF ReadHealth, Knows, IInv, TypeOK, Handles, Segments
      <4>2. seg[open[c][2]].comm \in BOOLEAN
        BY <4>1 DEF SegmentType
      <4> QED
        BY <3>1, <4>2 DEF ReadHealth, Set, IInv, TypeOK
    <3>2. CASE ~ReadHealth(c)
      BY <3>2 DEF StartClient, NotFound, TooSmall, IInv, TypeOK
    <3> QED
      BY <3>1, <3>2
  <2> QED
    BY <1>1, <1>2, <2>1, <2>2 DEF IInv, TypeOK, mgrVars, pageVars
<1>4. Evolves /\ \A g : Harmless(g)
  BY <1>1, QuietLemma
<1>5. /\ \A d \in Clients \ {c} : SameClient(d)
      /\ \A m \in Managers : holds'[m] = holds[m]
  BY <1>1, <1>2, Kinds DEF SameClient
<1>6. ScanOk(c)' /\ OpenOk(c)' /\ IndexOk(c)'
  BY <1>1, <1>2, <1>4, OpenStays, ClientParts DEF ScanOk, IndexOk
<1> QED
  BY <1>1, <1>3, <1>4, <1>5, <1>6, ClientStepParts

(* A step that turns segment g, which no manager minds, into s.             *)
LEMMA ChangeLemma ==
  ASSUME IInv, NEW g \in Segments, NEW s \in SegmentType, seg' = [seg EXCEPT ![g] = s],
         s.served = seg[g].served, seg[g].early => s.early,
         \A i \in Slots : s.ids[i] = seg[g].ids[i] \/ Place(s.ids[i], i)
  PROVE  seg' \in [Segments -> SegmentType] /\ Evolves /\ \A f \in Segments : Harmless(f)
<1>1. seg \in [Segments -> SegmentType]
  BY DEF IInv, TypeOK
<1>2. Stays(g)
  BY <1>1 DEF Stays
<1>3. \A i \in DOMAIN Registry : i \in Slots
  BY RegistryLemma
<1>4. Harmless(g)
  BY <1>1, <1>3 DEF Harmless, Place
<1>5. \A f \in Segments \ {g} : seg'[f] = seg[f] /\ Harmless(f)
  BY <1>1 DEF Harmless
<1> QED
  BY <1>1, <1>2, <1>4, <1>5 DEF Evolves

LEMMA WorkingSegments == IInv => \A m \in Managers : mpc[m] \in Working => mseg[m] \in Segments
BY ManagerParts DEF IInv, ManagerOk

LEMMA ClientOpens == ASSUME IInv, NEW c \in Clients, Open(c) PROVE IInv'
<1>1. /\ name \in Segments /\ c \in Processes /\ 1 \in Slots
      /\ Take(c, name)
      /\ UNCHANGED <<world, name, mgrVars, att, index, open, healthy, pageVars, kills>>
      /\ cpc' = [cpc EXCEPT ![c] = "scan"] /\ cseg' = [cseg EXCEPT ![c] = name]
      /\ cslot' = [cslot EXCEPT ![c] = 1] /\ map' = [map EXCEPT ![c] = {}]
  BY ClientParts, RegistryLemma DEF Open, Finds, CGoes, Set, IInv, TypeOK, Segments, Slots
<1>2. /\ seg \in [Segments -> SegmentType] /\ seg[name] \in SegmentType
      /\ cpc \in [Clients -> {"down", "open", "scan", "default", "count", "run", "exit"}]
      /\ cseg \in [Clients -> 0..MaxSegments] /\ cslot \in [Clients -> Slots]
      /\ map \in [Clients -> SUBSET Entry]
  BY <1>1 DEF IInv, TypeOK
<1>3. PICK s :
        /\ s = [seg[name] EXCEPT !.early = seg[name].early \/ ~seg[name].served]
        /\ seg' = [seg EXCEPT ![name] = s]
  BY DEF Open
<1>4. /\ s \in SegmentType /\ s.ids = seg[name].ids /\ s.served = seg[name].served
      /\ s.early = (seg[name].early \/ ~seg[name].served)
  BY <1>2, <1>3 DEF SegmentType
<1>5. seg' \in [Segments -> SegmentType] /\ Evolves /\ \A f \in Segments : Harmless(f)
  BY <1>1, <1>3, <1>4, ChangeLemma
<1>6. /\ holds' \in [Processes -> SUBSET Segments]
      /\ name \in holds'[c] /\ holds[c] \subseteq holds'[c]
      /\ \A q \in Processes \ {c} : holds'[q] = holds[q]
  BY <1>1, TakeLemma
<1>7. TypeOK'
  <2>1. TypeOK
    BY DEF IInv
  <2> QED
    BY <1>1, <1>5, <1>6, <2>1 DEF TypeOK, mgrVars, pageVars, Segments
<1>8. /\ \A d \in Clients \ {c} : SameClient(d)
      /\ \A m \in Managers : holds'[m] = holds[m]
  BY <1>1, <1>2, <1>6, Kinds DEF SameClient
<1>9. ScanOk(c)'
  <2>1. cseg'[c] = name /\ cpc'[c] = "scan" /\ cslot'[c] = 1 /\ seg'[name] = s
    BY <1>1, <1>2, <1>3
  <2>2. s.early \/ s.served
    BY <1>2, <1>4 DEF SegmentType
  <2>3. Passed(c)' = {}
    BY <2>1, RegistryLemma DEF Passed
  <2> QED
    BY <1>1, <1>6, <2>1, <2>2, <2>3 DEF ScanOk
<1>10. OpenOk(c)'
  BY <1>1, <1>5, <1>6, OpenStays
<1>11. IndexOk(c)'
  BY <1>1, <1>2, ClientParts DEF IndexOk
<1>12. \A m \in Managers : mpc[m] \in Working => Harmless(mseg[m])
  BY <1>5, WorkingSegments
<1> QED
  BY <1>1, <1>5, <1>7, <1>8, <1>9, <1>10, <1>11, <1>12, ClientStepParts

LEMMA ClientTypes ==
  ASSUME IInv
  PROVE  /\ seg \in [Segments -> SegmentType]
         /\ cpc \in [Clients -> {"down", "open", "scan", "default", "count", "run", "exit"}]
         /\ cseg \in [Clients -> 0..MaxSegments] /\ cslot \in [Clients -> Slots]
         /\ map \in [Clients -> SUBSET Entry]
         /\ index \in [Clients -> [Handles -> SUBSET Entry]]
         /\ open \in [Clients -> [Handles -> 0..MaxSegments]]
BY DEF IInv, TypeOK

(* A slot adds to an index its name with its place, or nothing.             *)
LEMMA EntriesLemma ==
  ASSUME IInv, NEW g \in Segments, NEW i \in Slots
  PROVE  LET new == Entries(seg[g].ids[i], i) IN
         /\ new \subseteq Entry
         /\ \A e \in new : Place(e[1], e[2])
         /\ seg[g].served /\ i \in DOMAIN Registry => <<Registry[i], i>> \in new
<1>1. seg[g].ids[i] \in Ids
  BY DEF IInv, TypeOK, SegmentType
<1>2. seg[g].ids[i] \notin {Blank, Unused} => Place(seg[g].ids[i], i)
  BY DEF IInv, SlotInv
<1>3. seg[g].served /\ i \in DOMAIN Registry =>
        seg[g].ids[i] = Registry[i] /\ Registry[i] \notin {Blank, Unused}
  BY RegistryLemma DEF IInv, SlotInv
<1> QED
  BY <1>1, <1>2, <1>3 DEF Entries, Entry

LEMMA ClientScans == ASSUME IInv, NEW c \in Clients, Scan(c) PROVE IInv'
<1> DEFINE more == cslot[c] < NSlots
           slot == IF more THEN cslot[c] + 1 ELSE 1
           pc == IF more THEN "scan" ELSE IF Scanned(c) = {} THEN "default" ELSE "count"
<1>1. /\ cpc[c] = "scan"
      /\ map' = [map EXCEPT ![c] = Scanned(c)] /\ cslot' = [cslot EXCEPT ![c] = slot]
      /\ cpc' = [cpc EXCEPT ![c] = pc]
      /\ UNCHANGED <<world, name, holds, seg, mgrVars, att, cseg, index, open, healthy, pageVars, kills>>
  BY DEF Scan, CGoes, Set
<1>2. /\ cseg[c] \in Segments /\ cseg[c] \in holds[c] /\ cslot[c] \in Slots
      /\ ScanOk(c) /\ IndexOk(c) /\ map[c] \subseteq Entry
  BY <1>1, ClientParts DEF ScanOk
<1>3. PICK new :
        /\ Scanned(c) = map[c] \cup new
        /\ new \subseteq Entry /\ \A e \in new : Place(e[1], e[2])
        /\ seg[cseg[c]].served /\ cslot[c] \in DOMAIN Registry =>
             <<Registry[cslot[c]], cslot[c]>> \in new
  BY <1>2, EntriesLemma DEF Scanned
<1>4. slot \in Slots
  BY <1>2, RegistryLemma DEF Slots
<1>5. TypeOK'
  <2>1. TypeOK /\ Scanned(c) \subseteq Entry
    BY <1>2, <1>3 DEF IInv
  <2>2. pc \in {"down", "open", "scan", "default", "count", "run", "exit"}
    OBVIOUS
  <2> HIDE DEF slot, pc
  <2> QED
    BY <1>1, <1>4, <2>1, <2>2 DEF TypeOK, mgrVars, pageVars
<1>6. Evolves /\ \A g : Harmless(g)
  BY <1>1, QuietLemma
<1>7. map'[c] = map[c] \cup new /\ cslot'[c] = slot /\ cpc'[c] = pc /\ cseg'[c] = cseg[c]
  BY <1>1, <1>3, ClientTypes
<1>8. /\ \A d \in Clients \ {c} : SameClient(d)
      /\ \A m \in Managers : holds'[m] = holds[m]
  BY <1>1, ClientTypes DEF SameClient
<1>9. ScanOk(c)'
  <2>0. pc = "default" => slot <= Len(DefaultIds)
    BY RegistryLemma
  <2>1. CASE seg[cseg[c]].early
    BY <1>1, <1>2, <1>7, <2>0, <2>1 DEF ScanOk
  <2>2. CASE ~seg[cseg[c]].early
    <3>1. /\ seg[cseg[c]].served
          /\ \A s \in DOMAIN Registry : s < cslot[c] => <<Registry[s], s>> \in map[c]
      BY <1>1, <1>2, <2>2 DEF ScanOk, Passed
    <3>2. \A s \in DOMAIN Registry : s <= cslot[c] => <<Registry[s], s>> \in map'[c]
      BY <1>2, <1>3, <1>7, <3>1, RegistryLemma DEF Slots
    <3>3. \A s \in DOMAIN Registry : s \in Slots /\ s <= NSlots
      BY RegistryLemma DEF Slots
    <3>4. ~more => cslot[c] = NSlots /\ NSlots \in Nat
      BY <1>2, RegistryLemma DEF Slots
    <3>5. ~more => \A s \in DOMAIN Registry : <<Registry[s], s>> \in map'[c]
      BY <3>2, <3>3, <3>4
    <3>6. ~more => pc = "count"
      BY <1>3, <1>7, <3>5, RegistryLemma
    <3>7. more => \A s \in DOMAIN Registry : s < slot => <<Registry[s], s>> \in map'[c]
      BY <1>2, <3>2, <3>3 DEF Slots
    <3>8. \A s \in Passed(c)' : <<Registry[s], s>> \in map'[c]
      <4>1. CASE more
        BY <1>7, <3>7, <4>1 DEF Passed
      <4>2. CASE ~more
        BY <1>7, <3>5, <3>6, <4>2 DEF Passed
      <4> QED
        BY <4>1, <4>2
    <3>9. cpc'[c] # "default"
      BY <1>7, <3>6
    <3> QED
      BY <1>1, <1>2, <1>7, <3>1, <3>8, <3>9 DEF ScanOk
  <2> QED
    BY <2>1, <2>2
<1>10. OpenOk(c)'
  BY <1>1, <1>6, OpenStays
<1>11. IndexOk(c)'
  BY <1>1, <1>2, <1>3, <1>7 DEF IndexOk
<1> QED
  BY <1>1, <1>5, <1>6, <1>8, <1>9, <1>10, <1>11, ClientStepParts

LEMMA ClientDefaults == ASSUME IInv, NEW c \in Clients, Default(c) PROVE IInv'
<1> DEFINE i == cslot[c]
           id == DefaultIds[i]
           more == i < Len(DefaultIds)
           slot == IF more THEN i + 1 ELSE 1
           pc == IF more THEN "default" ELSE "count"
<1>1. /\ cpc[c] = "default"
      /\ map' = [map EXCEPT ![c] = map[c] \cup {<<id, i>>}]
      /\ seg' = [seg EXCEPT ![cseg[c]].ids[i] = id]
      /\ cslot' = [cslot EXCEPT ![c] = slot] /\ cpc' = [cpc EXCEPT ![c] = pc]
      /\ UNCHANGED <<world, name, holds, mgrVars, att, cseg, index, open, healthy, pageVars, kills>>
  BY DEF Default, CGoes, Set
<1>2. /\ cseg[c] \in Segments /\ cseg[c] \in holds[c] /\ seg[cseg[c]].early
      /\ i \in Slots /\ i <= Len(DefaultIds) /\ map[c] \subseteq Entry /\ IndexOk(c)
  BY <1>1, ClientParts DEF ScanOk
<1>3. i \in DOMAIN DefaultIds /\ Place(id, i) /\ id \in Ids /\ slot \in Slots
      /\ (more => slot <= Len(DefaultIds))
  BY <1>2, RegistryLemma DEF Place, Slots
<1> HIDE DEF id, slot, more
<1>4. PICK s : s = [seg[cseg[c]] EXCEPT !.ids[i] = id] /\ seg' = [seg EXCEPT ![cseg[c]] = s]
  BY <1>1
<1>5. seg[cseg[c]] \in SegmentType
  BY <1>2, ClientTypes
<1>6. /\ s \in SegmentType /\ s.served = seg[cseg[c]].served /\ s.early = seg[cseg[c]].early
      /\ s.ids[i] = id /\ \A j \in Slots \ {i} : s.ids[j] = seg[cseg[c]].ids[j]
  BY <1>2, <1>3, <1>4, <1>5 DEF SegmentType
<1>7. seg' \in [Segments -> SegmentType] /\ Evolves /\ \A f \in Segments : Harmless(f)
  <2>1. \A j \in Slots : s.ids[j] = seg[cseg[c]].ids[j] \/ Place(s.ids[j], j)
    BY <1>3, <1>6
  <2> QED
    BY <1>2, <1>4, <1>6, <2>1, ChangeLemma
<1>8. TypeOK'
  <2>1. TypeOK /\ (map[c] \cup {<<id, i>>}) \subseteq Entry
    BY <1>2, <1>3 DEF IInv, Entry
  <2>2. pc \in {"down", "open", "scan", "default", "count", "run", "exit"}
    OBVIOUS
  <2> HIDE DEF pc, i
  <2> QED
    BY <1>1, <1>3, <1>7, <2>1, <2>2 DEF TypeOK, mgrVars, pageVars
<1>9. map'[c] = map[c] \cup {<<id, i>>} /\ cslot'[c] = slot /\ cpc'[c] = pc
      /\ seg'[cseg[c]].early
  BY <1>1, <1>2, <1>4, <1>6, ClientTypes
<1>10. /\ \A d \in Clients \ {c} : SameClient(d)
       /\ \A m \in Managers : holds'[m] = holds[m]
       /\ \A m \in Managers : mpc[m] \in Working => Harmless(mseg[m])
  BY <1>1, <1>7, ClientTypes, WorkingSegments DEF SameClient
<1>11. ScanOk(c)'
  BY <1>1, <1>2, <1>3, <1>9 DEF ScanOk
<1>12. OpenOk(c)'
  BY <1>1, <1>7, OpenStays
<1>13. IndexOk(c)'
  BY <1>1, <1>2, <1>3, <1>9 DEF IndexOk
<1> QED
  BY <1>1, <1>7, <1>8, <1>10, <1>11, <1>12, <1>13, ClientStepParts

LEMMA ClientCounts == ASSUME IInv, NEW c \in Clients, Count(c) PROVE IInv'
<1>1. /\ cpc[c] = "count" /\ Onward(c, TRUE)
      /\ open' = [open EXCEPT ![c][att[c]] = cseg[c]]
      /\ index' = [index EXCEPT ![c][att[c]] = map[c]]
      /\ UNCHANGED <<world, name, holds, mgrVars, cseg, cslot, map, healthy, pageVars, kills>>
  BY DEF Count
<1>2. /\ cseg[c] \in Segments /\ cseg[c] \in holds[c] /\ ScanOk(c) /\ IndexOk(c)
      /\ att[c] \in Handles /\ map[c] \subseteq Entry
      /\ open[c] \in [Handles -> 0..MaxSegments]
  BY <1>1, ClientParts DEF ScanOk
<1>3. PICK s : /\ s = [seg[cseg[c]] EXCEPT !.clients = seg[cseg[c]].clients + 1]
               /\ seg' = [seg EXCEPT ![cseg[c]] = s]
  BY DEF Count
<1>4. seg[cseg[c]] \in SegmentType
  BY <1>2, ClientTypes
<1>5. /\ s \in SegmentType /\ s.served = seg[cseg[c]].served /\ s.early = seg[cseg[c]].early
      /\ s.ids = seg[cseg[c]].ids
  BY <1>3, <1>4 DEF SegmentType
<1>6. seg' \in [Segments -> SegmentType] /\ Evolves /\ \A f \in Segments : Harmless(f)
  BY <1>2, <1>3, <1>5, ChangeLemma
<1>7. /\ cpc' \in [Clients -> {"down", "open", "scan", "default", "count", "run", "exit"}]
      /\ att' \in [Clients -> Handles]
      /\ \A d \in Clients \ {c} : cpc'[d] = cpc[d]
      /\ cpc'[c] \in {"open", "run", "exit"}
  BY <1>1, OnwardLemma
<1>8. /\ open' \in [Clients -> [Handles -> 0..MaxSegments]]
      /\ index' \in [Clients -> [Handles -> SUBSET Entry]]
      /\ open'[c][att[c]] = cseg[c] /\ index'[c][att[c]] = map[c]
      /\ \A k \in Handles \ {att[c]} : open'[c][k] = open[c][k] /\ index'[c][k] = index[c][k]
      /\ \A d \in Clients \ {c} : open'[d] = open[d] /\ index'[d] = index[d]
  BY <1>1, <1>2, ClientTypes DEF Segments
<1>9. TypeOK'
  BY <1>1, <1>6, <1>7, <1>8 DEF IInv, TypeOK, mgrVars, pageVars
<1>10. /\ \A d \in Clients \ {c} : SameClient(d)
       /\ \A m \in Managers : holds'[m] = holds[m]
       /\ \A m \in Managers : mpc[m] \in Working => Harmless(mseg[m])
  BY <1>1, <1>6, <1>7, <1>8, WorkingSegments DEF SameClient
<1>11. ScanOk(c)'
  BY <1>7 DEF ScanOk
<1>12. OpenOk(c)'
  <2>1. seg'[cseg[c]].early = seg[cseg[c]].early /\ seg'[cseg[c]].served = seg[cseg[c]].served
    BY <1>2, <1>3, <1>5, ClientTypes
  <2>2. \/ seg[cseg[c]].early
        \/ /\ seg[cseg[c]].served
           /\ \A i \in DOMAIN Registry : <<Registry[i], i>> \in map[c]
    BY <1>1, <1>2 DEF ScanOk, Passed
  <2>3. \A k \in Handles \ {att[c]} : open'[c][k] # 0 =>
          /\ open'[c][k] \in holds'[c]
          /\ \/ seg'[open'[c][k]].early
             \/ /\ seg'[open'[c][k]].served
                /\ \A i \in DOMAIN Registry : <<Registry[i], i>> \in index'[c][k]
    BY <1>1, <1>6, <1>8, OpenEvolves
  <2> QED
    BY <1>1, <1>2, <1>8, <2>1, <2>2, <2>3 DEF OpenOk
<1>13. IndexOk(c)'
  BY <1>1, <1>2, <1>8 DEF IndexOk
<1> QED
  BY <1>1, <1>6, <1>9, <1>10, <1>11, <1>12, <1>13, ClientStepParts

LEMMA ClientEchoes == ASSUME IInv, NEW c \in Clients, EchoHealth(c) PROVE IInv'
<1>1. /\ open[c][1] \in Segments /\ healthy[c] \in BOOLEAN
      /\ UNCHANGED <<world, name, holds, mgrVars, cliVars, pageVars, kills>>
  BY ClientParts DEF EchoHealth, Knows, Segments, Handles, IInv, TypeOK
<1>2. PICK s : /\ s = [seg[open[c][1]] EXCEPT !.comm = healthy[c]]
               /\ seg' = [seg EXCEPT ![open[c][1]] = s]
  BY DEF EchoHealth
<1>3. seg[open[c][1]] \in SegmentType
  BY <1>1, ClientTypes
<1>4. /\ s \in SegmentType /\ s.served = seg[open[c][1]].served
      /\ s.early = seg[open[c][1]].early /\ s.ids = seg[open[c][1]].ids
  BY <1>1, <1>2, <1>3 DEF SegmentType
<1>5. seg' \in [Segments -> SegmentType] /\ Evolves /\ \A f \in Segments : Harmless(f)
  BY <1>1, <1>2, <1>4, ChangeLemma
<1>6. TypeOK'
  BY <1>1, <1>5 DEF IInv, TypeOK, mgrVars, cliVars, pageVars
<1>7. Apart' /\ \A m \in Managers : ManagerOk(m)'
  BY <1>1, <1>5, WorkingSegments, ManagersSame
<1>8. \A d \in Clients : ClientOk(d)'
  BY <1>1, <1>5, ClientsSame
<1>9. IndexInv' /\ PageInv'
  BY <1>1 DEF IInv, IndexInv, PageInv, cliVars, pageVars
<1> QED
  BY <1>5, <1>6, <1>7, <1>8, <1>9, StepParts

(* A client's end, by itself or killed.                                     *)
LEMMA GoneLemma ==
  ASSUME IInv, NEW c \in Clients, NEW s \in [Segments -> SegmentType], Gone(c, s),
         \A g \in Segments : /\ s[g].ids = seg[g].ids /\ s[g].served = seg[g].served
                             /\ s[g].early = seg[g].early,
         kills' \in 0..MaxKills, UNCHANGED <<world, mgrVars, pageVars>>
  PROVE  IInv'
<1>1. /\ cpc' = [cpc EXCEPT ![c] = "down"] /\ att' = [att EXCEPT ![c] = 1]
      /\ cseg' = [cseg EXCEPT ![c] = 0] /\ cslot' = [cslot EXCEPT ![c] = 1]
      /\ map' = [map EXCEPT ![c] = {}] /\ index' = [index EXCEPT ![c] = Nothing]
      /\ open' = [open EXCEPT ![c] = NotOpen] /\ healthy' = [healthy EXCEPT ![c] = TRUE]
      /\ holds' = Set(holds, c, {}) /\ name' = NameAfter(holds') /\ seg' = Freed(s)
  BY DEF Gone, CGoes, Release, Set
<1>2. c \in Processes /\ {} \in SUBSET Segments
  BY Kinds
<1>3. /\ holds' \in [Processes -> SUBSET Segments] /\ seg' \in [Segments -> SegmentType]
      /\ \A q \in Processes \ {c} : holds'[q] = holds[q]
      /\ \A q \in Processes, g \in Segments : g \in holds'[q] => seg'[g] = s[g]
      /\ Evolves
  BY <1>1, <1>2, ReleaseLemma
<1>4. TypeOK'
  <2>1. TypeOK /\ 1 \in Slots /\ 0 \in 0..MaxSegments /\ name' \in 0..MaxSegments
    BY <1>1, NameLemma, RegistryLemma DEF IInv, Slots
  <2>2. Nothing \in [Handles -> SUBSET Entry] /\ NotOpen \in [Handles -> 0..MaxSegments]
        /\ 1 \in Handles
    BY <2>1 DEF Nothing, NotOpen, Handles
  <2> QED
    BY <1>1, <1>3, <2>1, <2>2 DEF TypeOK, mgrVars, pageVars
<1>5. /\ \A d \in Clients \ {c} : SameClient(d)
      /\ \A m \in Managers : m \in Processes /\ holds'[m] = holds[m]
  BY <1>1, <1>3, ClientTypes, Kinds DEF SameClient
<1>6. \A m \in Managers : mpc[m] \in Working => Harmless(mseg[m])
  BY <1>3, <1>5, ManagerParts DEF IInv, ManagerOk, Harmless
<1>7. cpc'[c] = "down" /\ map'[c] = {} /\ index'[c] = Nothing /\ open'[c] = NotOpen
  BY <1>1, ClientTypes
<1>8. ScanOk(c)' /\ OpenOk(c)' /\ IndexOk(c)'
  BY <1>7 DEF ScanOk, OpenOk, IndexOk, Nothing, NotOpen
<1> QED
  BY <1>3, <1>4, <1>5, <1>6, <1>8, ClientStepParts

(* The number of a client's attachments to a segment.                       *)
LEMMA AttachedLemma == \A c, g : Attached(c, g) \in Nat
<1> SUFFICES ASSUME NEW c, NEW g PROVE Attached(c, g) \in Nat
  OBVIOUS
<1>1. IsFiniteSet(Handles)
  BY FS_Interval, 1 \in Int, 2 \in Int DEF Handles
<1>2. {k \in Handles : open[c][k] = g} \subseteq Handles
  OBVIOUS
<1>3. IsFiniteSet({k \in Handles : open[c][k] = g})
  BY <1>1, <1>2, FS_Subset
<1> QED
  BY <1>3, FS_CardinalityType DEF Attached

LEMMA ClientLeaves == ASSUME IInv, NEW c \in Clients, LeaveClient(c) PROVE IInv'
<1> DEFINE s == [g \in Segments |-> [seg[g] EXCEPT !.clients = seg[g].clients - Attached(c, g)]]
<1>1. \A g \in Segments : seg[g] \in SegmentType /\ Attached(c, g) \in Nat
  BY ClientTypes, AttachedLemma
<1>2. /\ s \in [Segments -> SegmentType]
      /\ \A g \in Segments : /\ s[g].ids = seg[g].ids /\ s[g].served = seg[g].served
                             /\ s[g].early = seg[g].early
  BY <1>1 DEF SegmentType
<1>3. Gone(c, s) /\ UNCHANGED <<world, mgrVars, pageVars, kills>>
  BY DEF LeaveClient
<1>4. kills' \in 0..MaxKills
  BY <1>3 DEF IInv, TypeOK
<1> HIDE DEF s
<1> QED
  BY <1>2, <1>3, <1>4, GoneLemma

LEMMA ClientKilled == ASSUME IInv, NEW c \in Clients, KillClient(c) PROVE IInv'
<1> DEFINE s == [g \in Segments |-> [seg[g] EXCEPT !.lost = seg[g].lost + Attached(c, g)]]
<1>1. \A g \in Segments : seg[g] \in SegmentType /\ Attached(c, g) \in Nat
  BY ClientTypes, AttachedLemma
<1>2. /\ s \in [Segments -> SegmentType]
      /\ \A g \in Segments : /\ s[g].ids = seg[g].ids /\ s[g].served = seg[g].served
                             /\ s[g].early = seg[g].early
  BY <1>1 DEF SegmentType
<1>3. Gone(c, s) /\ UNCHANGED <<world, mgrVars, pageVars>>
  BY DEF KillClient
<1>4. kills' \in 0..MaxKills
  BY RegistryLemma DEF KillClient, IInv, TypeOK
<1> HIDE DEF s
<1> QED
  BY <1>2, <1>3, <1>4, GoneLemma

LEMMA ClientStep == ASSUME IInv, NEW c \in Clients, ClientSteps(c) PROVE IInv'
BY ClientQuiet, ClientOpens, ClientScans, ClientDefaults, ClientCounts, ClientEchoes,
   ClientLeaves, ClientKilled DEF ClientSteps, Attaches, Cycles

-----------------------------------------------------------------------------
(* The page server's steps.                                                 *)
LEMMA PageStepParts ==
  ASSUME IInv, TypeOK', Evolves, UNCHANGED <<mgrVars, cliVars>>,
         \A p \in Processes \ {Page} : holds'[p] = holds[p],
         \A m \in Managers : mpc[m] \in Working => Harmless(mseg[m]),
         \A e \in pindex' : Place(e[1], e[2]), PageInv'
  PROVE  IInv'
<1>1. \A p \in Managers \cup Clients : holds'[p] = holds[p]
  BY Kinds
<1>2. Apart' /\ \A m \in Managers : ManagerOk(m)'
  BY <1>1, ManagersSame
<1>3. \A c \in Clients : ClientOk(c)'
  BY <1>1, ClientsSame
<1>4. IndexInv'
  BY DEF IInv, IndexInv, cliVars
<1> QED
  BY <1>2, <1>3, <1>4, StepParts

LEMMA PageQuiet ==
  ASSUME IInv, Asks \/ CannotOpen \/ Accepts \/ Indexes
  PROVE  IInv'
<1>1. /\ UNCHANGED <<world, name, holds, seg, mgrVars, cliVars, pseg, kills>>
      /\ Evolves /\ \A g : Harmless(g)
  BY QuietLemma DEF Asks, CannotOpen, Accepts, Indexes
<1>2. /\ ppc' \in {"idle", "open", "verify", "index", "live", "simulated"}
      /\ ppc' \in {"verify", "index"} => ppc \in {"verify", "index"}
  BY DEF Asks, CannotOpen, Accepts, Indexes
<1>3. /\ pslot' \in Slots /\ pindex' \subseteq Entry
      /\ \A e \in pindex' : Place(e[1], e[2])
  <2>1. CASE Indexes
    <3>1. pseg \in Segments /\ pslot \in Slots /\ pindex \subseteq Entry
      BY <2>1 DEF Indexes, IInv, PageInv, TypeOK
    <3>2. /\ Entries(seg[pseg].ids[pslot], pslot) \subseteq Entry
          /\ \A e \in Entries(seg[pseg].ids[pslot], pslot) : Place(e[1], e[2])
      BY <3>1, EntriesLemma
    <3>3. pslot' \in Slots
      BY <2>1, <3>1, RegistryLemma DEF Indexes, Slots
    <3> QED
      BY <2>1, <3>1, <3>2, <3>3 DEF Indexes, IInv, IndexInv
  <2>2. CASE ~Indexes
    BY <2>2 DEF Asks, CannotOpen, Accepts, IInv, IndexInv, TypeOK
  <2> QED
    BY <2>1, <2>2
<1>4. TypeOK'
  BY <1>1, <1>2, <1>3 DEF IInv, TypeOK, mgrVars, cliVars
<1>5. PageInv'
  BY <1>1, <1>2 DEF IInv, PageInv
<1> QED
  BY <1>1, <1>3, <1>4, <1>5, PageStepParts

LEMMA PageOpens == ASSUME IInv, OpensOrCreates PROVE IInv'
<1>1. /\ ppc' = "verify" /\ pseg' = name'
      /\ UNCHANGED <<world, mgrVars, cliVars, pslot, pindex, kills>>
  BY DEF OpensOrCreates
<1>2. /\ name' \in Segments /\ holds' \in [Processes -> SUBSET Segments]
      /\ seg' \in [Segments -> SegmentType]
      /\ \A p \in Processes \ {Page} : holds'[p] = holds[p]
      /\ \A m \in Managers : mpc[m] \in Working => Harmless(mseg[m])
      /\ Evolves
  <2>1. CASE name = 0
    <3>1. Make(Page, TRUE)
      BY <2>1 DEF OpensOrCreates
    <3>2. /\ name' \in Segments /\ holds' \in [Processes -> SUBSET Segments]
          /\ seg' \in [Segments -> SegmentType] /\ Evolves
          /\ \A q \in Processes : name' \notin holds[q]
          /\ \A p \in Processes \ {Page} : holds'[p] = holds[p]
          /\ \A g \in Segments : g # name' => seg'[g] = seg[g]
      BY <3>1, Kinds, MakeLemma
    <3>3. \A m \in Managers : mpc[m] \in Working =>
            mseg[m] \in Segments /\ mseg[m] \in holds[m] /\ m \in Processes
      BY ManagerParts, Kinds DEF IInv, ManagerOk
    <3>4. \A m \in Managers : mpc[m] \in Working => Harmless(mseg[m])
      BY <3>2, <3>3 DEF Harmless
    <3> QED
      BY <3>2, <3>4
  <2>2. CASE name # 0
    <3>1. name \in Segments /\ Take(Page, name) /\ UNCHANGED <<name, seg>>
      BY <2>2 DEF OpensOrCreates, IInv, TypeOK, Segments
    <3> QED
      BY <3>1, Kinds, TakeLemma, QuietLemma, ClientTypes
  <2> QED
    BY <2>1, <2>2
<1>3. TypeOK'
  BY <1>1, <1>2 DEF IInv, TypeOK, mgrVars, cliVars, Segments
<1>4. PageInv' /\ \A e \in pindex' : Place(e[1], e[2])
  BY <1>1, <1>2 DEF PageInv, IInv, IndexInv
<1> QED
  BY <1>1, <1>2, <1>3, <1>4, PageStepParts

LEMMA PageReleases ==
  ASSUME IInv, NEW kept \in SUBSET Segments, Release(Page, kept, seg),
         ppc' \in {"idle", "simulated"}, pseg' = 0, pslot' \in Slots,
         pindex' \in {pindex, {}}, kills' \in 0..MaxKills,
         UNCHANGED <<world, mgrVars, cliVars>>
  PROVE  IInv'
<1>1. holds' = Set(holds, Page, kept) /\ seg' = Freed(seg) /\ name' \in 0..MaxSegments
  BY NameLemma DEF Release
<1>2. /\ holds' \in [Processes -> SUBSET Segments] /\ seg' \in [Segments -> SegmentType]
      /\ \A p \in Processes \ {Page} : holds'[p] = holds[p]
      /\ \A p \in Processes, g \in Segments : g \in holds'[p] => seg'[g] = seg[g]
      /\ Evolves
  <2>1. /\ Page \in Processes /\ seg \in [Segments -> SegmentType]
        /\ \A g \in Segments : /\ seg[g].ids = seg[g].ids /\ seg[g].served = seg[g].served
                               /\ seg[g].early = seg[g].early
    BY Kinds, ClientTypes
  <2> QED
    BY <1>1, <2>1, ReleaseLemma
<1>3. TypeOK'
  BY <1>1, <1>2, RegistryLemma DEF IInv, TypeOK, mgrVars, cliVars
<1>4. \A m \in Managers : mpc[m] \in Working =>
        mseg[m] \in Segments /\ mseg[m] \in holds'[m] /\ m \in Processes
  BY <1>2, ManagerParts, Kinds DEF IInv, ManagerOk
<1>5. \A m \in Managers : mpc[m] \in Working => Harmless(mseg[m])
  BY <1>2, <1>4 DEF Harmless
<1>6. PageInv' /\ \A e \in pindex' : Place(e[1], e[2])
  BY DEF PageInv, IInv, IndexInv
<1> QED
  BY <1>2, <1>3, <1>5, <1>6, PageStepParts

LEMMA PageStep == ASSUME IInv, PageSteps PROVE IInv'
<1>1. CASE Rejects
  <2>1. Closed \in SUBSET Segments /\ pslot \in Slots /\ kills \in 0..MaxKills
    BY Kinds DEF Closed, IInv, TypeOK
  <2> QED
    BY <1>1, <2>1, PageReleases DEF Rejects
<1>2. CASE PageRestarts
  <2>1. 1 \in Slots /\ kills' \in 0..MaxKills /\ {} \in SUBSET Segments
    BY <1>2, RegistryLemma DEF PageRestarts, Slots, IInv, TypeOK
  <2> QED
    BY <1>2, <2>1, PageReleases DEF PageRestarts
<1> QED
  BY <1>1, <1>2, PageQuiet, PageOpens DEF PageSteps, PageAttaches

-----------------------------------------------------------------------------
LEMMA StutterStep == IInv /\ UNCHANGED vars => IInv'
<1> SUFFICES ASSUME IInv, UNCHANGED vars PROVE IInv'
  OBVIOUS
<1>1. TypeOK' /\ IndexInv' /\ PageInv'
  BY DEF vars, mgrVars, cliVars, pageVars, IInv, TypeOK, IndexInv, PageInv
<1>2. Evolves /\ \A g : Harmless(g)
  BY QuietLemma DEF vars
<1>3. Apart' /\ \A m \in Managers : ManagerOk(m)'
  BY <1>2, ManagersSame DEF vars
<1>4. \A c \in Clients : ClientOk(c)'
  BY <1>2, ClientsSame DEF vars
<1> QED
  BY <1>1, <1>2, <1>3, <1>4, StepParts

LEMMA NextIInv == IInv /\ [Next]_vars => IInv'
BY ManagerStep, ClientStep, PageStep, StutterStep DEF Next

THEOREM Inductive == Spec => []IInv
<1> QED
  BY InitIInv, NextIInv, PTL DEF Spec

(* Every variable keeps its type: names and keys refer to segments there are, *)
(* indices to slots, and the counts of killed clients never go below zero.    *)
THEOREM SegmentTypeCorrect == Spec => []TypeOK
<1>1. IInv => TypeOK
  BY DEF IInv
<1> QED
  BY <1>1, Inductive, PTL

(* However many managers are started, signalled and killed, on either system: *)
(* no two work on one segment, and none wipes a segment that was in service.   *)
THEOREM ManagersApart == Spec => []OneManagerPerSegment
<1>1. IInv => OneManagerPerSegment
  BY DEF IInv, ManagerInv, OneManagerPerSegment
<1> QED
  BY <1>1, Inductive, PTL

(* build_index_map, its eight default names and the page's index agree with    *)
(* the manager's order of registration whenever they ran.                      *)
THEOREM IndicesCorrect == Spec => []IndicesMeanTheirNames
<1>1. ASSUME IInv, NEW g \in Segments, NEW e, Place(e[1], e[2]) PROVE Means(e, g)
  BY <1>1 DEF IInv, SlotInv, Place, Means
<1>2. ASSUME IInv PROVE IndicesMeanTheirNames
  <2>1. ASSUME NEW c \in Clients, NEW k \in Handles, open[c][k] # 0, NEW e \in index[c][k]
        PROVE  Means(e, open[c][k])
    <3>1. open[c][k] \in Segments /\ Place(e[1], e[2])
      BY <1>2, <2>1 DEF IInv, TypeOK, IndexInv, Segments
    <3> QED
      BY <1>1, <1>2, <3>1
  <2>2. ASSUME pseg # 0, NEW e \in pindex PROVE Means(e, pseg)
    <3>1. pseg \in Segments /\ Place(e[1], e[2])
      BY <1>2, <2>2 DEF IInv, TypeOK, IndexInv, Segments
    <3> QED
      BY <1>1, <1>2, <3>1
  <2> QED
    BY <2>1, <2>2 DEF IndicesMeanTheirNames
<1> QED
  BY <1>2, Inductive, PTL

(* A client that opened the segment after the manager had finished has every   *)
(* registered point in its index, whatever was killed or restarted meanwhile.  *)
THEOREM LateClientsComplete == Spec => []CompleteUnlessEarly
<1>1. ASSUME IInv, NEW c \in Clients, NEW k \in Handles, open[c][k] # 0,
             ~seg[open[c][k]].early, NEW id \in Names
      PROVE  id \in {e[1] : e \in index[c][k]}
  <2>1. PICK s \in DOMAIN Registry : id = Registry[s]
    BY DEF Names
  <2>2. <<id, s>> \in index[c][k]
    BY <1>1, <2>1 DEF IInv, ClientInv
  <2> QED
    BY <2>2
<1>2. IInv => CompleteUnlessEarly
  BY <1>1 DEF CompleteUnlessEarly
<1> QED
  BY <1>2, Inductive, PTL

-----------------------------------------------------------------------------
(* What a manager does inside its segment, as far as the following invariants *)
(* tell the steps apart.                                                      *)
InsideSteps(m) == Wipe(m) \/ Header(m) \/ Fill(m) \/ Register(m) \/ DefaultHealth(m) \/ MonitorEnds(m)
Inside(m, t, s) ==
  /\ s.orphan = t.orphan /\ s.lost = t.lost /\ s.early = t.early
  /\ s.clients = t.clients \/ (s.clients = 0 /\ ~t.served)
  /\ t.served => s.served
  /\ s.comm = t.comm \/ mpc'[m] = "header" \/ (s.comm /\ mpc[m] = "health")
  /\ mpc'[m] = "register" =>
       \/ mpc[m] = "fill" /\ mslot'[m] = 1
       \/ mpc[m] = "health" /\ mslot'[m] = mslot[m] /\ s.comm
       \/ mpc[m] = "register" /\ mslot[m] # HealthAfter /\ mslot'[m] = mslot[m] + 1 /\ s.comm = t.comm
  /\ s.served => \/ t.served /\ s.comm = t.comm
                 \/ mpc[m] = "register" /\ mslot[m] > HealthAfter /\ s.comm = t.comm

LEMMA InsideLemma ==
  ASSUME IInv, NEW m \in Managers, InsideSteps(m)
  PROVE  /\ UNCHANGED <<world, name, holds, mseg, cliVars, pageVars>>
         /\ mpc[m] \in Working /\ mpc'[m] \in Working
         /\ \A n \in Managers \ {m} : mpc'[n] = mpc[n] /\ mslot'[n] = mslot[n]
         /\ mseg[m] \in Segments
         /\ \A g \in Segments \ {mseg[m]} : seg'[g] = seg[g]
         /\ Inside(m, seg[mseg[m]], seg'[mseg[m]])
<1>1. /\ UNCHANGED <<world, name, holds, mseg, cliVars, pageVars>>
      /\ mpc[m] \in Working
  BY DEF InsideSteps, Wipe, Header, Fill, Register, WriteSlot, DefaultHealth, MonitorEnds,
         Initialise, Working
<1>2. /\ mslot[m] \in Slots /\ mseg[m] \in Segments /\ seg[mseg[m]] \in SegmentType
      /\ seg \in [Segments -> SegmentType] /\ ManagerOk(m)
      /\ mpc \in [Managers -> Working \cup {"down", "refused"}]
      /\ mslot \in [Managers -> Slots]
  BY <1>1, ManagerFacts, ClientTypes DEF IInv, TypeOK
<1>3. /\ mpc'[m] \in Working
      /\ \A n \in Managers \ {m} : mpc'[n] = mpc[n] /\ mslot'[n] = mslot[n]
  BY <1>1, <1>2 DEF InsideSteps, Wipe, Header, Fill, Register, WriteSlot, DefaultHealth, MonitorEnds,
         MGoes, Set, Working
<1> DEFINE t == seg[mseg[m]]
<1>4. SUFFICES ASSUME NEW s, seg' = [seg EXCEPT ![mseg[m]] = s]
      PROVE Inside(m, t, s)
  <2>1. \E s : seg' = [seg EXCEPT ![mseg[m]] = s]
    BY DEF InsideSteps, Wipe, Header, Fill, Register, WriteSlot, DefaultHealth, MonitorEnds,
           Initialise, Set
  <2> QED
    BY <1>1, <1>2, <1>3, <2>1
<1>5. seg'[mseg[m]] = s /\ t \in SegmentType
  BY <1>2, <1>4
<1>6. CASE Wipe(m)
  <2>1. seg'[mseg[m]] = [t EXCEPT !.ids = Zeros, !.clients = 0, !.stop = FALSE,
                                  !.numbered = FALSE, !.comm = FALSE]
    BY <1>2, <1>6 DEF Wipe, Initialise, Set
  <2>2. mpc[m] = "wipe" /\ mpc'[m] = "header" /\ ~t.served
    BY <1>2, <1>6 DEF Wipe, MGoes, Set, ManagerOk, Working, Initialising
  <2> QED
    BY <1>5, <2>1, <2>2 DEF Inside, SegmentType
<1>7. CASE Header(m)
  <2>1. seg'[mseg[m]] = [t EXCEPT !.clients = 0, !.stop = FALSE, !.numbered = TRUE]
    BY <1>2, <1>7 DEF Header, Initialise, Set
  <2>2. mpc[m] = "header" /\ mpc'[m] = "fill" /\ ~t.served
    BY <1>2, <1>7 DEF Header, MGoes, Set, ManagerOk, Working, Initialising
  <2> QED
    BY <1>5, <2>1, <2>2 DEF Inside, SegmentType
<1>8. CASE Fill(m)
  <2>1. seg'[mseg[m]] = [t EXCEPT !.ids[mslot[m]] = Unused, !.served = FALSE]
    BY <1>2, <1>8 DEF Fill, WriteSlot, Initialise, Set
  <2>2. mpc[m] = "fill" /\ mpc'[m] \in {"fill", "register"} /\ (mpc'[m] = "register" => mslot'[m] = 1)
    BY <1>2, <1>8 DEF Fill, WriteSlot, MGoes, Set
  <2>4. ~t.served
    BY <1>2, <2>2 DEF ManagerOk, Working, Initialising
  <2>3. /\ s.orphan = t.orphan /\ s.lost = t.lost /\ s.early = t.early /\ s.clients = t.clients
        /\ s.comm = t.comm /\ ~s.served
    BY <1>5, <2>1 DEF SegmentType
  <2> QED
    BY <2>2, <2>3, <2>4 DEF Inside
<1>9. CASE Register(m)
  <2> DEFINE more == mslot[m] < Len(Registry)
  <2>1. seg'[mseg[m]] = [t EXCEPT !.ids[mslot[m]] = Registry[mslot[m]], !.served = ~more]
    BY <1>2, <1>9 DEF Register, WriteSlot, Initialise, Set
  <2>2. /\ mpc[m] = "register"
        /\ mpc'[m] = IF mslot[m] = HealthAfter THEN "health" ELSE IF more THEN "register" ELSE "serve"
        /\ mslot'[m] = IF more THEN mslot[m] + 1 ELSE 1
    BY <1>2, <1>9 DEF Register, WriteSlot, MGoes, Set
  <2>3. /\ s.orphan = t.orphan /\ s.lost = t.lost /\ s.early = t.early /\ s.clients = t.clients
        /\ s.comm = t.comm /\ s.served = ~more
    BY <1>5, <2>1 DEF SegmentType
  <2>5. ~t.served
    BY <1>2, <2>2 DEF ManagerOk, Working, Initialising
  <2>4. ~more => mslot[m] > HealthAfter
    BY <1>2, SegmentAssumption, RegistryLemma DEF Slots
  <2> HIDE DEF more
  <2> QED
    BY <2>2, <2>3, <2>4, <2>5 DEF Inside
<1>10. CASE DefaultHealth(m)
  <2>1. seg'[mseg[m]] = [t EXCEPT !.comm = TRUE]
    BY <1>2, <1>10 DEF DefaultHealth, Initialise, Set
  <2>2. mpc[m] = "health" /\ mpc'[m] = "register" /\ mslot'[m] = mslot[m] /\ ~t.served
    BY <1>2, <1>10 DEF DefaultHealth, MGoes, Set, ManagerOk, Working, Initialising
  <2> QED
    BY <1>5, <2>1, <2>2 DEF Inside, SegmentType
<1>11. CASE MonitorEnds(m)
  <2>1. seg'[mseg[m]] = [t EXCEPT !.stop = TRUE]
    BY <1>2, <1>11 DEF MonitorEnds, Initialise, Set
  <2>2. mpc[m] = "serve" /\ mpc'[m] = "clean"
    BY <1>2, <1>11 DEF MonitorEnds, MGoes, Set
  <2> QED
    BY <1>5, <2>1, <2>2 DEF Inside, SegmentType
<1> QED
  BY <1>6, <1>7, <1>8, <1>9, <1>10, <1>11 DEF InsideSteps

(* What a client does inside a segment.                                       *)
Touches(c, g) ==
  \/ Open(c) /\ g = name
  \/ Default(c) /\ g = cseg[c]
  \/ Count(c) /\ g = cseg[c]
  \/ EchoHealth(c) /\ g = open[c][1]

LEMMA ClientInside ==
  ASSUME IInv, NEW c \in Clients,
         NEW g \in Segments, Touches(c, g)
  PROVE  /\ UNCHANGED <<world, name, mgrVars, pageVars>>
         /\ \A f \in Segments \ {g} : seg'[f] = seg[f]
         /\ seg'[g].orphan = seg[g].orphan /\ seg'[g].lost = seg[g].lost
         /\ seg'[g].served = seg[g].served
         /\ seg[g].early => seg'[g].early
         /\ seg'[g].clients = IF Count(c) THEN seg[g].clients + 1 ELSE seg[g].clients
         /\ seg'[g].comm = IF EchoHealth(c) THEN healthy[c] ELSE seg[g].comm
<1> USE DEF Touches
<1>1. seg \in [Segments -> SegmentType] /\ seg[g] \in SegmentType
  BY ClientTypes
<1>2. /\ Open(c) => cpc[c] = "open"
      /\ Default(c) => cpc[c] = "default"
      /\ Count(c) => cpc[c] = "count"
      /\ EchoHealth(c) => cpc[c] = "run"
  BY DEF Open, Default, Count, EchoHealth
<1>3. CASE Open(c)
  <2>1. seg'[g] = [seg[g] EXCEPT !.early = seg[g].early \/ ~seg[g].served]
        /\ \A f \in Segments \ {g} : seg'[f] = seg[f]
    BY <1>1, <1>2, <1>3 DEF Open
  <2>2. g = name /\ UNCHANGED <<world, name, mgrVars, pageVars>> 
    BY <1>2, <1>3 DEF Open
  <2> QED
    BY <1>1, <1>2, <1>3, <2>1, <2>2 DEF SegmentType
<1>4. CASE Default(c)
  <2>1. seg'[g] = [seg[g] EXCEPT !.ids[cslot[c]] = DefaultIds[cslot[c]]]
        /\ \A f \in Segments \ {g} : seg'[f] = seg[f]
    BY <1>1, <1>2, <1>4 DEF Default
  <2> QED
    BY <1>1, <1>2, <1>4, <2>1 DEF Default, SegmentType
<1>5. CASE Count(c)
  <2>1. seg'[g] = [seg[g] EXCEPT !.clients = seg[g].clients + 1]
        /\ \A f \in Segments \ {g} : seg'[f] = seg[f]
    BY <1>1, <1>2, <1>5 DEF Count
  <2> QED
    BY <1>1, <1>2, <1>5, <2>1 DEF Count, SegmentType
<1>6. CASE EchoHealth(c)
  <2>1. seg'[g] = [seg[g] EXCEPT !.comm = healthy[c]]
        /\ \A f \in Segments \ {g} : seg'[f] = seg[f]
    BY <1>1, <1>2, <1>6 DEF EchoHealth
  <2> QED
    BY <1>1, <1>2, <1>6, <2>1 DEF EchoHealth, SegmentType
<1> QED
  BY <1>3, <1>4, <1>5, <1>6

LEMMA TouchesLemma ==
  ASSUME IInv, NEW c \in Clients, Open(c) \/ Default(c) \/ Count(c) \/ EchoHealth(c)
  PROVE  \E g \in Segments : Touches(c, g)
<1>1. CASE Open(c)
  BY <1>1 DEF Open, Finds, IInv, TypeOK, Segments, Touches
<1>2. CASE Default(c) \/ Count(c)
  BY <1>2, ClientParts DEF Default, Count, ScanOk, Touches
<1>3. CASE EchoHealth(c)
  BY <1>3, ClientParts DEF EchoHealth, Knows, Handles, Segments, Touches
<1> QED
  BY <1>1, <1>2, <1>3

-----------------------------------------------------------------------------
(* Who holds a segment is at work on it: a manager on its own one, the page on *)
(* the one it looks at, a client while it runs.                                *)
HoldersInv ==
  /\ \A m \in Managers : holds[m] \subseteq (IF mpc[m] \in Working THEN {mseg[m]} ELSE {})
  /\ \A c \in Clients : cpc[c] = "down" => holds[c] = {}
  /\ holds[Page] \subseteq (IF ppc \in {"verify", "index", "live"} THEN {pseg} ELSE {})

(* The name outlives those who hold the segment on Linux only, and there only  *)
(* when its manager was killed.                                                *)
NameInv ==
  name # 0 =>
    IF world = "linux"
    THEN seg[name].orphan \/ \E m \in Managers : mpc[m] \in Working /\ mseg[m] = name
    ELSE Held(name, holds)

LEMMA HoldersManager ==
  ASSUME IInv, HoldersInv, NEW m \in Managers, ManagerSteps(m)
  PROVE  HoldersInv'
<1>1. /\ m \in Processes /\ mpc \in [Managers -> Working \cup {"down", "refused"}]
      /\ mseg \in [Managers -> 0..MaxSegments] /\ holds \in [Processes -> SUBSET Segments]
      /\ Managers \subseteq Processes /\ Clients \subseteq Processes /\ Page \in Processes
      /\ m \notin Clients /\ m # Page
      /\ "down" \notin Working /\ "refused" \notin Working
  BY Kinds DEF IInv, TypeOK, Working
<1>2. SUFFICES /\ \A p \in Processes \ {m} : holds'[p] = holds[p]
               /\ \A n \in Managers \ {m} : mpc'[n] = mpc[n] /\ mseg'[n] = mseg[n]
               /\ UNCHANGED <<cpc, ppc, pseg>>
               /\ holds'[m] \subseteq (IF mpc'[m] \in Working THEN {mseg'[m]} ELSE {})
  BY <1>1 DEF HoldersInv
<1>3. holds[m] \subseteq (IF mpc[m] \in Working THEN {mseg[m]} ELSE {})
  BY DEF HoldersInv
<1>4. CASE ManagerCreates(m)
  <2>1. /\ Make(m, FALSE) /\ mpc[m] = "down" /\ mpc' = [mpc EXCEPT ![m] = "wipe"]
        /\ mseg' = [mseg EXCEPT ![m] = name'] /\ UNCHANGED <<cliVars, pageVars>>
    BY <1>4 DEF ManagerCreates, MGoes, Set
  <2>2. PICK g : name' = g /\ holds' = [holds EXCEPT ![m] = holds[m] \cup {g}]
    BY <2>1 DEF Make, Take, Set
  <2> QED
    BY <1>1, <1>3, <2>1, <2>2 DEF cliVars, pageVars, Working
<1>5. CASE ManagerRefused(m) \/ ManagerExits(m) \/ Signal(m)
  BY <1>1, <1>3, <1>5 DEF ManagerRefused, ManagerExits, Signal, MGoes, Set, cliVars, pageVars
<1>6. CASE Wipe(m) \/ Header(m) \/ Fill(m) \/ Register(m) \/ DefaultHealth(m) \/ MonitorEnds(m)
  <2>1. /\ UNCHANGED <<holds, mseg, cliVars, pageVars>>
        /\ mpc[m] \in Working /\ mpc'[m] \in Working
        /\ \A n \in Managers \ {m} : mpc'[n] = mpc[n]
    BY <1>1, <1>6 DEF Wipe, Header, Fill, Register, WriteSlot, DefaultHealth, MonitorEnds,
                      Initialise, MGoes, Set, Working
  <2> QED
    BY <1>1, <1>3, <2>1 DEF cliVars, pageVars
<1>7. CASE Clean(m) \/ KillManager(m)
  BY <1>1, <1>7 DEF Clean, KillManager, Release, Forgotten, MGoes, Set, cliVars, pageVars
<1> QED
  BY <1>4, <1>5, <1>6, <1>7 DEF ManagerSteps, Initialises, Stops

LEMMA HoldersClient ==
  ASSUME IInv, HoldersInv, NEW c \in Clients, ClientSteps(c)
  PROVE  HoldersInv'
<1>1. /\ c \in Processes /\ holds \in [Processes -> SUBSET Segments]
      /\ cpc \in [Clients -> {"down", "open", "scan", "default", "count", "run", "exit"}]
      /\ Managers \subseteq Processes /\ Clients \subseteq Processes /\ Page \in Processes
      /\ c \notin Managers /\ c # Page
  BY Kinds DEF IInv, TypeOK
<1>2. SUFFICES /\ \A p \in Processes \ {c} : holds'[p] = holds[p]
               /\ \A d \in Clients \ {c} : cpc'[d] = cpc[d]
               /\ UNCHANGED <<mpc, mseg, ppc, pseg>>
               /\ cpc'[c] = "down" => holds'[c] = {}
  BY <1>1 DEF HoldersInv
<1>3. CASE StartClient(c) \/ Scan(c) \/ Default(c) \/ ReadHealth(c) \/ EchoHealth(c)
  BY <1>1, <1>3 DEF StartClient, Scan, Default, ReadHealth, EchoHealth, CGoes, Set,
                    mgrVars, cliVars, pageVars
<1>4. CASE NotFound(c) \/ TooSmall(c) \/ Count(c)
  <2>1. cpc'[c] \in {"open", "run", "exit"} /\ \A d \in Clients \ {c} : cpc'[d] = cpc[d]
    BY <1>4, OnwardLemma DEF NotFound, TooSmall, Count
  <2> QED
    BY <1>1, <1>4, <2>1 DEF NotFound, TooSmall, Count, Take, Set, mgrVars, pageVars
<1>5. CASE Open(c)
  BY <1>1, <1>5 DEF Open, Take, CGoes, Set, mgrVars, pageVars
<1>6. CASE LeaveClient(c) \/ KillClient(c)
  BY <1>1, <1>6 DEF LeaveClient, KillClient, Gone, Release, CGoes, Set, mgrVars, pageVars
<1> QED
  BY <1>3, <1>4, <1>5, <1>6 DEF ClientSteps, Attaches, Cycles

LEMMA HoldersPage ==
  ASSUME IInv, HoldersInv, PageSteps
  PROVE  HoldersInv'
<1>1. /\ holds \in [Processes -> SUBSET Segments]
      /\ Managers \subseteq Processes /\ Clients \subseteq Processes /\ Page \in Processes
      /\ Page \notin Managers /\ Page \notin Clients
  BY Kinds DEF IInv, TypeOK
<1>2. SUFFICES /\ \A p \in Processes \ {Page} : holds'[p] = holds[p]
               /\ UNCHANGED <<mpc, mseg, cpc>>
               /\ holds'[Page] \subseteq (IF ppc' \in {"verify", "index", "live"} THEN {pseg'} ELSE {})
  BY <1>1 DEF HoldersInv
<1>3. holds[Page] \subseteq (IF ppc \in {"verify", "index", "live"} THEN {pseg} ELSE {})
  BY DEF HoldersInv
<1>4. CASE Asks \/ CannotOpen \/ Accepts \/ Indexes
  BY <1>1, <1>3, <1>4 DEF Asks, CannotOpen, Accepts, Indexes, mgrVars, cliVars
<1>5. CASE OpensOrCreates
  <2>1. ppc = "open" /\ ppc' = "verify" /\ pseg' = name' /\ UNCHANGED <<mgrVars, cliVars>>
    BY <1>5 DEF OpensOrCreates
  <2>2. holds' = [holds EXCEPT ![Page] = holds[Page] \cup {name'}]
    BY <1>5 DEF OpensOrCreates, Make, Take, Set
  <2> QED
    BY <1>1, <1>3, <2>1, <2>2 DEF mgrVars, cliVars
<1>6. CASE Rejects \/ PageRestarts
  BY <1>1, <1>3, <1>6 DEF Rejects, PageRestarts, Release, Closed, Set, mgrVars, cliVars
<1> QED
  BY <1>4, <1>5, <1>6 DEF PageSteps, PageAttaches

LEMMA HoldersStep == IInv /\ HoldersInv /\ [Next]_vars => HoldersInv'
<1>1. HoldersInv /\ UNCHANGED vars => HoldersInv'
  BY DEF HoldersInv, vars, mgrVars, cliVars, pageVars
<1> QED
  BY <1>1, HoldersManager, HoldersClient, HoldersPage DEF Next

-----------------------------------------------------------------------------
(* A step that leaves the name keeps its reason, unless its holder lets go.    *)
LEMMA NameKept ==
  ASSUME IInv, NameInv, UNCHANGED <<world, name>>,
         \A p \in Processes : holds[p] \subseteq holds'[p],
         \A m \in Managers : mpc[m] \in Working => mpc'[m] \in Working /\ mseg'[m] = mseg[m],
         \A g \in Segments : seg[g].orphan => seg'[g].orphan
  PROVE  NameInv'
<1>1. name # 0 => name \in Segments
  BY DEF IInv, TypeOK, Segments
<1>2. Held(name, holds) => Held(name, holds')
  BY DEF Held
<1>3. Held(name, holds)' <=> Held(name, holds')
  BY DEF Held
<1> QED
  BY <1>1, <1>2, <1>3 DEF NameInv

LEMMA NameReleased ==
  ASSUME IInv, NameInv, NEW p \in Processes, NEW kept, NEW s, Release(p, kept, s),
         UNCHANGED world, \A g \in Segments : seg[g].orphan => s[g].orphan,
         \A m \in Managers : mpc[m] \in Working =>
            \/ mpc'[m] \in Working /\ mseg'[m] = mseg[m]
            \/ mseg[m] \in Segments => s[mseg[m]].orphan
  PROVE  NameInv'
<1>1. name' = (IF world # "linux" /\ ~Held(name, holds') THEN 0 ELSE name) /\ seg' = Freed(s)
  BY DEF Release, NameAfter
<1>2. ASSUME world # "linux", name' # 0 PROVE Held(name', holds')
  BY <1>1, <1>2
<1>3. ASSUME world = "linux", name' # 0
      PROVE  seg'[name'].orphan \/ \E m \in Managers : mpc'[m] \in Working /\ mseg'[m] = name'
  <2>1. name' = name /\ name \in Segments
    BY <1>1, <1>3 DEF IInv, TypeOK, Segments
  <2>2. seg'[name] = s[name]
    BY <1>1, <2>1 DEF Freed
  <2>3. seg[name].orphan \/ \E m \in Managers : mpc[m] \in Working /\ mseg[m] = name
    BY <1>3, <2>1 DEF NameInv
  <2> QED
    BY <2>1, <2>2, <2>3
<1>4. Held(name, holds)' <=> Held(name', holds')
  BY DEF Held
<1> QED
  BY <1>2, <1>3, <1>4 DEF NameInv

LEMMA NameManager ==
  ASSUME IInv, NameInv, NEW m \in Managers, ManagerSteps(m)
  PROVE  NameInv'
<1>1. /\ m \in Processes /\ mpc \in [Managers -> Working \cup {"down", "refused"}]
      /\ mseg \in [Managers -> 0..MaxSegments] /\ holds \in [Processes -> SUBSET Segments]
      /\ seg \in [Segments -> SegmentType] /\ Managers \subseteq Processes
      /\ "down" \notin Working /\ "refused" \notin Working
      /\ mpc[m] \in Working => mseg[m] \in Segments
  BY Kinds, WorkingSegments DEF IInv, TypeOK, Working
<1>2. CASE ManagerCreates(m)
  <2>1. /\ mpc' = [mpc EXCEPT ![m] = "wipe"] /\ mseg' = [mseg EXCEPT ![m] = name']
        /\ Make(m, FALSE)
    BY <1>2 DEF ManagerCreates, MGoes, Set
  <2>2. name' \in holds'[m]
    BY <1>1, <2>1, MakeLemma
  <2>3. mpc'[m] \in Working /\ mseg'[m] = name'
    BY <1>1, <2>1 DEF Working
  <2> QED
    BY <1>1, <2>2, <2>3 DEF NameInv, Held
<1>3. CASE ManagerRefused(m) \/ ManagerExits(m) \/ Signal(m)
  BY <1>1, <1>3, NameKept DEF ManagerRefused, ManagerExits, Signal, MGoes, Set
<1>4. CASE InsideSteps(m)
  BY <1>1, <1>4, InsideLemma, NameKept DEF Inside
<1>5. CASE Clean(m)
  <2>1. /\ holds' = Set(holds, m, {}) /\ seg' = Freed(seg) /\ UNCHANGED world
        /\ mpc' = [mpc EXCEPT ![m] = "down"] /\ mseg' = [mseg EXCEPT ![m] = 0]
        /\ name' = IF name = mseg[m] /\ world = "linux" THEN 0 ELSE NameAfter(holds')
    BY <1>5 DEF Clean, Forgotten, MGoes, Set
  <2>2. ASSUME world # "linux", name' # 0 PROVE Held(name', holds')
    BY <2>1, <2>2 DEF NameAfter
  <2>3. ASSUME world = "linux", name' # 0
        PROVE  seg'[name'].orphan \/ \E n \in Managers : mpc'[n] \in Working /\ mseg'[n] = name'
    <3>1. name' = name /\ name # mseg[m] /\ name \in Segments
      BY <2>1, <2>3 DEF NameAfter, IInv, TypeOK, Segments
    <3>2. seg'[name] = seg[name]
      BY <2>1, <3>1 DEF Freed
    <3>3. seg[name].orphan \/ \E n \in Managers : mpc[n] \in Working /\ mseg[n] = name
      BY <2>3, <3>1 DEF NameInv
    <3> QED
      BY <1>1, <2>1, <3>1, <3>2, <3>3
  <2>4. Held(name, holds)' <=> Held(name', holds')
    BY DEF Held
  <2> QED
    BY <2>1, <2>2, <2>3, <2>4 DEF NameInv
<1>6. CASE KillManager(m)
  <2> DEFINE s == [seg EXCEPT ![mseg[m]].orphan = TRUE]
  <2>1. /\ Release(m, {}, s) /\ UNCHANGED world
        /\ mpc' = [mpc EXCEPT ![m] = "down"] /\ mseg' = [mseg EXCEPT ![m] = 0]
    BY <1>6 DEF KillManager, Forgotten, MGoes, Set
  <2>2. /\ \A g \in Segments : seg[g].orphan => s[g].orphan
        /\ mseg[m] \in Segments => s[mseg[m]].orphan
    BY <1>1 DEF SegmentType
  <2>3. \A n \in Managers : mpc[n] \in Working =>
            \/ mpc'[n] \in Working /\ mseg'[n] = mseg[n]
            \/ mseg[n] \in Segments => s[mseg[n]].orphan
    BY <1>1, <2>1, <2>2
  <2> HIDE DEF s
  <2> QED
    BY <1>1, <2>1, <2>2, <2>3, NameReleased
<1> QED
  BY <1>2, <1>3, <1>4, <1>5, <1>6 DEF ManagerSteps, Initialises, Stops, InsideSteps

LEMMA NameClient ==
  ASSUME IInv, NameInv, NEW c \in Clients, ClientSteps(c)
  PROVE  NameInv'
<1>1. /\ c \in Processes /\ holds \in [Processes -> SUBSET Segments]
      /\ seg \in [Segments -> SegmentType]
      /\ open \in [Clients -> [Handles -> 0..MaxSegments]]
  BY Kinds DEF IInv, TypeOK
<1>2. CASE StartClient(c) \/ NotFound(c) \/ TooSmall(c) \/ Scan(c) \/ ReadHealth(c)
  BY <1>1, <1>2, NameKept DEF StartClient, NotFound, TooSmall, Scan, ReadHealth, Take, Set, mgrVars
<1>3. CASE Open(c) \/ Default(c) \/ Count(c) \/ EchoHealth(c)
  <2>1. /\ UNCHANGED <<world, name, mgrVars>>
        /\ \A p \in Processes : holds[p] \subseteq holds'[p]
    <3>1. CASE Open(c)
      BY <1>1, <3>1 DEF Open, Take, Set
    <3>2. CASE ~Open(c)
      BY <1>3, <3>2 DEF Default, Count, EchoHealth
    <3> QED
      BY <3>1, <3>2
  <2>2. \A g \in Segments : seg'[g].orphan = seg[g].orphan
    BY <1>3, TouchesLemma, ClientInside
  <2> QED
    BY <2>1, <2>2, NameKept DEF mgrVars
<1>4. CASE LeaveClient(c)
  <2> DEFINE s == [g \in Segments |-> [seg[g] EXCEPT !.clients = @ - Attached(c, g)]]
  <2>1. Release(c, {}, s) /\ UNCHANGED <<world, mgrVars>>
    BY <1>4 DEF LeaveClient, Gone
  <2>2. \A g \in Segments : s[g].orphan = seg[g].orphan
    BY <1>1 DEF SegmentType
  <2> HIDE DEF s
  <2> QED
    BY <1>1, <2>1, <2>2, NameReleased DEF mgrVars
<1>5. CASE KillClient(c)
  <2> DEFINE s == [g \in Segments |-> [seg[g] EXCEPT !.lost = @ + Attached(c, g)]]
  <2>1. Release(c, {}, s) /\ UNCHANGED <<world, mgrVars>>
    BY <1>5 DEF KillClient, Gone
  <2>2. \A g \in Segments : s[g].orphan = seg[g].orphan
    BY <1>1 DEF SegmentType
  <2> HIDE DEF s
  <2> QED
    BY <1>1, <2>1, <2>2, NameReleased DEF mgrVars
<1> QED
  BY <1>2, <1>3, <1>4, <1>5 DEF ClientSteps, Attaches, Cycles

LEMMA NamePage ==
  ASSUME IInv, NameInv, PageSteps
  PROVE  NameInv'
<1>1. Page \in Processes /\ holds \in [Processes -> SUBSET Segments]
  BY Kinds DEF IInv, TypeOK
<1>2. CASE Asks \/ CannotOpen \/ Accepts \/ Indexes
  BY <1>1, <1>2, NameKept DEF Asks, CannotOpen, Accepts, Indexes, mgrVars
<1>3. CASE OpensOrCreates
  <2>1. /\ world # "linux" /\ UNCHANGED world
        /\ holds' = [holds EXCEPT ![Page] = holds[Page] \cup {name'}]
    BY <1>3 DEF OpensOrCreates, Make, Take, Set
  <2>2. name' \in holds'[Page]
    BY <1>1, <2>1
  <2> QED
    BY <1>1, <2>1, <2>2 DEF NameInv, Held
<1>4. CASE Rejects
  BY <1>1, <1>4, NameReleased DEF Rejects, mgrVars
<1>5. CASE PageRestarts
  BY <1>1, <1>5, NameReleased DEF PageRestarts, mgrVars
<1> QED
  BY <1>2, <1>3, <1>4, <1>5 DEF PageSteps, PageAttaches

LEMMA NameStep == IInv /\ NameInv /\ [Next]_vars => NameInv'
<1>1. NameInv /\ UNCHANGED vars => NameInv'
  BY DEF NameInv, Held, vars, mgrVars
<1> QED
  BY <1>1, NameManager, NameClient, NamePage DEF Next

(* CreateFileMapping and shmget refuse a manager for a reason that is there to *)
(* see, for any number of processes, kills and restarts.                       *)
THEOREM RefusalsJustified == Spec => RefusalsHaveAReason
<1> DEFINE Inv == IInv /\ HoldersInv /\ NameInv
<1>1. Init => Inv
  <2>1. Init => HoldersInv /\ NameInv
    BY Kinds DEF Init, HoldersInv, NameInv
  <2> QED
    BY <2>1, InitIInv
<1>2. Inv /\ [Next]_vars => Inv'
  BY NextIInv, HoldersStep, NameStep
<1>3. ASSUME Inv, [Next]_vars
      PROVE  [\A m \in Managers : mpc[m] # "refused" /\ mpc'[m] = "refused" => Occupied(m)]_vars
  <2> SUFFICES ASSUME Next, NEW m \in Managers, mpc[m] # "refused", mpc'[m] = "refused"
      PROVE Occupied(m)
    BY <1>3
  <2>1. ManagerRefused(m)
    <3>1. mpc \in [Managers -> Working \cup {"down", "refused"}]
      BY <1>3 DEF IInv, TypeOK
    <3>2. ASSUME NEW n \in Managers, ManagerSteps(n), ~ManagerRefused(n) PROVE FALSE
      BY <3>1, <3>2 DEF ManagerSteps, Initialises, Stops, ManagerCreates, ManagerExits, Wipe,
           Header, Fill, Register, WriteSlot, DefaultHealth, MonitorEnds, Clean, Signal,
           KillManager, Forgotten, MGoes, Set, Working
    <3>3. ASSUME NEW n \in Managers, ManagerRefused(n) PROVE n = m
      BY <3>1, <3>3 DEF ManagerRefused, MGoes, Set
    <3>4. ASSUME NEW c \in Clients, ClientSteps(c) PROVE UNCHANGED mpc
      BY <3>4 DEF ClientSteps, Attaches, Cycles, StartClient, NotFound, TooSmall, Open, Scan,
           Default, Count, ReadHealth, EchoHealth, LeaveClient, KillClient, mgrVars
    <3>5. ASSUME PageSteps PROVE UNCHANGED mpc
      BY <3>5 DEF PageSteps, PageAttaches, Asks, CannotOpen, OpensOrCreates, Accepts, Rejects,
           Indexes, PageRestarts, mgrVars
    <3> QED
      BY <3>2, <3>3, <3>4, <3>5 DEF Next
  <2>2. mpc[m] = "down" /\ name # 0 /\ "down" \notin Working
    BY <2>1 DEF ManagerRefused, Working
  <2>3. CASE world = "linux"
    BY <1>3, <2>2, <2>3 DEF NameInv, Occupied
  <2>4. CASE world # "linux"
    <3>1. PICK p \in Processes : name \in holds[p]
      BY <1>3, <2>2, <2>4 DEF NameInv, Held
    <3> QED
      BY <1>3, <2>2, <2>4, <3>1 DEF HoldersInv, Occupied, Processes
  <2> QED
    BY <2>3, <2>4
<1> QED
  BY <1>1, <1>2, <1>3, PTL DEF Spec, RefusalsHaveAReason

-----------------------------------------------------------------------------
(* What is attached to a segment before it is in service makes it early.      *)
LEMMA Unattached ==
  ASSUME IInv, NEW g \in Segments, ~seg[g].served, ~seg[g].early
  PROVE  \A c \in Clients, k \in Handles : open[c][k] # g
<1> SUFFICES ASSUME NEW c \in Clients, NEW k \in Handles, open[c][k] = g PROVE FALSE
  OBVIOUS
<1>1. g # 0
  BY DEF Segments
<1> QED
  BY <1>1, ClientParts DEF OpenOk

(* The name stays, goes, or is given to a segment that nobody had.            *)
New(g) == /\ g \in Segments /\ ~seg'[g].served
          /\ \A p \in Processes : g \notin holds[p]
LEMMA NameFate ==
  ASSUME IInv, Next
  PROVE  name' \in {name, 0} \/ New(name')
<1>1. ASSUME NEW p \in Processes, NEW b \in BOOLEAN, Make(p, b) PROVE New(name')
  BY <1>1, MakeLemma DEF New
<1>2. ASSUME NEW h PROVE NameAfter(h) \in {name, 0}
  BY DEF NameAfter
<1>3. ASSUME NEW m \in Managers, ManagerSteps(m)
      PROVE  name' \in {name, 0} \/ New(name')
  <2>1. CASE ManagerCreates(m)
    BY <1>1, <2>1, Kinds DEF ManagerCreates
  <2>2. CASE InsideSteps(m)
    BY <2>2, InsideLemma
  <2>3. CASE ManagerRefused(m) \/ ManagerExits(m) \/ Signal(m)
    BY <2>3 DEF ManagerRefused, ManagerExits, Signal
  <2>4. CASE Clean(m) \/ KillManager(m)
    BY <1>2, <2>4 DEF Clean, KillManager, Release
  <2> QED
    BY <1>3, <2>1, <2>2, <2>3, <2>4 DEF ManagerSteps, Initialises, Stops, InsideSteps
<1>4. ASSUME NEW c \in Clients, ClientSteps(c) PROVE name' \in {name, 0}
  <2>1. CASE LeaveClient(c) \/ KillClient(c)
    BY <1>2, <2>1 DEF LeaveClient, KillClient, Gone, Release
  <2>2. CASE ~(LeaveClient(c) \/ KillClient(c))
    BY <1>4, <2>2 DEF ClientSteps, Attaches, Cycles, StartClient, NotFound, TooSmall, Open, Scan,
         Default, Count, ReadHealth, EchoHealth
  <2> QED
    BY <2>1, <2>2
<1>5. ASSUME PageSteps PROVE name' \in {name, 0} \/ New(name')
  <2>1. CASE OpensOrCreates
    BY <1>1, <2>1, Kinds DEF OpensOrCreates
  <2>2. CASE ~OpensOrCreates
    BY <1>2, <1>5, <2>2 DEF PageSteps, PageAttaches, Asks, CannotOpen, Accepts, Rejects, Indexes,
         PageRestarts, Release
  <2> QED
    BY <2>1, <2>2
<1> QED
  BY <1>3, <1>4, <1>5 DEF Next

(* A handle is attached only where the daemon has been; the second attachment *)
(* is to the segment of the first as long as that has the name, and nothing   *)
(* but the second reads COMM.IsHealthy.                                       *)
AttachOk(c) ==
  /\ c \notin Daemons => att[c] = 1
  /\ cpc[c] # "run" => open[c][att[c]] = 0 /\ open[c][2] = 0
  /\ open[c][2] = 0 => healthy[c]
  /\ name # 0 /\ open[c][1] = name =>
       /\ open[c][2] \in {0, name}
       /\ cpc[c] \in {"scan", "default", "count"} => cseg[c] = name
AttachInv == \A c \in Clients : AttachOk(c)

LEMMA AttachSame ==
  ASSUME IInv, AttachInv, Next, NEW d \in Clients,
         cpc'[d] = cpc[d], att'[d] = att[d], open'[d] = open[d],
         healthy'[d] = healthy[d], cseg'[d] = cseg[d]
  PROVE  AttachOk(d)'
<1>1. name' = name \/ name' = 0 \/ New(name')
  BY NameFate
<1>2. 1 \in Handles /\ open[d][1] # 0 => open[d][1] \in holds[d] /\ d \in Processes
  BY ClientParts DEF OpenOk
<1>3. New(name') /\ name' # 0 => open[d][1] # name'
  BY <1>2 DEF New, Handles
<1> QED
  BY <1>1, <1>3 DEF AttachInv, AttachOk

LEMMA AttachOnward ==
  ASSUME IInv, AttachInv, NEW c \in Clients, NEW ok, Onward(c, ok)
  PROVE  /\ \A d \in Clients \ {c} : cpc'[d] = cpc[d] /\ att'[d] = att[d]
         /\ c \notin Daemons => att'[c] = 1
         /\ \/ att[c] = 1 /\ att'[c] = 2 /\ cpc'[c] = "open"
            \/ att[c] = 2 /\ att'[c] = 1 /\ cpc'[c] = "run"
            \/ c \notin Daemons /\ att[c] = 1 /\ att'[c] = 1
               /\ cpc'[c] \in {"run", "exit"} /\ (ok => cpc'[c] = "run")
<1>1. att \in [Clients -> {1, 2}] /\ AttachOk(c)
      /\ cpc \in [Clients -> {"down", "open", "scan", "default", "count", "run", "exit"}]
  BY DEF IInv, TypeOK, Handles, AttachInv
<1>2. CASE c \in Daemons
  BY <1>1, <1>2 DEF Onward, CGoes, Set, Attachments
<1>3. CASE c \notin Daemons
  BY <1>1, <1>3 DEF Onward, CGoes, Set, Attachments, AttachOk
<1> QED
  BY <1>2, <1>3

LEMMA AttachClient ==
  ASSUME IInv, AttachInv, Next, NEW c \in Clients, ClientSteps(c)
  PROVE  AttachInv'
<1>1. /\ cpc \in [Clients -> {"down", "open", "scan", "default", "count", "run", "exit"}]
      /\ att \in [Clients -> {1, 2}] /\ cseg \in [Clients -> 0..MaxSegments]
      /\ open \in [Clients -> [{1, 2} -> 0..MaxSegments]] /\ healthy \in [Clients -> BOOLEAN]
      /\ \A d \in Clients : AttachOk(d)
  BY DEF IInv, TypeOK, AttachInv, Handles
<1>2. \A d \in Clients \ {c} :
        /\ cpc'[d] = cpc[d] /\ att'[d] = att[d] /\ open'[d] = open[d]
        /\ healthy'[d] = healthy[d] /\ cseg'[d] = cseg[d]
  <2>1. CASE NotFound(c) \/ TooSmall(c) \/ Count(c)
    BY <1>1, <2>1, AttachOnward DEF NotFound, TooSmall, Count
  <2>2. CASE StartClient(c) \/ Scan(c) \/ Default(c) \/ ReadHealth(c) \/ EchoHealth(c) \/ Open(c)
    BY <1>1, <2>2 DEF StartClient, Scan, Default, ReadHealth, EchoHealth, Open, CGoes, Set, cliVars
  <2>3. CASE LeaveClient(c) \/ KillClient(c)
    BY <1>1, <2>3 DEF LeaveClient, KillClient, Gone, CGoes, Set
  <2> QED
    BY <2>1, <2>2, <2>3 DEF ClientSteps, Attaches, Cycles
<1>3. AttachOk(c)'
  <2>1. CASE NotFound(c) \/ TooSmall(c)
    <3>1. cpc[c] = "open" /\ UNCHANGED <<name, open, healthy, cseg>>
      BY <2>1 DEF NotFound, TooSmall
    <3>2. Onward(c, FALSE)
      BY <2>1 DEF NotFound, TooSmall
    <3>3. /\ c \notin Daemons => att'[c] = 1
          /\ \/ att[c] = 1 /\ att'[c] = 2 /\ cpc'[c] = "open"
             \/ att'[c] = 1 /\ cpc'[c] = "run"
             \/ att[c] = 1 /\ att'[c] = 1 /\ cpc'[c] \in {"run", "exit"}
      BY <3>2, AttachOnward
    <3>4. AttachOk(c)
      BY <1>1
    <3> QED
      BY <3>1, <3>3, <3>4 DEF AttachOk
  <2>2. CASE Count(c)
    <3>1. /\ cpc[c] = "count" /\ UNCHANGED <<name, healthy, cseg>>
          /\ open'[c][att[c]] = cseg[c]
          /\ \A k \in {1, 2} \ {att[c]} : open'[c][k] = open[c][k]
      BY <1>1, <2>2 DEF Count
    <3>2. Onward(c, TRUE)
      BY <2>2 DEF Count
    <3>3. /\ c \notin Daemons => att'[c] = 1
          /\ \/ att[c] = 1 /\ att'[c] = 2 /\ cpc'[c] = "open"
             \/ att'[c] = 1 /\ cpc'[c] = "run"
      BY <3>2, AttachOnward
    <3>4. AttachOk(c) /\ att[c] \in {1, 2}
      BY <1>1
    <3>5. CASE att[c] = 1
      BY <3>1, <3>3, <3>4, <3>5 DEF AttachOk
    <3>6. CASE att[c] = 2
      BY <3>1, <3>3, <3>4, <3>6 DEF AttachOk
    <3> QED
      BY <3>4, <3>5, <3>6
  <2>3. CASE StartClient(c) \/ Scan(c) \/ Default(c)
    <3>1. /\ cpc[c] \in {"down", "scan", "default"} /\ UNCHANGED <<name, att, open, healthy, cseg>>
          /\ cpc'[c] # "run" /\ (cpc'[c] = "open" \/ cpc[c] \in {"scan", "default"})
      BY <1>1, <2>3 DEF StartClient, Scan, Default, CGoes, Set
    <3> QED
      BY <1>1, <3>1 DEF AttachOk
  <2>4. CASE Open(c)
    <3>1. /\ cpc[c] = "open" /\ UNCHANGED <<name, att, open, healthy>>
          /\ cpc'[c] = "scan" /\ cseg'[c] = name
      BY <1>1, <2>4 DEF Open, CGoes, Set
    <3> QED
      BY <1>1, <3>1 DEF AttachOk
  <2>5. CASE ReadHealth(c)
    <3>1. open[c][2] # 0 /\ cpc[c] = "run" /\ UNCHANGED <<name, att, open, cpc, cseg>>
      BY <1>1, <2>5 DEF ReadHealth, Knows
    <3> QED
      BY <1>1, <3>1 DEF AttachOk
  <2>6. CASE EchoHealth(c)
    BY <1>1, <2>6 DEF EchoHealth, cliVars, AttachOk
  <2>7. CASE LeaveClient(c) \/ KillClient(c)
    <3>1. cpc'[c] = "down" /\ att'[c] = 1 /\ open'[c] = NotOpen /\ healthy'[c]
      BY <1>1, <2>7 DEF LeaveClient, KillClient, Gone, CGoes, Set
    <3>2. NotOpen[1] = 0 /\ NotOpen[2] = 0
      BY DEF NotOpen, Handles
    <3> QED
      BY <3>1, <3>2 DEF AttachOk
  <2> QED
    BY <2>1, <2>2, <2>3, <2>4, <2>5, <2>6, <2>7 DEF ClientSteps, Attaches, Cycles
<1> QED
  BY <1>2, <1>3, AttachSame DEF AttachInv

LEMMA ManagersLeaveClients ==
  ASSUME NEW m \in Managers, ManagerSteps(m)
  PROVE  UNCHANGED cliVars
BY DEF ManagerSteps, Initialises, Stops, ManagerCreates, ManagerRefused, ManagerExits, Wipe,
       Header, Fill, Register, WriteSlot, DefaultHealth, MonitorEnds, Clean, Signal, KillManager,
       Initialise
LEMMA PageLeavesOthers ==
  ASSUME PageSteps
  PROVE  UNCHANGED <<mgrVars, cliVars>>
BY DEF PageSteps, PageAttaches, Asks, CannotOpen, OpensOrCreates, Accepts, Rejects, Indexes,
       PageRestarts
LEMMA ClientsLeaveManagers ==
  ASSUME NEW c \in Clients, ClientSteps(c)
  PROVE  UNCHANGED <<mgrVars, pageVars>>
BY DEF ClientSteps, Attaches, Cycles, StartClient, NotFound, TooSmall, Open, Scan,
       Default, Count, ReadHealth, EchoHealth, LeaveClient, KillClient

LEMMA AttachStep == IInv /\ AttachInv /\ [Next]_vars => AttachInv'
<1>1. AttachInv /\ UNCHANGED vars => AttachInv'
  BY DEF AttachInv, AttachOk, vars, cliVars
<1>2. ASSUME IInv, AttachInv, Next, UNCHANGED cliVars PROVE AttachInv'
  BY <1>2, AttachSame DEF AttachInv, cliVars
<1> QED
  BY <1>1, <1>2, AttachClient, ManagersLeaveClients, PageLeavesOthers DEF Next

-----------------------------------------------------------------------------
(* The default of COMM.IsHealthy is in place before the segment is in service, *)
(* and a client attached to the segment of that name knows no worse.           *)
HealthInv ==
  /\ \A m \in Managers : mpc[m] = "register" /\ mslot[m] > HealthAfter =>
       seg[mseg[m]].comm \/ seg[mseg[m]].early
  /\ name # 0 /\ seg[name].served /\ ~seg[name].early =>
       /\ seg[name].comm
       /\ \A c \in Clients : name \in {open[c][1], open[c][2]} => healthy[c]

(* What a step leaves of a segment, and what it frees.                         *)
Kept(g) == /\ seg'[g].comm = seg[g].comm /\ seg'[g].served = seg[g].served
           /\ seg[g].early => seg'[g].early

LEMMA FreedLemma ==
  ASSUME IInv, NEW s, seg' = Freed(s), NEW g \in Segments,
         g = name' \/ \E p \in Processes : g \in holds'[p]
  PROVE  seg'[g] = s[g]
BY DEF Freed, Held

LEMMA Registering ==
  ASSUME IInv, NEW m \in Managers, mpc[m] = "register"
  PROVE  /\ m \in Processes /\ mseg[m] \in Segments /\ mseg[m] \in holds[m]
         /\ ~seg[mseg[m]].served /\ mslot[m] \in Nat
BY Kinds, ManagerFacts DEF ManagerOk, Working, Initialising, Slots

LEMMA HealthKept ==
  ASSUME IInv, HealthInv, Next, UNCHANGED cliVars,
         \A m \in Managers : mpc'[m] = "register" =>
           /\ mpc[m] = "register" /\ mslot'[m] = mslot[m] /\ mseg'[m] = mseg[m]
           /\ Kept(mseg[m]),
         name' \in Segments => (name' = name /\ Kept(name)) \/ ~seg'[name'].served
  PROVE  HealthInv'
<1>1. name' # 0 => name' \in Segments
  <2>1. name \in 0..MaxSegments
    BY DEF IInv, TypeOK
  <2> QED
    BY <2>1, NameFate DEF New, Segments
<1> QED
  BY <1>1 DEF HealthInv, Kept, cliVars

(* A step that lets go of segments and turns the others into s.                *)
LEMMA HealthFreed ==
  ASSUME IInv, HealthInv, Next, UNCHANGED cliVars, NEW s, seg' = Freed(s),
         \A g \in Segments : /\ s[g].comm = seg[g].comm /\ s[g].served = seg[g].served
                             /\ s[g].early = seg[g].early,
         \A m \in Managers : mpc'[m] = "register" =>
           /\ mpc[m] = "register" /\ mslot'[m] = mslot[m] /\ mseg'[m] = mseg[m]
           /\ holds'[m] = holds[m],
         name' \in {name, 0}
  PROVE  HealthInv'
<1>1. \A m \in Managers : mpc'[m] = "register" => Kept(mseg[m])
  BY Registering, FreedLemma DEF Kept
<1>2. name' \in Segments => name' = name /\ Kept(name)
  <2>1. 0 \notin Segments
    BY DEF Segments
  <2> QED
    BY <2>1, FreedLemma DEF Kept
<1> QED
  BY <1>1, <1>2, HealthKept

LEMMA NameAfterLemma == \A h : NameAfter(h) \in {name, 0}
BY DEF NameAfter

LEMMA HealthManager ==
  ASSUME IInv, HealthInv, Next, NEW m \in Managers, ManagerSteps(m)
  PROVE  HealthInv'
<1>1. /\ UNCHANGED cliVars /\ m \in Processes /\ seg \in [Segments -> SegmentType]
      /\ mpc \in [Managers -> Working \cup {"down", "refused"}]
      /\ mseg \in [Managers -> 0..MaxSegments] /\ mslot \in [Managers -> Slots]
      /\ holds \in [Processes -> SUBSET Segments] /\ Managers \subseteq Processes
      /\ name \in 0..MaxSegments
  BY ManagersLeaveClients, Kinds DEF IInv, TypeOK
<1>2. CASE ManagerCreates(m)
  <2>1. /\ Make(m, FALSE) /\ mpc' = [mpc EXCEPT ![m] = "wipe"]
        /\ mseg' = [mseg EXCEPT ![m] = name'] /\ mslot' = mslot
    BY <1>2 DEF ManagerCreates, MGoes, Set
  <2>2. /\ \A q \in Processes : name' \notin holds[q]
        /\ \A g \in Segments : g # name' => seg'[g] = seg[g]
        /\ ~seg'[name'].served
    BY <1>1, <2>1, MakeLemma
  <2>3. \A n \in Managers : mpc'[n] = "register" => n # m /\ mpc[n] = "register"
    BY <1>1, <2>1
  <2>4. \A n \in Managers : mpc'[n] = "register" => Kept(mseg[n])
    BY <1>1, <2>2, <2>3, Registering DEF Kept
  <2> QED
    BY <1>1, <2>1, <2>2, <2>3, <2>4, HealthKept
<1>3. CASE ManagerRefused(m) \/ ManagerExits(m) \/ Signal(m)
  <2>1. /\ UNCHANGED <<name, holds, seg, mseg, mslot>>
        /\ \A n \in Managers : mpc'[n] = "register" => mpc[n] = "register"
    BY <1>1, <1>3 DEF ManagerRefused, ManagerExits, Signal, MGoes, Set
  <2>2. \A g : Kept(g)
    BY <2>1 DEF Kept
  <2> QED
    BY <1>1, <2>1, <2>2, HealthKept
<1>4. CASE InsideSteps(m)
  <2> DEFINE g == mseg[m]
  <2>1. /\ UNCHANGED <<name, mseg>> /\ mpc[m] \in Working /\ g \in Segments
        /\ \A n \in Managers \ {m} : mpc'[n] = mpc[n] /\ mslot'[n] = mslot[n]
        /\ \A f \in Segments \ {g} : seg'[f] = seg[f]
        /\ Inside(m, seg[g], seg'[g])
    BY <1>4, InsideLemma
  <2>2. mslot[m] \in Nat /\ HealthAfter \in Nat /\ HealthAfter >= 1
    BY <1>1, SegmentAssumption, RegistryLemma DEF Slots
  <2>3. ASSUME NEW n \in Managers, mpc'[n] = "register", mslot'[n] > HealthAfter
        PROVE  seg'[mseg'[n]].comm \/ seg'[mseg'[n]].early
    <3>1. CASE n = m
      BY <2>1, <2>2, <2>3, <3>1 DEF Inside, HealthInv
    <3>2. CASE n # m
      <4>1. mpc[n] = "register" /\ mslot[n] > HealthAfter
        BY <2>1, <2>3, <3>2
      <4>2. mseg[n] \in Segments \ {g}
        BY <2>1, <3>2, <4>1, ManagerParts, Registering DEF IInv, Apart, Working
      <4> QED
        BY <2>1, <4>1, <4>2 DEF HealthInv
    <3> QED
      BY <3>1, <3>2
  <2>4. ASSUME name' # 0, seg'[name'].served, ~seg'[name'].early
        PROVE  /\ seg'[name'].comm
               /\ \A c \in Clients : name' \in {open'[c][1], open'[c][2]} => healthy'[c]
    <3>1. name' = name /\ name \in Segments /\ UNCHANGED <<open, healthy>>
      BY <1>1, <2>1, <2>4 DEF Segments, cliVars
    <3>2. CASE seg[name].served
      BY <2>1, <2>4, <3>1, <3>2 DEF HealthInv, Inside
    <3>3. CASE ~seg[name].served
      <4>1. /\ name = g /\ mpc[m] = "register" /\ mslot[m] > HealthAfter
            /\ seg'[g].comm = seg[g].comm /\ ~seg[g].early
        BY <2>1, <2>4, <3>1, <3>3 DEF Inside
      <4>2. \A c \in Clients, k \in Handles : open[c][k] # name
        BY <3>1, <3>3, <4>1, Unattached
      <4>3. seg[g].comm
        BY <4>1 DEF HealthInv
      <4> QED
        BY <3>1, <4>1, <4>2, <4>3 DEF Handles
    <3> QED
      BY <3>2, <3>3
  <2> QED
    BY <2>3, <2>4 DEF HealthInv
<1>5. CASE Clean(m) \/ KillManager(m)
  <2>1. \E s : /\ seg' = Freed(s)
               /\ \A g \in Segments : /\ s[g].comm = seg[g].comm /\ s[g].served = seg[g].served
                                      /\ s[g].early = seg[g].early
    <3>1. CASE Clean(m)
      BY <3>1 DEF Clean
    <3>2. CASE KillManager(m)
      <4> DEFINE s == [seg EXCEPT ![mseg[m]].orphan = TRUE]
      <4>1. seg' = Freed(s)
        BY <3>2 DEF KillManager, Release
      <4>2. \A g \in Segments : /\ s[g].comm = seg[g].comm /\ s[g].served = seg[g].served
                                /\ s[g].early = seg[g].early
        BY <1>1 DEF SegmentType
      <4> HIDE DEF s
      <4> QED
        BY <4>1, <4>2
    <3> QED
      BY <1>5, <3>1, <3>2
  <2>2. /\ mpc' = [mpc EXCEPT ![m] = "down"] /\ mseg' = [mseg EXCEPT ![m] = 0]
        /\ mslot' = [mslot EXCEPT ![m] = 1] /\ holds' = [holds EXCEPT ![m] = {}]
        /\ name' \in {name, 0}
    BY <1>5, NameAfterLemma DEF Clean, KillManager, Release, Forgotten, MGoes, Set
  <2>3. \A n \in Managers : mpc'[n] = "register" =>
           /\ mpc[n] = "register" /\ mslot'[n] = mslot[n] /\ mseg'[n] = mseg[n]
           /\ holds'[n] = holds[n]
    BY <1>1, <2>2
  <2> QED
    BY <1>1, <2>1, <2>2, <2>3, HealthFreed
<1> QED
  BY <1>2, <1>3, <1>4, <1>5 DEF ManagerSteps, Initialises, Stops, InsideSteps

LEMMA HealthPage ==
  ASSUME IInv, HealthInv, Next, PageSteps
  PROVE  HealthInv'
<1>1. /\ UNCHANGED <<mgrVars, cliVars>> /\ Page \in Processes /\ Page \notin Managers
      /\ holds \in [Processes -> SUBSET Segments] /\ Managers \subseteq Processes
  BY PageLeavesOthers, Kinds DEF IInv, TypeOK
<1>2. UNCHANGED <<mpc, mseg, mslot>>
  BY <1>1 DEF mgrVars
<1>3. CASE Asks \/ CannotOpen \/ Accepts \/ Indexes \/ (OpensOrCreates /\ name # 0)
  <2>1. UNCHANGED <<name, seg>>
    BY <1>3 DEF Asks, CannotOpen, Accepts, Indexes, OpensOrCreates
  <2>2. \A g : Kept(g)
    BY <2>1 DEF Kept
  <2> QED
    BY <1>1, <1>2, <2>1, <2>2, HealthKept
<1>4. CASE OpensOrCreates /\ name = 0
  <2>1. Make(Page, TRUE)
    BY <1>4 DEF OpensOrCreates
  <2>2. /\ \A q \in Processes : name' \notin holds[q]
        /\ \A g \in Segments : g # name' => seg'[g] = seg[g]
        /\ ~seg'[name'].served
    BY <1>1, <2>1, MakeLemma
  <2>3. \A n \in Managers : mpc'[n] = "register" => Kept(mseg[n])
    BY <1>1, <1>2, <2>2, Registering DEF Kept
  <2> QED
    BY <1>1, <1>2, <2>2, <2>3, HealthKept
<1>5. CASE Rejects \/ PageRestarts
  <2>1. /\ seg' = Freed(seg) /\ name' \in {name, 0}
        /\ \A p \in Processes \ {Page} : holds'[p] = holds[p]
    BY <1>1, <1>5, NameAfterLemma DEF Rejects, PageRestarts, Release, Set
  <2> QED
    BY <1>1, <1>2, <2>1, HealthFreed
<1> QED
  BY <1>3, <1>4, <1>5 DEF PageSteps, PageAttaches

LEMMA HealthClient ==
  ASSUME IInv, AttachInv, HealthInv, Next, NEW c \in Clients, ClientSteps(c)
  PROVE  HealthInv'
<1>1. /\ UNCHANGED <<mpc, mseg, mslot>> /\ c \in Processes /\ seg \in [Segments -> SegmentType]
      /\ holds \in [Processes -> SUBSET Segments] /\ Managers \subseteq Processes
      /\ open \in [Clients -> [Handles -> 0..MaxSegments]] /\ healthy \in [Clients -> BOOLEAN]
      /\ att[c] \in Handles /\ AttachOk(c) /\ name \in 0..MaxSegments /\ c \notin Managers
      /\ Handles = {1, 2}
  BY ClientsLeaveManagers, Kinds DEF IInv, TypeOK, mgrVars, AttachInv, Handles
<1>2. ASSUME \A m \in Managers : mpc[m] = "register" => seg'[mseg[m]].early \/ Kept(mseg[m])
      PROVE  \A m \in Managers : mpc'[m] = "register" /\ mslot'[m] > HealthAfter =>
               seg'[mseg'[m]].comm \/ seg'[mseg'[m]].early
  BY <1>1, <1>2 DEF HealthInv, Kept
<1>3. CASE StartClient(c) \/ NotFound(c) \/ TooSmall(c) \/ Scan(c)
  <2>1. UNCHANGED <<name, seg, open, healthy>>
    BY <1>3 DEF StartClient, NotFound, TooSmall, Scan
  <2> QED
    BY <1>1, <2>1 DEF HealthInv
<1>4. CASE ReadHealth(c)
  <2>1. /\ UNCHANGED <<name, seg, open>> /\ open[c][2] # 0
        /\ healthy' = [healthy EXCEPT ![c] = seg[open[c][2]].comm]
    BY <1>4 DEF ReadHealth, Knows, Set
  <2>2. ASSUME name # 0, seg[name].served, ~seg[name].early,
               NEW d \in Clients, name \in {open[d][1], open[d][2]}
        PROVE  seg[name].comm /\ healthy'[d]
    <3>1. seg[name].comm /\ healthy[d]
      BY <2>2 DEF HealthInv
    <3>2. d = c => open[d][2] = name
      BY <1>1, <2>1, <2>2 DEF AttachOk
    <3> QED
      BY <1>1, <2>1, <3>1, <3>2
  <2>3. name # 0 /\ seg[name].served /\ ~seg[name].early => seg[name].comm
    BY DEF HealthInv
  <2>4. \A m \in Managers : mpc'[m] = "register" /\ mslot'[m] > HealthAfter =>
          seg'[mseg'[m]].comm \/ seg'[mseg'[m]].early
    BY <1>1, <2>1 DEF HealthInv
  <2> QED
    BY <2>1, <2>2, <2>3, <2>4 DEF HealthInv
<1>5. CASE Open(c) \/ Default(c) \/ Count(c) \/ EchoHealth(c)
  <2>1. PICK g \in Segments : Touches(c, g)
    BY <1>5, TouchesLemma
  <2>2. /\ UNCHANGED name
        /\ \A f \in Segments \ {g} : seg'[f] = seg[f]
        /\ seg'[g].served = seg[g].served
        /\ seg[g].early => seg'[g].early
        /\ seg'[g].comm = IF EchoHealth(c) THEN healthy[c] ELSE seg[g].comm
    BY <2>1, ClientInside
  <2>3. EchoHealth(c) => open[c][1] = g /\ open[c][1] # 0 /\ cpc[c] = "run"
    BY <2>1, <1>1 DEF Touches, EchoHealth, Knows, Open, Default, Count
  <2>4. ASSUME NEW m \in Managers, mpc[m] = "register"
        PROVE  seg'[mseg[m]].early \/ Kept(mseg[m])
    <3>1. mseg[m] \in Segments /\ ~seg[mseg[m]].served
      BY <2>4, Registering
    <3>2. CASE mseg[m] = g /\ EchoHealth(c)
      BY <1>1, <2>2, <2>3, <3>1, <3>2, Unattached
    <3>3. CASE ~(mseg[m] = g /\ EchoHealth(c))
      BY <2>2, <3>1, <3>3 DEF Kept
    <3> QED
      BY <3>2, <3>3
  <2>5. ASSUME name # 0, seg'[name].served, ~seg'[name].early
        PROVE  seg[name].served /\ ~seg[name].early /\ seg'[name].comm
    <3>1. seg[name].served /\ ~seg[name].early
      BY <1>1, <2>2, <2>5 DEF Segments
    <3>2. seg[name].comm /\ \A d \in Clients : name \in {open[d][1], open[d][2]} => healthy[d]
      BY <2>5, <3>1 DEF HealthInv
    <3>3. CASE name = g /\ EchoHealth(c)
      BY <2>2, <2>3, <3>1, <3>2, <3>3
    <3>4. CASE ~(name = g /\ EchoHealth(c))
      <4>1. name \in Segments
        BY <1>1, <2>5 DEF Segments
      <4> QED
        BY <2>2, <3>1, <3>2, <3>4, <4>1
    <3> QED
      BY <3>3, <3>4
  <2>6. UNCHANGED healthy
    BY <1>5 DEF Open, Default, Count, EchoHealth, cliVars
  <2>7. ASSUME name # 0, seg[name].served, ~seg[name].early,
               NEW d \in Clients, name \in {open'[d][1], open'[d][2]}
        PROVE  healthy[d]
    <3>1. CASE open'[d] = open[d]
      BY <2>7, <3>1 DEF HealthInv
    <3>2. CASE open'[d] # open[d]
      <4>1. Count(c)
        BY <1>5, <3>2 DEF Open, Default, EchoHealth, cliVars
      <4>2. d = c /\ cpc[c] = "count"
        BY <1>1, <3>2, <4>1 DEF Count
      <4> QED
        BY <1>1, <4>2 DEF AttachOk
    <3> QED
      BY <3>1, <3>2
  <2>8. \A m \in Managers : mpc'[m] = "register" /\ mslot'[m] > HealthAfter =>
          seg'[mseg'[m]].comm \/ seg'[mseg'[m]].early
    BY <1>2, <2>4
  <2> QED
    BY <2>2, <2>5, <2>6, <2>7, <2>8 DEF HealthInv
<1>6. CASE LeaveClient(c) \/ KillClient(c)
  <2>1. PICK s : /\ Gone(c, s)
                 /\ \A g \in Segments : /\ s[g].comm = seg[g].comm /\ s[g].served = seg[g].served
                                        /\ s[g].early = seg[g].early
    <3>1. CASE LeaveClient(c)
      <4> DEFINE s == [g \in Segments |-> [seg[g] EXCEPT !.clients = @ - Attached(c, g)]]
      <4>1. Gone(c, s)
        BY <3>1 DEF LeaveClient
      <4>2. \A g \in Segments : /\ s[g].comm = seg[g].comm /\ s[g].served = seg[g].served
                                /\ s[g].early = seg[g].early
        BY <1>1 DEF SegmentType
      <4> HIDE DEF s
      <4> QED
        BY <4>1, <4>2
    <3>2. CASE KillClient(c)
      <4> DEFINE s == [g \in Segments |-> [seg[g] EXCEPT !.lost = @ + Attached(c, g)]]
      <4>1. Gone(c, s)
        BY <3>2 DEF KillClient
      <4>2. \A g \in Segments : /\ s[g].comm = seg[g].comm /\ s[g].served = seg[g].served
                                /\ s[g].early = seg[g].early
        BY <1>1 DEF SegmentType
      <4> HIDE DEF s
      <4> QED
        BY <4>1, <4>2
    <3> QED
      BY <1>6, <3>1, <3>2
  <2>2. /\ seg' = Freed(s) /\ name' \in {name, 0} /\ holds' = [holds EXCEPT ![c] = {}]
        /\ open' = [open EXCEPT ![c] = NotOpen] /\ healthy' = [healthy EXCEPT ![c] = TRUE]
    BY <2>1, NameAfterLemma DEF Gone, Release, Set
  <2>3. \A m \in Managers : mpc[m] = "register" => seg'[mseg[m]].early \/ Kept(mseg[m])
    <3>1. \A m \in Managers : holds'[m] = holds[m]
      BY <1>1, <2>2
    <3> QED
      BY <2>1, <2>2, <3>1, Registering, FreedLemma DEF Kept
  <2>4. ASSUME name' # 0
        PROVE  Kept(name)
    <3>1. name' = name /\ name \in Segments
      BY <1>1, <2>2, <2>4 DEF Segments
    <3>2. seg'[name] = s[name]
      BY <2>2, <3>1, FreedLemma
    <3> QED
      BY <2>1, <3>1, <3>2 DEF Kept
  <2>5. name' # 0 /\ seg'[name'].served /\ ~seg'[name'].early =>
          /\ name' = name /\ seg[name].served /\ ~seg[name].early /\ seg'[name'].comm
          /\ \A d \in Clients : name \in {open[d][1], open[d][2]} => healthy[d]
    BY <2>2, <2>4 DEF Kept, HealthInv
  <2>6. \A d \in Clients : healthy'[d] \/ (healthy'[d] = healthy[d] /\ open'[d] = open[d])
    BY <1>1, <2>2
  <2>7. \A m \in Managers : mpc'[m] = "register" /\ mslot'[m] > HealthAfter =>
          seg'[mseg'[m]].comm \/ seg'[mseg'[m]].early
    BY <1>2, <2>3
  <2> QED
    BY <2>5, <2>6, <2>7 DEF HealthInv
<1> QED
  BY <1>3, <1>4, <1>5, <1>6 DEF ClientSteps, Attaches, Cycles

LEMMA HealthStep == IInv /\ AttachInv /\ HealthInv /\ [Next]_vars => HealthInv'
<1>1. HealthInv /\ UNCHANGED vars => HealthInv'
  BY DEF HealthInv, vars, mgrVars, cliVars
<1> QED
  BY <1>1, HealthManager, HealthPage, HealthClient DEF Next

(* However managers, clients and the page come and go: the controller does not *)
(* start in scene 6, nor write a lost communication back that nobody reported,  *)
(* unless a client attached before the manager had finished.                   *)
THEOREM HealthyFromTheStart == Spec => []HealthyUnlessEarly
<1> DEFINE Inv == IInv /\ AttachInv /\ HealthInv
<1>1. Init => AttachInv /\ HealthInv
  <2>1. Init => \A c \in Clients : open[c][1] = 0 /\ open[c][2] = 0 /\ att[c] = 1 /\ healthy[c]
    BY DEF Init, NotOpen, Handles
  <2> QED
    BY <2>1 DEF Init, AttachInv, AttachOk, HealthInv
<1>2. Inv /\ [Next]_vars => Inv'
  BY NextIInv, AttachStep, HealthStep
<1>3. Inv => HealthyUnlessEarly
  BY SegmentAssumption DEF HealthInv, HealthyUnlessEarly
<1> QED
  BY <1>1, <1>2, <1>3, InitIInv, PTL DEF Spec

-----------------------------------------------------------------------------
(* The header counts the attachments there are and those of killed clients.   *)
OpenAt(g) == {a \in Clients \X Handles : open[a[1]][a[2]] = g}
CountOk(g) ==
  /\ IsFiniteSet(OpenAt(g))
  /\ ~seg[g].early =>
       /\ seg[g].clients = seg[g].lost + Cardinality(OpenAt(g))
       /\ ~seg[g].served => seg[g].lost = 0
CountInv == \A g \in Segments : CountOk(g)

LEMMA UnattachedAfter ==
  ASSUME IInv', NEW g \in Segments, ~seg'[g].served, ~seg'[g].early
  PROVE  OpenAt(g)' = {}
<1>1. g # 0
  BY DEF Segments
<1> QED
  BY <1>1 DEF IInv, ClientInv, OpenAt

(* A step that attaches nobody counts nobody.                                 *)
SameCount(g) ==
  /\ seg[g].early => seg'[g].early
  /\ seg'[g].served = seg[g].served
  /\ seg'[g].clients = seg[g].clients /\ seg'[g].lost = seg[g].lost
Recounted(g) ==
  /\ ~seg'[g].served /\ seg'[g].clients = 0
  /\ ~seg'[g].early => seg'[g].lost = 0

LEMMA RecountedLemma ==
  ASSUME IInv', NEW g \in Segments, Recounted(g), IsFiniteSet(OpenAt(g)')
  PROVE  CountOk(g)'
<1>1. CASE ~seg'[g].early
  <2>1. OpenAt(g)' = {} /\ Cardinality({}) = 0
    BY <1>1, UnattachedAfter, FS_EmptySet DEF Recounted
  <2> QED
    BY <2>1 DEF CountOk, Recounted
<1> QED
  BY <1>1 DEF CountOk

LEMMA CountSame ==
  ASSUME IInv, IInv', CountInv, UNCHANGED open,
         \A g \in Segments : SameCount(g) \/ Recounted(g)
  PROVE  CountInv'
<1> SUFFICES ASSUME NEW g \in Segments PROVE CountOk(g)'
  BY DEF CountInv
<1>1. OpenAt(g)' = OpenAt(g) /\ CountOk(g)
  BY DEF OpenAt, CountInv
<1>2. CASE SameCount(g)
  BY <1>1, <1>2 DEF SameCount, CountOk
<1>3. CASE Recounted(g)
  BY <1>1, <1>3, RecountedLemma DEF CountOk
<1> QED
  BY <1>2, <1>3

LEMMA FreshCounts ==
  /\ Fresh.clients = 0 /\ Fresh.lost = 0 /\ Fresh.served = FALSE /\ Fresh.early = FALSE
  /\ \A b \in BOOLEAN : LET f == [Fresh EXCEPT !.small = b] IN
       f.clients = 0 /\ f.lost = 0 /\ f.served = FALSE /\ f.early = FALSE
<1>1. Fresh.clients = 0 /\ Fresh.lost = 0 /\ Fresh.served = FALSE /\ Fresh.early = FALSE
  BY DEF Fresh
<1>2. ASSUME NEW b \in BOOLEAN, NEW f, f = [Fresh EXCEPT !.small = b]
      PROVE f.clients = 0 /\ f.lost = 0 /\ f.served = FALSE /\ f.early = FALSE
  BY <1>1, <1>2, FreshLemma DEF SegmentType
<1> QED
  BY <1>1, <1>2

LEMMA CountMade ==
  ASSUME IInv, IInv', CountInv, UNCHANGED open, NEW p \in Processes, NEW b \in BOOLEAN, Make(p, b)
  PROVE  CountInv'
<1>1. seg \in [Segments -> SegmentType]
  BY ClientTypes
<1>2. PICK g \in Segments : seg' = [seg EXCEPT ![g] = [Fresh EXCEPT !.small = b]]
  BY DEF Make, Set
<1>3. Recounted(g)
  BY <1>1, <1>2, FreshCounts DEF Recounted
<1>4. \A f \in Segments \ {g} : SameCount(f)
  BY <1>1, <1>2 DEF SameCount
<1> QED
  BY <1>3, <1>4, CountSame

LEMMA CountFreed ==
  ASSUME IInv, IInv', CountInv, UNCHANGED open, NEW s, seg' = Freed(s),
         \A g \in Segments : /\ s[g].early = seg[g].early /\ s[g].served = seg[g].served
                             /\ s[g].clients = seg[g].clients /\ s[g].lost = seg[g].lost
  PROVE  CountInv'
<1>1. \A g \in Segments : seg'[g] = s[g] \/ seg'[g] = Fresh
  BY DEF Freed
<1>2. \A g \in Segments : seg'[g] = s[g] => SameCount(g)
  BY DEF SameCount
<1>3. \A g \in Segments : seg'[g] = Fresh => Recounted(g)
  BY FreshCounts DEF Recounted
<1> QED
  BY <1>1, <1>2, <1>3, CountSame

LEMMA CountManager ==
  ASSUME IInv, IInv', CountInv, NEW m \in Managers, ManagerSteps(m)
  PROVE  CountInv'
<1>1. UNCHANGED open /\ m \in Processes /\ seg \in [Segments -> SegmentType]
  BY ManagersLeaveClients, Kinds, ClientTypes DEF cliVars
<1>2. CASE ManagerCreates(m)
  BY <1>1, <1>2, CountMade DEF ManagerCreates
<1>3. CASE ManagerRefused(m) \/ ManagerExits(m) \/ Signal(m)
  <2>1. UNCHANGED seg
    BY <1>3 DEF ManagerRefused, ManagerExits, Signal
  <2> QED
    BY <1>1, <2>1, CountSame DEF SameCount
<1>4. CASE InsideSteps(m)
  <2>1. PICK g \in Segments : /\ \A f \in Segments \ {g} : seg'[f] = seg[f]
                             /\ Inside(m, seg[g], seg'[g])
    BY <1>4, InsideLemma
  <2>2. OpenAt(g)' = OpenAt(g) /\ CountOk(g)
    BY <1>1, <2>1 DEF OpenAt, CountInv
  <2>3. ASSUME ~seg'[g].early, ~seg'[g].served PROVE CountOk(g)'
    <3>1. /\ OpenAt(g)' = {} /\ OpenAt(g) = {} /\ Cardinality({}) = 0 /\ IsFiniteSet({})
      BY <2>1, <2>2, <2>3, UnattachedAfter, FS_EmptySet
    <3>2. seg'[g].lost = 0 /\ seg'[g].clients = 0
      BY <2>1, <2>2, <2>3, <3>1 DEF Inside, CountOk
    <3> QED
      BY <3>1, <3>2 DEF CountOk
  <2>4. ASSUME ~seg'[g].early, seg'[g].served PROVE CountOk(g)'
    <3>1. /\ seg'[g].lost = seg[g].lost /\ ~seg[g].early
          /\ seg'[g].clients = seg[g].clients \/ (seg'[g].clients = 0 /\ ~seg[g].served)
      BY <2>1, <2>4 DEF Inside
    <3>2. ~seg[g].served => OpenAt(g) = {} /\ seg[g].lost = 0
      BY <2>1, <2>2, <3>1, Unattached DEF OpenAt, CountOk
    <3>3. Cardinality({}) = 0
      BY FS_EmptySet
    <3> QED
      BY <2>2, <2>4, <3>1, <3>2, <3>3 DEF CountOk
  <2>5. ASSUME seg'[g].early PROVE CountOk(g)'
    BY <2>2, <2>5 DEF CountOk
  <2>6. \A f \in Segments \ {g} : CountOk(f)'
    BY <1>1, <2>1 DEF CountInv, CountOk, OpenAt
  <2> QED
    BY <2>3, <2>4, <2>5, <2>6 DEF CountInv
<1>5. CASE Clean(m)
  BY <1>1, <1>5, CountFreed DEF Clean
<1>6. CASE KillManager(m)
  <2> DEFINE s == [seg EXCEPT ![mseg[m]].orphan = TRUE]
  <2>1. seg' = Freed(s)
    BY <1>6 DEF KillManager, Release
  <2>2. \A g \in Segments : /\ s[g].early = seg[g].early /\ s[g].served = seg[g].served
                             /\ s[g].clients = seg[g].clients /\ s[g].lost = seg[g].lost
    BY <1>1 DEF SegmentType
  <2> HIDE DEF s
  <2> QED
    BY <1>1, <2>1, <2>2, CountFreed
<1> QED
  BY <1>2, <1>3, <1>4, <1>5, <1>6 DEF ManagerSteps, Initialises, Stops, InsideSteps

LEMMA CountPage ==
  ASSUME IInv, IInv', CountInv, PageSteps
  PROVE  CountInv'
<1>1. UNCHANGED open /\ Page \in Processes
  BY PageLeavesOthers, Kinds DEF cliVars
<1>2. CASE Asks \/ CannotOpen \/ Accepts \/ Indexes \/ (OpensOrCreates /\ name # 0)
  <2>1. UNCHANGED seg
    BY <1>2 DEF Asks, CannotOpen, Accepts, Indexes, OpensOrCreates
  <2> QED
    BY <1>1, <2>1, CountSame DEF SameCount
<1>3. CASE OpensOrCreates /\ name = 0
  BY <1>1, <1>3, CountMade DEF OpensOrCreates
<1>4. CASE Rejects \/ PageRestarts
  BY <1>1, <1>4, CountFreed DEF Rejects, PageRestarts, Release
<1> QED
  BY <1>2, <1>3, <1>4 DEF PageSteps, PageAttaches

(* The attachments of one client are as many as it has handles there.         *)
LEMMA OwnAttachments ==
  ASSUME IInv, CountInv, NEW c \in Clients, NEW g \in Segments,
         open' = [open EXCEPT ![c] = NotOpen]
  PROVE  /\ IsFiniteSet(OpenAt(g)')
         /\ Cardinality(OpenAt(g)) = Cardinality(OpenAt(g)') + Attached(c, g)
         /\ Cardinality(OpenAt(g)) \in Nat /\ Cardinality(OpenAt(g)') \in Nat
<1> DEFINE K == {k \in Handles : open[c][k] = g}
           own == {c} \X K
<1>1. IsFiniteSet(Handles) /\ K \subseteq Handles
  BY FS_Interval, 1 \in Int, 2 \in Int DEF Handles
<1>2. IsFiniteSet(K) /\ IsFiniteSet({c}) /\ Cardinality({c}) = 1
  BY <1>1, FS_Subset, FS_Singleton
<1>3. /\ IsFiniteSet(own) /\ Cardinality(own) = Cardinality({c}) * Cardinality(K)
      /\ Cardinality(K) \in Nat
  BY <1>2, FS_Product, FS_CardinalityType
<1>4. open \in [Clients -> [Handles -> 0..MaxSegments]] /\ g # 0 /\ IsFiniteSet(OpenAt(g))
  BY ClientTypes DEF Segments, CountInv, CountOk
<1>5. OpenAt(g)' = OpenAt(g) \ own
  <2>1. \A a \in Clients \X Handles : open'[a[1]][a[2]] = IF a[1] = c THEN 0 ELSE open[a[1]][a[2]]
    BY <1>4 DEF NotOpen
  <2>2. \A a \in Clients \X Handles : a \in own <=> a[1] = c /\ open[c][a[2]] = g
    OBVIOUS
  <2> QED
    BY <1>4, <2>1, <2>2 DEF OpenAt
<1>6. own \subseteq OpenAt(g)
  BY <1>1 DEF OpenAt
<1>7. OpenAt(g) \cap own = own
  BY <1>6
<1>8. /\ IsFiniteSet(OpenAt(g) \ own)
      /\ Cardinality(OpenAt(g) \ own) = Cardinality(OpenAt(g)) - Cardinality(OpenAt(g) \cap own)
  BY <1>4, FS_Difference
<1>9. Cardinality(OpenAt(g)) \in Nat /\ Cardinality(OpenAt(g) \ own) \in Nat
  BY <1>4, <1>8, FS_CardinalityType
<1>10. Attached(c, g) = Cardinality(K)
  BY DEF Attached
<1> HIDE DEF K, own
<1>11. Cardinality(own) = Cardinality(K)
  BY <1>2, <1>3
<1>12. /\ IsFiniteSet(OpenAt(g)') /\ Cardinality(OpenAt(g)') \in Nat
       /\ Cardinality(OpenAt(g)') = Cardinality(OpenAt(g)) - Cardinality(K)
  BY <1>5, <1>7, <1>8, <1>9, <1>11
<1> QED
  BY <1>3, <1>9, <1>10, <1>12

LEMMA CountGone ==
  ASSUME IInv, IInv', CountInv, NEW c \in Clients, NEW s \in [Segments -> SegmentType], Gone(c, s),
         \A g \in Segments :
           /\ s[g].served = seg[g].served /\ s[g].early = seg[g].early
           /\ \/ s[g].clients = seg[g].clients - Attached(c, g) /\ s[g].lost = seg[g].lost
              \/ s[g].clients = seg[g].clients /\ s[g].lost = seg[g].lost + Attached(c, g)
  PROVE  CountInv'
<1> SUFFICES ASSUME NEW g \in Segments PROVE CountOk(g)'
  BY DEF CountInv
<1>1. open' = [open EXCEPT ![c] = NotOpen] /\ seg' = Freed(s)
  BY DEF Gone, Release, Set
<1>2. /\ IsFiniteSet(OpenAt(g)')
      /\ Cardinality(OpenAt(g)) = Cardinality(OpenAt(g)') + Attached(c, g)
      /\ Cardinality(OpenAt(g)) \in Nat /\ Cardinality(OpenAt(g)') \in Nat
      /\ Attached(c, g) \in Nat /\ seg[g] \in SegmentType /\ CountOk(g)
  BY <1>1, OwnAttachments, AttachedLemma, ClientTypes DEF CountInv
<1>3. CASE seg'[g] = Fresh
  BY <1>2, <1>3, FreshCounts, RecountedLemma DEF Recounted
<1>4. CASE seg'[g] = s[g] /\ ~seg[g].early
  <2>1. seg[g].clients = seg[g].lost + Cardinality(OpenAt(g))
    BY <1>2, <1>4 DEF CountOk
  <2>2. seg[g].lost \in Nat /\ seg[g].clients \in Int
    BY <1>2 DEF SegmentType
  <2>3. seg'[g].clients = seg'[g].lost + Cardinality(OpenAt(g)')
    BY <1>2, <1>4, <2>1, <2>2
  <2>4. ~seg[g].served => Attached(c, g) = 0 /\ seg[g].lost = 0
    <3>1. SUFFICES ASSUME ~seg[g].served PROVE OpenAt(g) = {}
      BY <1>2, <1>4, <2>2, FS_EmptySet DEF CountOk
    <3> QED
      BY <1>4, <3>1, Unattached DEF OpenAt
  <2>5. ~seg'[g].served => seg'[g].lost = 0
    BY <1>2, <1>4, <2>2, <2>4
  <2> QED
    BY <1>2, <2>3, <2>5 DEF CountOk
<1>5. CASE seg'[g] = s[g] /\ seg[g].early
  BY <1>2, <1>5 DEF CountOk
<1> QED
  BY <1>1, <1>3, <1>4, <1>5 DEF Freed

LEMMA CountCounts ==
  ASSUME IInv, IInv', AttachInv, CountInv, NEW c \in Clients, Count(c)
  PROVE  CountInv'
<1> SUFFICES ASSUME NEW g \in Segments PROVE CountOk(g)'
  BY DEF CountInv
<1>1. /\ cseg[c] \in Segments /\ cseg[c] # 0 /\ open[c][att[c]] = 0 /\ att[c] \in Handles
      /\ open \in [Clients -> [Handles -> 0..MaxSegments]]
      /\ open' = [open EXCEPT ![c][att[c]] = cseg[c]] /\ Touches(c, cseg[c])
  <2>1. cpc[c] = "count" /\ open' = [open EXCEPT ![c][att[c]] = cseg[c]]
    BY DEF Count
  <2>2. cseg[c] \in Segments /\ att[c] \in Handles
    BY <2>1, ClientParts DEF ScanOk
  <2>3. open[c][att[c]] = 0
    BY <2>1 DEF AttachInv, AttachOk
  <2> QED
    BY <2>1, <2>2, <2>3, ClientTypes DEF Segments, Touches
<1>2. /\ CountOk(g) /\ Cardinality(OpenAt(g)) \in Nat /\ seg[g] \in SegmentType
  BY FS_CardinalityType, ClientTypes DEF CountInv, CountOk
<1>3. \A a \in Clients \X Handles :
        open'[a[1]][a[2]] = IF a = <<c, att[c]>> THEN cseg[c] ELSE open[a[1]][a[2]]
  BY <1>1
<1>4. /\ \A f \in Segments \ {cseg[c]} : seg'[f] = seg[f]
      /\ seg'[cseg[c]].lost = seg[cseg[c]].lost /\ seg'[cseg[c]].served = seg[cseg[c]].served
      /\ seg[cseg[c]].early => seg'[cseg[c]].early
      /\ seg'[cseg[c]].clients = seg[cseg[c]].clients + 1
  BY <1>1, ClientInside
<1>5. CASE g # cseg[c]
  <2>1. OpenAt(g)' = OpenAt(g)
    <3>1. g # 0
      BY DEF Segments
    <3> QED
      BY <1>1, <1>3, <1>5, <3>1 DEF OpenAt
  <2> QED
    BY <1>2, <1>4, <1>5, <2>1 DEF CountOk
<1>6. CASE g = cseg[c]
  <2>1. OpenAt(g)' = OpenAt(g) \cup {<<c, att[c]>>} /\ <<c, att[c]>> \notin OpenAt(g)
    BY <1>1, <1>3, <1>6 DEF OpenAt
  <2>2. /\ IsFiniteSet(OpenAt(g)') /\ Cardinality(OpenAt(g)') = Cardinality(OpenAt(g)) + 1
    BY <1>2, <2>1, FS_AddElement DEF CountOk
  <2>3. seg[g].lost \in Nat /\ seg[g].clients \in Int
    BY <1>2 DEF SegmentType
  <2> QED
    BY <1>2, <1>4, <1>6, <2>2, <2>3 DEF CountOk
<1> QED
  BY <1>5, <1>6

LEMMA CountClient ==
  ASSUME IInv, IInv', AttachInv, CountInv, NEW c \in Clients, ClientSteps(c)
  PROVE  CountInv'
<1>1. CASE StartClient(c) \/ NotFound(c) \/ TooSmall(c) \/ Scan(c) \/ ReadHealth(c)
  <2>1. UNCHANGED <<seg, open>>
    BY <1>1 DEF StartClient, NotFound, TooSmall, Scan, ReadHealth
  <2> QED
    BY <2>1, CountSame DEF SameCount
<1>2. CASE Open(c) \/ Default(c) \/ EchoHealth(c)
  <2>1. UNCHANGED open /\ ~Count(c)
    BY <1>2 DEF Open, Default, EchoHealth, Count, cliVars
  <2>2. PICK g \in Segments : Touches(c, g)
    BY <1>2, TouchesLemma
  <2>3. \A f \in Segments : SameCount(f)
    BY <2>1, <2>2, ClientInside DEF SameCount
  <2> QED
    BY <2>1, <2>3, CountSame
<1>3. CASE LeaveClient(c)
  <2> DEFINE s == [g \in Segments |-> [seg[g] EXCEPT !.clients = seg[g].clients - Attached(c, g)]]
  <2>1. \A g \in Segments : seg[g] \in SegmentType /\ Attached(c, g) \in Nat
    BY ClientTypes, AttachedLemma
  <2>2. /\ s \in [Segments -> SegmentType]
        /\ \A g \in Segments :
           /\ s[g].served = seg[g].served /\ s[g].early = seg[g].early
           /\ s[g].clients = seg[g].clients - Attached(c, g) /\ s[g].lost = seg[g].lost
    BY <2>1 DEF SegmentType
  <2>3. Gone(c, s)
    BY <1>3 DEF LeaveClient
  <2> HIDE DEF s
  <2> QED
    BY <2>2, <2>3, CountGone
<1>4. CASE KillClient(c)
  <2> DEFINE s == [g \in Segments |-> [seg[g] EXCEPT !.lost = seg[g].lost + Attached(c, g)]]
  <2>1. \A g \in Segments : seg[g] \in SegmentType /\ Attached(c, g) \in Nat
    BY ClientTypes, AttachedLemma
  <2>2. /\ s \in [Segments -> SegmentType]
        /\ \A g \in Segments :
           /\ s[g].served = seg[g].served /\ s[g].early = seg[g].early
           /\ s[g].clients = seg[g].clients /\ s[g].lost = seg[g].lost + Attached(c, g)
    BY <2>1 DEF SegmentType
  <2>3. Gone(c, s)
    BY <1>4 DEF KillClient
  <2> HIDE DEF s
  <2> QED
    BY <2>2, <2>3, CountGone
<1> QED
  BY <1>1, <1>2, <1>3, <1>4, CountCounts DEF ClientSteps, Attaches, Cycles

LEMMA CountStep == IInv /\ IInv' /\ AttachInv /\ CountInv /\ [Next]_vars => CountInv'
<1>1. CountInv /\ UNCHANGED vars => CountInv'
  BY DEF CountInv, CountOk, OpenAt, vars, cliVars
<1> QED
  BY <1>1, CountManager, CountPage, CountClient DEF Next

(* connected_clients is exact for any number of clients that attach twice, give *)
(* up half-way, leave or are killed: it exceeds the attachments there are by    *)
(* those of killed clients and by nothing else, and no order of attachment and  *)
(* departure takes it below zero.                                              *)
THEOREM ClientsCounted == Spec => []CountExactUnlessEarly
<1> DEFINE Inv == IInv /\ AttachInv /\ CountInv
<1>1. Init => AttachInv
  <2>1. Init => \A c \in Clients : open[c][1] = 0 /\ open[c][2] = 0 /\ att[c] = 1 /\ healthy[c]
    BY DEF Init, NotOpen, Handles
  <2> QED
    BY <2>1 DEF Init, AttachInv, AttachOk
<1>2. Init => CountInv
  <2> SUFFICES ASSUME Init, NEW g \in Segments PROVE CountOk(g)
    BY DEF CountInv
  <2>1. seg[g].clients = 0 /\ seg[g].lost = 0
    BY FreshCounts DEF Init
  <2>2. \A c \in Clients, k \in Handles : open[c][k] = 0
    BY DEF Init, NotOpen
  <2>3. OpenAt(g) = {}
    BY <2>2 DEF OpenAt, Segments
  <2> QED
    BY <2>1, <2>3, FS_EmptySet DEF CountOk
<1>3. Inv /\ [Next]_vars => Inv'
  BY NextIInv, AttachStep, CountStep
<1>4. Inv => CountExactUnlessEarly
  BY DEF CountInv, CountOk, OpenAt, CountExactUnlessEarly
<1> QED
  BY <1>1, <1>2, <1>3, <1>4, InitIInv, PTL DEF Spec
=============================================================================
