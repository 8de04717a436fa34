--------------------------- MODULE HilRunner_proofs ---------------------------
(***************************************************************************)
(* Proofs about HilRunner: for every table that begins with communication, *)
(* whatever the controller asks for and however late it answers, the       *)
(* heartbeat is silent in an outage, results agree with the injections and *)
(* the simulated plant keeps its ranges.                                   *)
(***************************************************************************)
EXTENDS HilRunner, TLAPS

TelemetryPoints == {"pv", "ess", "pcc", "soc", "plan", "freq", "comm", "beat",
                    "reset", "target"}

(* The baseline writes a beat of 1 before the first one is counted, so      *)
(* counter and point agree only after the first step, and during that step  *)
(* the row is the first one.  From the injection to the beat an S6 runner   *)
(* that shows an outage is frozen.                                          *)
BeatInv ==
  /\ hilStep = 0 => hilRow = HilFirst
  /\ hilPc # "start" => hilShm.beat = hilBeats \/ (hilStep = 0 /\ hilShm.comm = 1)
  /\ hilPc \in {"wait", "collect", "beat"} /\ hilScene = 6 /\ hilShm.comm = 0 => hilFreeze

(* The runner's inverters are where the last control step left them.        *)
ResultInv == hilResult # HilNoResult => hilResult.pv = hilPv

HilInv ==
  /\ hilStep \in Nat /\ DOMAIN hilShm = TelemetryPoints
  /\ hilPc = "start" => hilStep = 0 /\ hilResult = HilNoResult
  /\ BeatInv /\ ResultInv

LEMMA HilInitInv == HilInit => HilInv
BY DEF HilInit, HilInv, BeatInv, ResultInv, TelemetryPoints

(* No step but the injection changes what is shown of the communication,    *)
(* and none but baseline and beat the heartbeat.                            *)
LEMMA HilInvKept ==
  ASSUME HilInv, [HilNext]_hilVars
  PROVE  HilInv'
<1> USE DEF HilInv
<1>1. CASE UNCHANGED hilVars
  BY <1>1 DEF hilVars, hilTable, hilPlant, BeatInv, ResultInv
<1>2. CASE HilStart
  <2>1. DOMAIN hilShm' = TelemetryPoints /\ hilShm'.comm = 1
    BY <1>2 DEF HilStart, HilBaseline, TelemetryPoints
  <2> QED
    BY <1>2, <2>1 DEF HilStart, hilTable, BeatInv, ResultInv
<1>3. ASSUME NEW row \in HilRows, HilInject(row) PROVE HilInv'
  <2>1. DOMAIN hilShm' = TelemetryPoints /\ hilShm'.comm = row.comm /\ hilShm'.beat = hilShm.beat
    BY <1>3 DEF HilInject, TelemetryPoints
  <2>2. hilStep = 0 => row = HilFirst
    BY <1>3 DEF HilInject, BeatInv
  <2>3. hilScene = 6 /\ row.comm = 0 => hilFreeze'
    BY <1>3 DEF HilInject, HilFrozen
  <2>4. /\ hilPc' \in {"wait", "beat"} /\ hilPc = "inject" /\ hilRow' = row
        /\ UNCHANGED <<hilScene, hilStep, hilPlant, hilBeats, hilResult>>
    BY <1>3 DEF HilInject
  <2>5. BeatInv'
    BY <2>1, <2>2, <2>3, <2>4, HilAssumption DEF BeatInv
  <2> QED
    BY <2>1, <2>4, <2>5 DEF ResultInv, hilPlant
<1>4. ASSUME NEW t \in HilTargets, HilController(t) PROVE HilInv'
  <2>1. DOMAIN hilShm' = TelemetryPoints /\ hilShm'.comm = hilShm.comm /\ hilShm'.beat = hilShm.beat
    BY <1>4 DEF HilController, TelemetryPoints
  <2> QED
    BY <1>4, <2>1 DEF HilController, hilTable, hilPlant, BeatInv, ResultInv
<1>5. CASE HilSilence
  BY <1>5 DEF HilSilence, hilTable, hilPlant, BeatInv, ResultInv
<1>6. ASSUME NEW read \in HilReads, HilCollect(read) PROVE HilInv'
  BY <1>6 DEF HilCollect, hilTable, BeatInv, ResultInv, HilMeasured
<1>7. CASE HilBeat
  <2>1. DOMAIN hilShm' = TelemetryPoints /\ hilShm'.comm = hilShm.comm
    BY <1>7 DEF HilBeat, TelemetryPoints
  <2>2. hilShm'.beat = hilBeats'
    BY <1>7 DEF HilBeat, TelemetryPoints, BeatInv
  <2> QED
    BY <1>7, <2>1, <2>2 DEF HilBeat, hilPlant, BeatInv, ResultInv
<1>8. CASE HilEnd
  BY <1>8 DEF HilEnd, hilTable, hilPlant, BeatInv, ResultInv
<1> QED
  BY <1>1, <1>2, <1>3, <1>4, <1>5, <1>6, <1>7, <1>8 DEF HilNext

(* The heartbeat of an S6 run does not move while the shared memory shows   *)
(* that communication is lost.                                              *)
THEOREM HilSilence6 == HilSpec => HilSilentInOutage
<1>1. ASSUME HilInv, [HilNext]_hilVars
      PROVE  [hilScene = 6 /\ hilPc # "start" /\ hilShm.comm = 0 /\ hilShm'.comm = 0
                => hilShm'.beat = hilShm.beat]_hilVars
  <2> SUFFICES ASSUME hilScene = 6, hilPc # "start", hilShm.comm = 0, HilNext
               PROVE  hilShm'.beat = hilShm.beat
    BY <1>1
  <2>1. CASE HilBeat
    BY <1>1, <2>1 DEF HilBeat, HilInv, BeatInv, TelemetryPoints
  <2>2. CASE ~ HilBeat
    BY <1>1, <2>2 DEF HilNext, HilStart, HilInject, HilController, HilSilence,
                      HilCollect, HilEnd, HilInv, TelemetryPoints
  <2> QED
    BY <2>1, <2>2
<1>2. HilInv /\ [HilNext]_hilVars => HilInv'
  BY HilInvKept
<1> QED
  BY <1>1, <1>2, HilInitInv, PTL DEF HilSpec, HilSilentInOutage

(* What a control step recorded is what the next step injects.              *)
THEOREM HilResultsTrue == HilSpec => HilResultIsInjected
<1>1. ASSUME HilInv, [HilNext]_hilVars
      PROVE  [hilPc = "inject" /\ hilScene # 5 /\ hilResult # HilNoResult
                => hilShm'.pv = hilResult.pv \/ hilPc' = "done"]_hilVars
  <2> SUFFICES ASSUME hilPc = "inject", hilScene # 5, hilResult # HilNoResult, HilNext
               PROVE  hilShm'.pv = hilResult.pv \/ hilPc' = "done"
    BY <1>1
  <2>1. ASSUME NEW row \in HilRows, HilInject(row) PROVE hilShm'.pv = hilResult.pv
    BY <1>1, <2>1 DEF HilInject, HilInjectedPv, HilInv, ResultInv, TelemetryPoints
  <2> QED
    BY <2>1 DEF HilNext, HilStart, HilController, HilSilence, HilCollect, HilBeat, HilEnd
<1>2. HilInv /\ [HilNext]_hilVars => HilInv'
  BY HilInvKept
<1> QED
  BY <1>1, <1>2, HilInitInv, PTL DEF HilSpec, HilResultIsInjected

(* The ranges of the plant, the count of the beats and what the controller  *)
(* asked for last.                                                          *)
HilRanges ==
  /\ hilPc \in {"start", "inject", "wait", "collect", "beat", "done"}
  /\ hilStep \in Nat /\ hilStep <= HilSteps
  /\ hilPc \in {"wait", "collect", "beat"} => hilStep < HilSteps
  /\ hilBeats \in Nat /\ hilBeats <= hilStep
  /\ hilPv \in Nat /\ (hilScene # 2 => hilPv <= HilUnitMax)
  /\ hilEss \in Int /\ -1000 <= hilEss /\ hilEss <= 1000
  /\ hilSoc \in Nat /\ hilSoc <= 100000000
  /\ hilShm.target.pv \in Int /\ hilShm.target.ess \in Int
  /\ hilPc \in {"wait", "collect", "beat"} => hilRow.pv \in Nat /\ hilRow.irr \in Nat

LEMMA HilClampLemma ==
  ASSUME NEW x \in Int, NEW lo \in Int, NEW hi \in Int, lo <= hi
  PROVE  HilClamp(x, lo, hi) \in Int /\ lo <= HilClamp(x, lo, hi) /\ HilClamp(x, lo, hi) <= hi
BY SMT DEF HilClamp

(* Between two powers that are not negative the lag stays there.            *)
LEMMA HilLagLemma ==
  ASSUME NEW pv \in Nat, NEW wanted \in Int
  PROVE  /\ pv + (393 * (wanted - pv)) \div 1000 \in Int
         /\ 0 <= wanted => 0 <= pv + (393 * (wanted - pv)) \div 1000
BY SMT

LEMMA HilPvLemma ==
  ASSUME HilRanges, NEW row, row.pv \in Nat, row.irr \in Nat, NEW target \in Int
  PROVE  /\ HilPvAfter(row, target) \in Nat
         /\ hilScene # 2 => HilPvAfter(row, target) <= HilUnitMax
<1>1. hilPv \in Nat
  BY DEF HilRanges
<1> DEFINE theory == (row.pv * row.irr) \div 1000
<1>2. theory \in Nat
  <2>1. row.pv * row.irr \in Nat
    BY SMT
  <2> DEFINE light == row.pv * row.irr
  <2> HIDE DEF light
  <2>2. light \div 1000 \in Nat
    <3>1. light \in Nat
      BY <2>1 DEF light
    <3> QED
      BY <3>1, SMT
  <2> QED
    BY <2>2 DEF light
<1> HIDE DEF theory
<1>3. CASE hilScene = 2
  <2> DEFINE wanted == IF target > 1 THEN HilMin(target, theory) ELSE theory
  <2>1. wanted \in Int /\ 0 <= wanted
    BY <1>2, SMT DEF HilMin
  <2>2. HilPvAfter(row, target) = hilPv + (393 * (wanted - hilPv)) \div 1000
    BY <1>3, Zenon DEF HilPvAfter, HilPvLag, theory
  <2> HIDE DEF wanted
  <2> DEFINE moved == hilPv + (393 * (wanted - hilPv)) \div 1000
  <2>3. moved \in Int /\ 0 <= moved
    BY <1>1, <2>1, HilLagLemma
  <2> HIDE DEF moved
  <2>4. moved \in Nat
    BY <2>3, SMT
  <2> QED
    BY <1>3, <2>2, <2>4 DEF moved
<1>4. CASE hilScene # 2
  <2> DEFINE wanted == IF target > 1 THEN target ELSE row.pv
             moved == hilPv + (393 * (wanted - hilPv)) \div 1000
  <2>1. wanted \in Int
    OBVIOUS
  <2>2. HilPvAfter(row, target) = HilClamp(moved, 0, HilUnitMax)
    BY <1>4, Zenon DEF HilPvAfter, HilPvLag
  <2> HIDE DEF wanted
  <2>3. moved \in Int
    BY <1>1, <2>1, HilLagLemma
  <2> HIDE DEF moved
  <2>4. HilUnitMax \in Int /\ 0 <= HilUnitMax
    BY SMT DEF HilUnitMax
  <2>5. /\ HilClamp(moved, 0, HilUnitMax) \in Int /\ 0 <= HilClamp(moved, 0, HilUnitMax)
        /\ HilClamp(moved, 0, HilUnitMax) <= HilUnitMax
    BY <2>3, <2>4, SMT DEF HilClamp
  <2> QED
    BY <2>2, <2>4, <2>5, SMT
<1> QED
  BY <1>3, <1>4

LEMMA HilEssLemma ==
  ASSUME HilRanges, NEW target \in Int
  PROVE  HilEssAfter(target) \in Int /\ -1000 <= HilEssAfter(target) /\ HilEssAfter(target) <= 1000
<1> DEFINE moved == hilEss + (993 * (target - hilEss)) \div 1000
<1>1. moved \in Int
  BY SMT DEF HilRanges
<1>2. HilEssAfter(target) = HilClamp(moved, -1000, 1000)
  BY Zenon DEF HilEssAfter, HilEssLag
<1> HIDE DEF moved
<1>3. /\ HilClamp(moved, -1000, 1000) \in Int
      /\ -1000 <= HilClamp(moved, -1000, 1000) /\ HilClamp(moved, -1000, 1000) <= 1000
  BY <1>1, SMT DEF HilClamp
<1> QED
  BY <1>2, <1>3, SMT

LEMMA HilSocLemma ==
  ASSUME HilRanges, NEW ess \in Int
  PROVE  HilSocAfter(ess) \in Nat /\ HilSocAfter(ess) <= 100000000
<1> DEFINE left == hilSoc - (ess * 1389) \div 100
<1>1. left \in Int
  BY SMT DEF HilRanges
<1>2. HilSocAfter(ess) = HilClamp(left, 0, 100000000)
  BY SMT DEF HilSocAfter
<1> HIDE DEF left
<1> QED
  BY <1>1, <1>2, SMT DEF HilClamp

LEMMA HilRangesInit == HilInit => HilRanges
<1> SUFFICES ASSUME HilInit PROVE HilRanges
  OBVIOUS
<1>1. hilShm.target.pv \in Int /\ hilShm.target.ess \in Int
  BY DEF HilInit
<1> QED
  BY <1>1, HilAssumption, SMT DEF HilInit, HilRanges, HilUnitMax

LEMMA HilRangesKept ==
  ASSUME HilInv, HilRanges, [HilNext]_hilVars
  PROVE  HilRanges'
<1>1. CASE UNCHANGED hilVars
  BY <1>1 DEF hilVars, hilTable, hilPlant, HilRanges
<1>2. CASE HilStart
  <2> DEFINE pv == HilClamp(HilFirst.pv, 0, HilUnitMax)
  <2>1. pv \in Nat /\ pv <= HilUnitMax
    BY HilAssumption, SMT DEF HilClamp, HilUnitMax
  <2>2. /\ hilPc = "start" /\ hilPc' = "inject" /\ hilPv' = pv /\ hilEss' = 0 /\ hilSoc' = HilStartSoc
        /\ hilStep' = hilStep /\ hilScene' = hilScene /\ hilBeats' = hilBeats
        /\ hilShm' = HilBaseline(pv)
    BY <1>2, Zenon DEF HilStart, hilTable
  <2> HIDE DEF pv
  <2>3. hilShm'.target = [hilShm.target EXCEPT !.ess = 0, !.pv = 0]
    BY <2>2 DEF HilBaseline, HilInv, TelemetryPoints
  <2>4. hilShm'.target.pv \in Int /\ hilShm'.target.ess \in Int
    BY <2>3
  <2> QED
    BY <2>1, <2>2, <2>4, HilAssumption, SMT DEF HilRanges
<1>3. ASSUME NEW row \in HilRows, HilInject(row) PROVE HilRanges'
  <2>1. hilShm'.target = hilShm.target
    BY <1>3 DEF HilInject, HilInv, TelemetryPoints
  <2>2. /\ hilPc = "inject" /\ hilStep < HilSteps /\ hilPc' \in {"wait", "beat"} /\ hilRow' = row
        /\ hilStep' = hilStep /\ hilScene' = hilScene /\ hilBeats' = hilBeats
        /\ hilPv' = hilPv /\ hilEss' = hilEss /\ hilSoc' = hilSoc
    BY <1>3 DEF HilInject, hilPlant
  <2>3. row.pv \in Nat /\ row.irr \in Nat
    BY HilAssumption
  <2> QED
    BY <2>1, <2>2, <2>3 DEF HilRanges
<1>4. ASSUME NEW t \in HilTargets, HilController(t) PROVE HilRanges'
  <2>1. hilShm'.target = t
    BY <1>4 DEF HilController, HilInv, TelemetryPoints
  <2>2. t.pv \in Int /\ t.ess \in Int
    BY HilAssumption
  <2> QED
    BY <1>4, <2>1, <2>2 DEF HilController, hilTable, hilPlant, HilRanges
<1>5. CASE HilSilence
  BY <1>5 DEF HilSilence, hilTable, hilPlant, HilRanges
<1>6. ASSUME NEW read \in HilReads, HilCollect(read) PROVE HilRanges'
  <2> DEFINE pv == HilPvAfter(hilRow, read.pv)
             ess == HilEssAfter(read.ess)
  <2>1. /\ hilPc = "collect" /\ hilPc' = "beat" /\ hilPv' = pv /\ hilEss' = ess /\ hilSoc' = HilSocAfter(ess)
        /\ hilScene' = hilScene /\ hilBeats' = hilBeats /\ hilShm' = hilShm
        /\ hilStep' = hilStep /\ hilRow' = hilRow
    BY <1>6, Zenon DEF HilCollect, hilTable
  <2>2. /\ read.pv \in Int /\ read.ess \in Int
        /\ hilRow.pv \in Nat /\ hilRow.irr \in Nat
    BY <2>1 DEF HilRanges, HilReads
  <2>3. pv \in Nat /\ (hilScene # 2 => pv <= HilUnitMax)
    BY <2>2, HilPvLemma
  <2>4. ess \in Int /\ -1000 <= ess /\ ess <= 1000
    BY <2>2, HilEssLemma
  <2> HIDE DEF pv, ess
  <2>5. HilSocAfter(ess) \in Nat /\ HilSocAfter(ess) <= 100000000
    BY <2>4, HilSocLemma
  <2> QED
    BY <2>1, <2>3, <2>4, <2>5 DEF HilRanges
<1>7. CASE HilBeat
  <2>1. hilShm'.target = hilShm.target
    BY <1>7 DEF HilBeat, HilInv, TelemetryPoints
  <2>2. /\ hilPc = "beat" /\ hilPc' = "inject" /\ hilStep' = hilStep + 1
        /\ hilBeats' = hilBeats \/ hilBeats' = hilBeats + 1
        /\ hilScene' = hilScene /\ hilPv' = hilPv /\ hilEss' = hilEss /\ hilSoc' = hilSoc
    BY <1>7 DEF HilBeat, hilPlant
  <2> QED
    BY <2>1, <2>2, HilAssumption, SMT DEF HilRanges
<1>8. CASE HilEnd
  BY <1>8 DEF HilEnd, hilTable, hilPlant, HilRanges
<1> QED
  BY <1>1, <1>2, <1>3, <1>4, <1>5, <1>6, <1>7, <1>8 DEF HilNext

(* The simulated plant keeps its ranges whatever the table and the          *)
(* controller ask for: the battery stays between empty and full, and the    *)
(* inverters of every runner but S2 within their rating.                    *)
THEOREM HilTypeCorrect == HilSpec => []HilTypeOK
<1>1. HilRanges => HilTypeOK
  <2> SUFFICES ASSUME HilRanges PROVE HilTypeOK
    OBVIOUS
  <2>1. hilStep \in 0..HilSteps /\ hilBeats \in 0..hilStep /\ hilEss \in -1000..1000
    BY HilAssumption, SMT DEF HilRanges
  <2> QED
    BY <2>1 DEF HilRanges, HilTypeOK
<1>2. HilInv /\ HilRanges /\ [HilNext]_hilVars => HilInv' /\ HilRanges'
  BY HilInvKept, HilRangesKept
<1> QED
  BY <1>1, <1>2, HilInitInv, HilRangesInit, PTL DEF HilSpec
===============================================================================
