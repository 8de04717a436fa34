------------------------------ MODULE HilRunner -------------------------------
(* The archived hardware-in-the-loop runners S1 to S6 over BaseRunner::Run: a  *)
(* runner replays a table of measurements into the shared memory every 100 ms, *)
(* reads what the external controller asks for every tenth step and simulates  *)
(* storage and inverters with it.  Powers are in 0.01 MW, the state of charge  *)
(* in millionths of a percent.  The three inverters get equal rows and equal   *)
(* targets: one stands for the three.  Controller and points belong to another *)
(* project; init_rt_db.c of this one does not register them.                   *)
EXTENDS Integers

CONSTANTS HilRows,      \* rows the table switches between: [pv, plan, irr, freq, comm]
          HilFirst,     \* its first row, a healthy one
          HilTargets,   \* what the controller asks for: [ess, pv, scene]
          HilSteps,     \* bound: length of the table
          HilChanges,   \* bound: how often the row changes in it
          HilStartSoc

\* The table of every runner begins with communication; its powers and
\* irradiances are not negative.
ASSUME HilAssumption ==
  /\ HilFirst.comm = 1 /\ HilFirst.pv \in Nat
  /\ \A row \in HilRows : row.pv \in Nat /\ row.irr \in Nat
  /\ \A t \in HilTargets : t.pv \in Int /\ t.ess \in Int
  /\ HilSteps \in Nat
  /\ HilStartSoc \in Nat /\ HilStartSoc <= 100000000

VARIABLES hilScene,     \* 1..6, which runner
          hilPc,        \* "start", "inject", "wait", "collect", "beat" or "done"
          hilStep, hilRow, hilChanged,
          hilPv, hilEss, hilSoc, hilBeats, hilFreeze,   \* the runner's members
          hilResult,    \* the latest row of results
          hilShm
hilPlant == <<hilPv, hilEss, hilSoc>>
hilTable == <<hilStep, hilRow, hilChanged>>
hilVars == <<hilScene, hilPc, hilTable, hilPlant, hilBeats, hilFreeze, hilResult,
             hilShm>>

HilClamp(x, lo, hi) == IF x < lo THEN lo ELSE IF x > hi THEN hi ELSE x
HilAbs(x) == IF x < 0 THEN -x ELSE x
HilMin(a, b) == IF a < b THEN a ELSE b
HilUnitMax == 4000
HilControls == hilStep % 10 = 0
HilNoResult == [pv |-> -1]

\* first_order_lag over one control period of 1 s: 1 - exp(-1/0.2) and
\* 1 - exp(-1/2) of the way.
HilEssLag(target) == hilEss + (993 * (target - hilEss)) \div 1000
HilPvLag(target) == hilPv + (393 * (target - hilPv)) \div 1000

\* OnPhysicsStep: a target above 0.01 MW counts, a smaller one frees the
\* inverter.  S2 scales the row by the irradiance and forgets the clamp.
HilPvAfter(row, target) ==
  LET theory == (row.pv * row.irr) \div 1000 IN
  IF hilScene = 2
  THEN HilPvLag(IF target > 1 THEN HilMin(target, theory) ELSE theory)
  ELSE HilClamp(HilPvLag(IF target > 1 THEN target ELSE row.pv), 0, HilUnitMax)
HilEssAfter(target) == HilClamp(HilEssLag(target), -1000, 1000)
\* Mutant: the state of charge is not clamped.
HilSocUnclamped(ess) == hilSoc - (ess * 1389) \div 100
\* The charge a control period takes out of the storage, or puts into it.
HilSocAfter(ess) == HilClamp(hilSoc - (ess * 1389) \div 100, 0, 100000000)

\* OnInjectTelemetry: S5 replaces the simulated inverters by the row's, S6
\* freezes the heartbeat of a table that has lost its communication.
HilInjectedPv(row) == IF hilScene = 5 THEN row.pv ELSE hilPv
\* Mutant: the hook looks at the row of the step before.
HilFrozenLate(row) == hilScene = 6 /\ hilRow.comm = 0
HilFrozen(row) == hilScene = 6 /\ row.comm = 0

\* Mutant: the result is taken before the plant is simulated.
HilMeasuredBefore(pv) == hilPv
\* The result row takes the inverters after the simulation.
HilMeasured(pv) == pv

\* ComputePFR and ComputeStatusCode of the six runners.
HilPfr(row) == IF hilScene = 4 THEN -60 * row.freq ELSE 0
HilStatus(active, pcc, row) ==
  LET off == HilAbs(pcc - row.plan) * 100
      limit == IF hilScene = 6 THEN 10 ELSE 5
  IN  IF hilScene # 4 /\ HilAbs(row.freq) > 5 THEN 1
      ELSE IF row.plan > 1 /\ off > limit * row.plan THEN 3
      ELSE IF active \notin {hilScene, IF hilScene = 6 THEN 1 ELSE hilScene} THEN 2
      ELSE 0

HilInit ==
  /\ hilScene \in 1..6
  /\ hilPc = "start" /\ hilStep = 0 /\ hilRow = HilFirst /\ hilChanged = 0
  /\ hilPv = 0 /\ hilEss = 0 /\ hilSoc = 60000000
  /\ hilBeats = 0 /\ hilFreeze = FALSE
  /\ hilResult = HilNoResult
  /\ hilShm = [pv |-> 0, ess |-> 0, pcc |-> 0, soc |-> 0, plan |-> 0, freq |-> 0,
               comm |-> 0, beat |-> 0, reset |-> 0,
               target |-> [ess |-> 300, pv |-> 2000, scene |-> 1]]

\* reset_shm_telemetry_baseline.  The reset counter is a static of the process:
\* every runner writes 1.
HilBaseline(pv) ==
  [hilShm EXCEPT !.pv = pv, !.ess = 0, !.pcc = 3 * pv, !.plan = 3 * pv,
                 !.comm = 1, !.beat = 1, !.reset = 1, !.target.ess = 0, !.target.pv = 0]

\* The start of Run: the baseline and the runner's first members.
HilStart ==
  LET pv == HilClamp(HilFirst.pv, 0, HilUnitMax) IN
  /\ hilPc = "start"
  /\ hilPc' = "inject"
  /\ hilPv' = pv /\ hilEss' = 0 /\ hilSoc' = HilStartSoc
  /\ hilShm' = HilBaseline(pv)
  /\ UNCHANGED <<hilScene, hilTable, hilBeats, hilFreeze, hilResult>>

HilInject(row) ==
  LET pv == HilInjectedPv(row) IN
  /\ hilPc = "inject" /\ hilStep < HilSteps
  /\ \/ row = hilRow /\ hilChanged' = hilChanged
     \/ row # hilRow /\ hilChanged < HilChanges /\ hilStep > 0
        /\ hilChanged' = hilChanged + 1
  /\ hilRow' = row
  /\ hilFreeze' = HilFrozen(row)
  /\ hilShm' = [hilShm EXCEPT !.pv = pv, !.ess = hilEss, !.pcc = 3 * pv + hilEss,
                              !.soc = hilSoc, !.plan = row.plan, !.freq = row.freq,
                              !.comm = row.comm]
  /\ hilPc' = IF HilControls THEN "wait" ELSE "beat"
  /\ UNCHANGED <<hilScene, hilStep, hilPlant, hilBeats, hilResult>>

\* The controller answers within the 200 ms the runner waits, or does not.
HilController(t) ==
  /\ hilPc = "wait"
  /\ hilPc' = "collect"
  /\ hilShm' = [hilShm EXCEPT !.target = t]
  /\ UNCHANGED <<hilScene, hilTable, hilPlant, hilBeats, hilFreeze, hilResult>>
HilSilence ==
  /\ hilPc = "wait"
  /\ hilPc' = "collect"
  /\ UNCHANGED <<hilScene, hilTable, hilPlant, hilBeats, hilFreeze, hilResult, hilShm>>

\* shm_read_double: after three refused tries its caller keeps the default.  The
\* inverters' three reads fail together.
HilReads == [ess : {hilShm.target.ess, 0}, pv : {hilShm.target.pv, 0},
             scene : {hilShm.target.scene, 1}]

HilCollect(read) ==
  LET pv == HilPvAfter(hilRow, read.pv)
      ess == HilEssAfter(read.ess)
      shown == HilMeasured(pv)
      pcc == 3 * shown + ess
  IN
  /\ hilPc = "collect"
  /\ hilPc' = "beat"
  /\ hilPv' = pv /\ hilEss' = ess /\ hilSoc' = HilSocAfter(ess)
  /\ hilResult' = [pv |-> shown, ess |-> ess, pcc |-> pcc, pfr |-> HilPfr(hilRow),
                   status |-> HilStatus(read.scene, pcc, hilRow)]
  /\ UNCHANGED <<hilScene, hilTable, hilBeats, hilFreeze, hilShm>>

\* The end of a step: every fifth one writes the heartbeat.
HilBeat ==
  /\ hilPc = "beat"
  /\ hilPc' = "inject"
  /\ hilStep' = hilStep + 1
  /\ IF hilStep % 5 = 0
     THEN /\ hilBeats' = IF hilFreeze THEN hilBeats ELSE hilBeats + 1
          /\ hilShm' = [hilShm EXCEPT !.beat = hilBeats']
     ELSE UNCHANGED <<hilBeats, hilShm>>
  /\ UNCHANGED <<hilScene, hilRow, hilChanged, hilPlant, hilFreeze, hilResult>>

HilEnd ==
  /\ hilPc = "inject" /\ hilStep = HilSteps
  /\ hilPc' = "done"
  /\ UNCHANGED <<hilScene, hilTable, hilPlant, hilBeats, hilFreeze, hilResult, hilShm>>

HilNext ==
  \/ HilStart \/ (\E row \in HilRows : HilInject(row))
  \/ (\E t \in HilTargets : HilController(t)) \/ HilSilence
  \/ (\E read \in HilReads : HilCollect(read)) \/ HilBeat \/ HilEnd
HilSpec == HilInit /\ [][HilNext]_hilVars

-----------------------------------------------------------------------------
\* S2 has lost the clamp of the inverters: only its own may pass the rating.
HilTypeOK ==
  /\ hilPc \in {"start", "inject", "wait", "collect", "beat", "done"}
  /\ hilStep \in 0..HilSteps
  /\ hilBeats \in 0..hilStep
  /\ hilPv \in Nat /\ (hilScene # 2 => hilPv <= HilUnitMax)
  /\ hilEss \in -1000..1000
  /\ hilSoc \in Nat /\ hilSoc <= 100000000

\* While the shared memory of an S6 run says that the communication is lost,
\* its heartbeat stands still, wherever in the five steps of a beat the outage
\* begins or ends (S6Runner::OnInjectTelemetry over BaseRunner::Run, lines 644-648).
HilSilentInOutage ==
  [][hilScene = 6 /\ hilPc # "start" /\ hilShm.comm = 0 /\ hilShm'.comm = 0
       => hilShm'.beat = hilShm.beat]_hilVars

\* A result row and the shared memory tell the same story: what a control step
\* recorded is what the next step injects, although the plant moves in between
\* the two (BaseRunner::Run, lines 503-597).  S5 injects its table instead.
HilResultIsInjected ==
  [][hilPc = "inject" /\ hilScene # 5 /\ hilResult # HilNoResult
       => hilShm'.pv = hilResult.pv \/ hilPc' = "done"]_hilVars
=============================================================================
