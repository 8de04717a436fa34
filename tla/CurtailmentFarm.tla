--------------------------- MODULE CurtailmentFarm ---------------------------
(* The archived program of scene 5: WindFarmAgc::step and the modules it      *)
(* calls, driven every second by the simulated farm of ten turbines and the   *)
(* script of test_main.cpp.  Powers are in kW, the safety index in permille,  *)
(* temperatures and hours in tenths.  A draw is what the generators of        *)
(* mock_turbine.cpp give the farm in a step: the noise of every turbine's     *)
(* power in permille and of its temperatures, and the orders that the indices *)
(* M and P and the fatigue put the turbines in.  Vibration and sway are left  *)
(* out: with the thresholds of test_main.cpp the gearbox is always worse.     *)
EXTENDS Integers, Sequences

CONSTANTS CfDraws,      \* [noise, heat : one of each per turbine, a heat being
                        \*  [gear, pitch]; order, stops : the turbines, best first]
          CfHold        \* the steps a draw is held for

CfN == 10               \* MockFarm::kNumTurbines
CfDt == 1               \* dt of main
CfTurbines == 1..CfN
CfMin(a, b) == IF a < b THEN a ELSE b
CfMax(a, b) == IF a < b THEN b ELSE a
CfClamp(x, lo, hi) == CfMin(CfMax(x, lo), hi)
\* The array of turbines that i |-> f[i] stands for.
CfArray(f) == SubSeq(f, 1, CfN)
CfSum(f) == LET s[n \in 0..CfN] == IF n = 0 THEN 0 ELSE s[n - 1] + f[n] IN s[CfN]

\* setWindForAll: 10 + 2 sin(2 pi t / 120) m/s, in mm/s; the quarters of the wave.
CfQuarter ==
  <<0, 105, 209, 313, 416, 518, 618, 717, 813, 908, 1000, 1089, 1176, 1259, 1338, 1414,
    1486, 1554, 1618, 1677, 1732, 1782, 1827, 1867, 1902, 1932, 1956, 1975, 1989, 1997,
    2000>>
CfWave(x) == CASE x \in 0..30 -> CfQuarter[x + 1]
               [] x \in 31..60 -> CfQuarter[61 - x]
               [] x \in 61..90 -> - CfQuarter[x - 59]
               [] x \in 91..119 -> - CfQuarter[121 - x]
\* calcAvailablePower in the wind of turbine i, 0.1 m/s above the one before.
CfCurve(time, i) ==
  CfMin(2000, (2 * (10000 + CfWave(time % 120) + 100 * (i - 1) - 3000)) \div 9)
CfAvailable(time, i, noise) == CfMax(0, (CfCurve(time, i) * (1000 + noise)) \div 1000)

\* No noise is larger than six times its deviation of 2 %, and the noises of the
\* ten turbines, whose sum has a deviation of 0.64 %, take no more than 3.5 % of
\* the farm's power (the program's own seeds take 1.9 %).
CfBounded(d) ==
  \A i \in CfTurbines : d.noise[i] \in -120..120 /\ d.heat[i] \in [gear : Int, pitch : Int]
CfSteady(d) ==
  \A time \in 0..119 :
    1000 * CfSum([i \in CfTurbines |-> CfAvailable(time, i, d.noise[i])])
      >= 965 * CfSum([i \in CfTurbines |-> CfCurve(time, i)])
ASSUME CfAssumption ==
  CfHold \in Nat \ {0} /\ \A d \in CfDraws : CfBounded(d) /\ CfSteady(d)

VARIABLES cfTime,       \* t of the main loop
          cfDraw,       \* the draw of this step
          cfT,          \* farm_.turbines
          cfPower,      \* the simulated power of each turbine
          cfMode,       \* farm_.mode
          cfTimer,      \* healthy_duration_sec_, one for the whole farm
          cfOut         \* total_available, total_cmd, the reserves, total_actual
cfVars == <<cfTime, cfDraw, cfT, cfPower, cfMode, cfTimer, cfOut>>

\* The script of test_main.cpp.
CfScript(time) ==
  CASE time < 30 -> [target |-> 18000, hours |-> 10, reserve |-> 0]
    [] time \in 30..59 -> [target |-> 14000, hours |-> 10, reserve |-> 0]
    [] time \in 60..119 -> [target |-> 8000, hours |-> 30, reserve |-> 0]
    [] time \in 120..179 -> [target |-> 11000, hours |-> 30, reserve |-> 15000]
    [] time \in 180..249 -> [target |-> 8000, hours |-> 30, reserve |-> 0]
    [] OTHER -> [target |-> 18000, hours |-> 10, reserve |-> 0]
\* setTurbineS: turbine 5 wears from 180 s on, in permille.
CfHealth(time, i) ==
  CASE i = 5 /\ time \in 180..210 -> 1000 - (70 * (time - 180)) \div 3
    [] i = 5 /\ time > 210 -> 300
    [] OTHER -> 1000

\* computeS: the worst of the gearbox bearing (safe 80, trip 95 degrees; the
\* generator's winding has the same) and the pitch motor (safe 60, trip 70).
CfMargin(temp, safe, trip) ==
  1000 - CfClamp(((temp - safe) * 1000) \div (trip - safe), 0, 1000)
ComputeS(u) == CfMin(CfMargin(u.heat.gear, 800, 950), CfMargin(u.heat.pitch, 600, 700))

Restrictions == {"shadow", "restricted"}
Driven == {"normal"} \cup Restrictions

\* TurbineStateMachine::update: the timer after the call ...
TimerAfter(state, S, timer) ==
  IF state \in Restrictions /\ S > 600 /\ timer + CfDt < 60 THEN timer + CfDt ELSE 0
\* ... and the state it returns.
StateAfter(state, S, timer) ==
  CASE state = "normal" /\ S < 500 -> "shadow"
    [] state = "shadow" /\ S < 200 -> "restricted"
    [] state \in Restrictions /\ S > 600 /\ timer + CfDt >= 60 -> "normal"
    [] OTHER -> state

\* The timers before each turbine's update: one object serves them in turn.
TimersIn(t) ==
  LET timer[i \in 1..(CfN + 1)] ==
        IF i = 1 THEN cfTimer
        ELSE TimerAfter(t[i - 1].state, ComputeS(t[i - 1]), timer[i - 1])
  IN  timer
Assessed(t) ==
  CfArray([i \in CfTurbines |->
    [t[i] EXCEPT !.state = StateAfter(@, ComputeS(t[i]), TimersIn(t)[i])]])

CfTotalAvailable(t) == CfSum([i \in CfTurbines |-> t[i].avail])
\* R_curtail times the available power, which R_curtail is only used with.
Curtailed(t, target) == CfMax(0, CfTotalAvailable(t) - target)

\* Mutant: the mode is left at the thresholds at which it is entered.
ModeWithoutHysteresis(mode, curtailed, available, hours) ==
  IF 10 * curtailed > 4 * available /\ hours > 20 THEN "deep" ELSE "tracking"
\* ModeSelector::update
SelectedMode(mode, curtailed, available, hours) ==
  IF mode = "deep"
  THEN IF curtailed = 0 \/ 10 * curtailed < 3 * available \/ hours < 15
       THEN "tracking" ELSE "deep"
  ELSE IF 10 * curtailed > 4 * available /\ hours > 20 THEN "deep" ELSE "tracking"

\* scheduleStarts without a limit: every turbine in standby starts.
Started(t) ==
  CfArray([i \in CfTurbines |->
    IF t[i].state = "standby"
    THEN [t[i] EXCEPT !.state = "normal", !.role = "base", !.sp = t[i].min]
    ELSE t[i]])

\* Classifier::classify: outside deep curtailment the first turbines in the
\* order regulate, until they can raise a fifth of what is available.
Raisable(t, i) == CfMax(0, t[i].avail - t[i].min)
Regulating(t) ==
  LET candidates == SelectSeq(cfDraw.order, LAMBDA i : t[i].state = "normal")
      available == CfSum([i \in CfTurbines |->
                           IF t[i].state = "normal" THEN t[i].avail ELSE 0])
      raised[k \in 0..Len(candidates)] ==
        IF k = 0 THEN 0 ELSE raised[k - 1] + Raisable(t, candidates[k])
  IN  {candidates[k] : k \in {j \in 1..Len(candidates) :
                               j = 1 \/ raised[j - 1] * 5 < available}}
Classified(t, mode) ==
  CfArray([i \in CfTurbines |->
    CASE mode = "deep" /\ t[i].state # "standby" -> [t[i] EXCEPT !.role = "base"]
      [] mode = "tracking" /\ t[i].state = "normal" ->
           [t[i] EXCEPT !.role = IF i \in Regulating(t) THEN "regulating" ELSE "base"]
      [] OTHER -> t[i]])

\* scheduleStops: turbines stop in their order until the capacity that the
\* others cannot give up is gone; their raw target stays what it was.
StopCapacity(t, curtailed) ==
  curtailed
  - CfSum([i \in CfTurbines |-> IF t[i].state = "standby" THEN 0
                                ELSE CfMax(0, (t[i].avail * 9) \div 10 - t[i].min)])
Stopped(t, capacity) ==
  LET next == cfDraw.stops
      gone[k \in 0..CfN] ==
        IF k = 0 THEN 0
        ELSE gone[k - 1] + (IF t[next[k]].state = "normal" THEN t[next[k]].avail ELSE 0)
      stop == {next[k] : k \in {j \in CfTurbines : /\ t[next[j]].state = "normal"
                                                  /\ gone[j - 1] < capacity}}
  IN  CfArray([i \in CfTurbines |->
        IF i \in stop
        THEN [t[i] EXCEPT !.state = "standby", !.role = "standby", !.sp = 0]
        ELSE t[i]])

SafePower(u) == u.min + ((u.avail - u.min) * ComputeS(u)) \div 1000

\* ReserveMonitor::compute
ReserveUp(u) == CASE u.state = "normal" -> u.avail - u.sp
                  [] u.state = "shadow" -> SafePower(u) - u.sp
                  [] u.state = "restricted" -> 0
                  [] u.state = "standby" -> 1900
ReserveDown(u) == IF u.state = "standby" THEN 0 ELSE u.sp - u.min

\* CapacityEvaluator::evaluate and CommandChecker::checkAndClamp
MaxCapacity(u) == CASE u.state = "normal" -> u.avail
                    [] u.state \in Restrictions -> SafePower(u)
                    [] u.state = "standby" -> 0
MinCapacity(u) == CASE u.state \in {"normal", "shadow"} -> u.min
                    [] u.state = "restricted" -> SafePower(u)
                    [] u.state = "standby" -> 0
CheckedCommand(t, target) ==
  LET most == CfSum([i \in CfTurbines |-> MaxCapacity(t[i])])
      least == CfSum([i \in CfTurbines |-> MinCapacity(t[i])])
  IN  IF target > most THEN most ELSE IF target < least THEN least ELSE target

\* Distributor::distribute in deep curtailment: the running turbines share the
\* target in proportion to the power at which they are efficient.
DistributedDeep(t, target) ==
  LET running == {i \in CfTurbines : t[i].state # "standby"}
      Over(f) == CfSum([i \in CfTurbines |-> IF i \in running THEN f[i] ELSE 0])
      efficient == [i \in CfTurbines |-> (t[i].avail * 9) \div 10]
      wanted == CfMax(target, Over([i \in CfTurbines |-> t[i].min]))
      share == [i \in CfTurbines |->
                 IF wanted < Over(efficient)
                 THEN CfMax((efficient[i] * wanted) \div Over(efficient), t[i].min)
                 ELSE efficient[i]]
  IN  CfArray([i \in CfTurbines |->
        IF i \in running THEN [t[i] EXCEPT !.raw = share[i], !.sp = share[i]]
        ELSE t[i]])

\* Distributor::distribute otherwise.  Classifier::classify leaves a regulating
\* turbine whenever one is normal, so none is ever borrowed.
DistributedTracking(t, target) ==
  LET regs == {i \in CfTurbines : t[i].state = "normal" /\ t[i].role = "regulating"}
      fixed == CfArray([i \in CfTurbines |->
                 CASE t[i].state = "restricted" -> SafePower(t[i])
                   [] t[i].state = "shadow" -> t[i].actual
                   [] t[i].state = "normal" /\ i \notin regs ->
                        CfMax((t[i].avail * 19) \div 20, t[i].min)
                   [] OTHER -> 0])
      weight == CfArray([i \in CfTurbines |->
                  IF i \in regs THEN CfMax(10, t[i].avail - t[i].min) ELSE 0])
      remaining == target - CfSum(fixed)
      given == [i \in CfTurbines |->
                 IF i \in regs
                 THEN CfMin(CfMax(t[i].min + (remaining * weight[i]) \div CfSum(weight),
                                  t[i].min), t[i].avail)
                 ELSE fixed[i]]
  IN  CfArray([i \in CfTurbines |-> [t[i] EXCEPT !.raw = given[i], !.sp = given[i]]])

\* RampLimiter::applyRamp, 200 kW per second.
Ramped(t) ==
  CfArray([i \in CfTurbines |->
    [t[i] EXCEPT !.sp = CfClamp(t[i].raw, t[i].sp - 200 * CfDt, t[i].sp + 200 * CfDt)]])

\* updateTelemetry: the power follows its setpoint with a lag of 2 s, the rest
\* is what the power and the health make of it.
CfFollowed(power, sp) == power + ((sp - power) * 393) \div 1000
CfSeen(u, power, avail, wear, noise) ==
  LET actual == CfClamp(power, 0, avail)
  IN  [u EXCEPT !.avail = avail, !.min = 200, !.actual = actual,
                !.heat = [gear |-> ((500 + actual \div 5) * wear) \div 1000 + noise.gear,
                          pitch |-> ((450 + actual \div 10) * wear) \div 1000 + noise.pitch]]
CfDriven(given) ==
  [i \in CfTurbines |->
     CfSeen(given[i], CfFollowed(cfPower[i], given[i].sp),
            CfAvailable(cfTime, i, cfDraw.noise[i]), 3000 - 2 * CfHealth(cfTime, i),
            cfDraw.heat[i])]

CfInit ==
  /\ cfTime = 0
  /\ cfDraw \in CfDraws
  /\ cfT = [i \in CfTurbines |->
             [state |-> "normal", role |-> "base", sp |-> 0, raw |-> 0, avail |-> 0,
              min |-> 0, actual |-> 0, heat |-> [gear |-> 500, pitch |-> 450]]]
  /\ cfPower = [i \in CfTurbines |-> 0]
  /\ cfMode = "tracking"
  /\ cfTimer = 0
  /\ cfOut = [available |-> 0, cmd |-> 0, up |-> 0, down |-> 0, actual |-> 0]

\* WindFarmAgc::step, then the simulated farm.
CfStep ==
  LET c == CfScript(cfTime)
      assessed == Assessed(cfT)
      available == CfTotalAvailable(assessed)
      curtailed == Curtailed(assessed, c.target)
      mode == SelectedMode(cfMode, curtailed, available, c.hours)
      started == IF mode # cfMode /\ mode = "tracking" THEN Started(assessed)
                 ELSE assessed
      classified == Classified(started, mode)
      capacity == StopCapacity(classified, curtailed)
      stopped == IF mode = "deep" /\ capacity > 1 THEN Stopped(classified, capacity)
                 ELSE classified
      command == CheckedCommand(stopped, c.target + c.reserve)
      given == Ramped(IF mode = "deep" THEN DistributedDeep(stopped, command)
                      ELSE DistributedTracking(stopped, command))
  IN
  /\ cfTime <= 300
  /\ cfTime' = cfTime + CfDt
  /\ cfMode' = mode
  /\ cfTimer' = TimersIn(cfT)[CfN + 1]
  /\ cfOut' = [available |-> available, cmd |-> command,
               up |-> CfSum([i \in CfTurbines |-> ReserveUp(stopped[i])]),
               down |-> CfSum([i \in CfTurbines |-> ReserveDown(stopped[i])]),
               actual |-> CfSum([i \in CfTurbines |-> given[i].sp])]
  /\ cfPower' = [i \in CfTurbines |-> CfFollowed(cfPower[i], given[i].sp)]
  /\ cfT' = CfDriven(given)
  /\ cfDraw' \in IF cfTime' % CfHold = 0 THEN CfDraws ELSE {cfDraw}

CfNext == CfStep
CfSpec == CfInit /\ [][CfNext]_cfVars

-----------------------------------------------------------------------------
CfPeak == 2240          \* the rated 2 MW with the largest noise
CfTypeOK ==
  /\ cfTime \in 0..301
  /\ cfDraw \in CfDraws
  /\ \A i \in CfTurbines :
       /\ cfT[i].state \in Driven \cup {"standby"}
       /\ cfT[i].role \in {"base", "regulating", "standby"}
       /\ cfT[i].sp \in 0..CfPeak /\ cfT[i].raw \in 0..CfPeak
       /\ cfPower[i] \in 0..CfPeak
  /\ cfMode \in {"tracking", "deep"}
  /\ cfTimer \in 0..59

\* The wind never switches the mode: it swings the curtailed share between 0.34
\* and 0.60 under the order of 8 MW and between 0.33 and 0.45 under that of
\* 11 MW, across the threshold of entering in both, and still the mode changes
\* only in the first step of a new order (mode_selector.cpp:10-28 over the wind
\* of mock_farm.cpp:16-24 and the script of test_main.cpp:22-34).
CfWindKeepsCurtailment ==
  [][cfMode' # cfMode => CfScript(cfTime) # CfScript(cfTime - CfDt)]_cfVars
=============================================================================
