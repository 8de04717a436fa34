----------------------------- MODULE UnifiedAGC -----------------------------
(***************************************************************************)
(* The controller process: its loop reads six input points of the shared   *)
(* memory, runs one control step, and writes the same six points back with *)
(* the rest of the farm's state (main.cpp, UnifiedAGC::step, the six       *)
(* strategies, UnifiedLogger::logFarmState).  Other processes, the runner  *)
(* and the page's bridge, write the input points at any moment in between. *)
(*                                                                         *)
(* A point is a register here: DataPoint shows when it is one.  All        *)
(* turbines are alike and get equal commands, so the farm is its total     *)
(* power.  Powers, winds and frequencies are integers in the units that    *)
(* the constants set.                                                      *)
(***************************************************************************)
EXTENDS ConditionDetector, FiniteSets

CONSTANTS
  Inputs,         \* Inputs[p]: the values other processes write to point p
  Startup,        \* Startup[p]: the values of the input points at the start
  Rated,          \* totalRatedMW
  MinPower,       \* the sum of the turbines' powerAvailableMin
  CalmWind,       \* 12 m/s, the wind at which a turbine reaches its rating
  FreqRange,      \* the deviation that is still accepted as an input
  RampStep,       \* what the set-point of scene 1 moves in a cycle
  FeedforwardMax, \* the bound of the feed-forward term
  FeedbackMax,    \* the bound of the feedback term
  IntegralMax,    \* the bound of the integral part of the feedback
  ErrorBand,      \* errors below it are taken for zero
  CompensationMax,\* the bound of the ramp tracker's compensation
  DoneBand,       \* deadbandMW_, closer than this completes a ramp
  ExtremePower,   \* ExtremePower[t]: the power at extreme weather of type t
  RecoveryCycles, \* the cycles in which the recovery ramp gains a unit
  MaxWrites       \* bounds the writes and restarts of a run

ASSUME FarmAssumption ==
  /\ Rated \in Nat /\ MinPower \in Nat \ {0} /\ MinPower <= Rated \div 2
  /\ CalmWind \in Nat \ {0} /\ CalmWind < CutOutWind
  /\ FreqRange \in Nat
  /\ \A t \in 1 .. 3 : ExtremePower[t] \in MinPower .. Rated
ASSUME ControlAssumption ==
  /\ RampStep \in Nat /\ FeedforwardMax \in Nat /\ FeedbackMax \in Nat
  /\ IntegralMax \in Nat /\ ErrorBand \in Nat /\ CompensationMax \in Nat
  /\ DoneBand \in Nat /\ RecoveryCycles \in Nat \ {0} /\ MaxWrites \in Nat

VARIABLES
  point,     \* the six input points in the shared memory
  prev,      \* prevFrequencyHz, prevWindSpeedMs, ...: the inputs last accepted
  phase,     \* the part of the loop: "read", "step" or "log"
  at,        \* the point that is read or logged next
  farm,      \* farm_, the state the strategies share
  scene,     \* activeScene_
  detector,  \* detector_
  setpoint,  \* StrategyNormal::lastSetpoint_
  ramp,      \* StrategyRampTracking: tracking_ and targetPower_
  safety,    \* StrategySafety: frozen_, frozenPower_ and recoveryElapsed_
  frState,   \* StrategyFrequencyReg::frState_
  writes,    \* the writes and restarts so far
  unseen,    \* history: the points that hold a value of others not yet read
  measured,  \* history: the last wind of another process that was read
  settled    \* history: the ramp reached the target, nothing changed since

memoryVars == <<point, writes, unseen, measured>>
strategyVars == <<setpoint, ramp, safety, frState>>
loopVars == <<phase, at>>
vars == <<memoryVars, prev, loopVars, farm, scene, detector, strategyVars, settled>>

Points == {"freq", "wind", "comm", "extreme", "curtail", "sched"}
Modes == {"NORMAL", "COMM_LOSS_FREEZE", "EXTREME_WIND_AUTONOMOUS"}

ASSUME InputAssumption ==
  /\ Startup \in [Points -> Int]
  /\ \A p \in Points : Inputs[p] \subseteq Int

(* The order in which the loop reads the points and logFarmState writes    *)
(* them; the control step comes between the two, with at still "sched".    *)
AfterRead == [freq |-> "wind", wind |-> "comm", comm |-> "extreme",
              extreme |-> "curtail", curtail |-> "sched"]
AfterLog == [sched |-> "wind", wind |-> "freq", freq |-> "comm",
             comm |-> "curtail", curtail |-> "extreme"]

-----------------------------------------------------------------------------
(* The state of a process that has just started.                           *)

InitialFarm ==
  [power |-> Rated \div 2, avail |-> Rated, target |-> 0, freq |-> 0,
   wind |-> CalmWind, comm |-> 1, extreme |-> 0, curtail |-> 0,
   mode |-> "NORMAL", frozen |-> 0]

InitialPrev ==
  [freq |-> 0, wind |-> CalmWind, comm |-> 1, extreme |-> 0, curtail |-> 0,
   sched |-> Rated \div 2]

InitialDetector == [lastWind |-> 0, rampActive |-> FALSE]
InitialRamp == [tracking |-> FALSE, target |-> 0]
InitialSafety == [frozen |-> FALSE, power |-> 0, elapsed |-> 0]

Init ==
  /\ point = Startup
  /\ prev = InitialPrev
  /\ phase = "read" /\ at = "freq"
  /\ farm = InitialFarm
  /\ scene = 1
  /\ detector = InitialDetector
  /\ setpoint = 0
  /\ ramp = InitialRamp
  /\ safety = InitialSafety
  /\ frState = "READY"
  /\ writes = 0 /\ unseen = {} /\ measured = CalmWind
  /\ settled = FALSE

-----------------------------------------------------------------------------
(* The other processes                                                     *)

Written(p, v) ==
  /\ writes < MaxWrites
  /\ writes' = writes + 1
  /\ point' = [point EXCEPT ![p] = v]
  /\ unseen' = unseen \cup {p}
  /\ UNCHANGED measured

Write(p, v) ==
  /\ Written(p, v)
  /\ UNCHANGED <<prev, loopVars, farm, scene, detector, strategyVars, settled>>

(* The controller is killed and started again; the segment stays.          *)
Restart ==
  /\ writes < MaxWrites
  /\ writes' = writes + 1
  /\ prev' = InitialPrev
  /\ phase' = "read" /\ at' = "freq"
  /\ farm' = InitialFarm
  /\ scene' = 1
  /\ detector' = InitialDetector
  /\ setpoint' = 0
  /\ ramp' = InitialRamp
  /\ safety' = InitialSafety
  /\ frState' = "READY"
  /\ settled' = FALSE
  /\ UNCHANGED <<point, unseen, measured>>

-----------------------------------------------------------------------------
(* Reading the inputs.  A value is acted on only if it is valid and not    *)
(* the one accepted last.                                                  *)

Advance ==
  IF at = "sched"
  THEN phase' = "step" /\ at' = at
  ELSE phase' = phase /\ at' = AfterRead[at]

Accept(p, valid, newFarm) ==
  /\ phase = "read" /\ at = p
  /\ Advance
  /\ unseen' = unseen \ {p}
  /\ measured' = IF p = "wind" /\ p \in unseen THEN point[p] ELSE measured
  /\ IF valid /\ point[p] # prev[p]
     THEN /\ prev' = [prev EXCEPT ![p] = point[p]]
          /\ farm' = newFarm
          /\ settled' = FALSE
     ELSE UNCHANGED <<prev, farm, settled>>
  /\ UNCHANGED <<point, writes, scene, detector, strategyVars>>

ReadFrequency ==
  Accept("freq", Dist(point["freq"], 0) <= FreqRange,
         [farm EXCEPT !.freq = point["freq"]])

(* setWindSpeed: below rated wind less power is available.                 *)
AvailableAt(wind) == IF wind >= CalmWind THEN Rated ELSE (Rated * wind) \div CalmWind

ReadWind ==
  Accept("wind", point["wind"] > 0,
         [farm EXCEPT !.wind = point["wind"], !.avail = AvailableAt(point["wind"])])

ReadComm == Accept("comm", TRUE, [farm EXCEPT !.comm = point["comm"]])

(* setExtremeWeather, or clearExtremeWeather, which also sets the wind.    *)
ReadExtreme ==
  Accept("extreme", TRUE,
         IF point["extreme"] > 0
         THEN [farm EXCEPT !.extreme = point["extreme"]]
         ELSE [farm EXCEPT !.extreme = 0, !.wind = CalmWind])

ReadCurtail == Accept("curtail", TRUE, [farm EXCEPT !.curtail = point["curtail"]])

(* Mutant: the schedule is not checked.                                    *)
ReadScheduleUnchecked == Accept("sched", TRUE, farm)

ReadSchedule == Accept("sched", point["sched"] > 0, farm)

(* rt_db_get_value fails while another process is writing the point: the   *)
(* controller goes on with the old value and the write completes.          *)
MissRead(v) ==
  /\ phase = "read"
  /\ Advance
  /\ Written(at, v)
  /\ UNCHANGED <<prev, farm, scene, detector, strategyVars, settled>>

-----------------------------------------------------------------------------
(* The control step: one action per strategy, with what UnifiedAGC::step   *)
(* does before and after it.                                               *)

Clamp(v, lo, hi) == IF v > hi THEN hi ELSE IF v < lo THEN lo ELSE v

RampLimit(from, to, step) == Clamp(to, from - step, from + step)

(* Three tenths of a distance, never less than a unit of it: the farm goes *)
(* on approaching its command instead of stopping at a rounding error.     *)
Share(d) == IF d >= 0 THEN (3 * d + 9) \div 10 ELSE -((9 - 3 * d) \div 10)

(* What the detector chooses in this cycle.                                *)
Scene == SceneOf(farm, detector, prev.sched)

(* Mutant: the state of the safety mode survives the change of scene.      *)
EnteredAsWas == farm

(* A change of scene resets what the safety mode shows.                    *)
Entered == IF Scene = scene THEN farm ELSE [farm EXCEPT !.mode = "NORMAL", !.frozen = 0]

(* Mutant: a command is not limited to what the turbines can deliver.      *)
CommandUnlimited(total) == total

(* A farm power as the turbines can take it.                               *)
Command(total) == Clamp(total, MinPower, Rated)

(* Every turbine moves towards its command.                                *)
Follow(total) == farm.power + Share(Command(total) - farm.power)

StepIn(s) ==
  /\ phase = "step" /\ Scene = s
  /\ scene' = s
  /\ detector' = Remember(farm, detector, prev.sched)
  /\ phase' = "log"
  /\ UNCHANGED <<memoryVars, prev, at>>

(* Scene 1.  The feed-forward and the integral part depend on filters whose*)
(* state is left out: any value within their limits.                       *)
Wanted ==
  LET error == LET e == prev.sched - farm.power
               IN  IF Dist(e, 0) < ErrorBand THEN 0 ELSE e
      proportional == error + error \div 5
      low == Clamp(proportional - IntegralMax, -FeedbackMax, FeedbackMax)
      high == Clamp(proportional + IntegralMax, -FeedbackMax, FeedbackMax)
  IN  Clamp(prev.sched + low, 0, farm.avail) ..
        Clamp(prev.sched + high + FeedforwardMax, 0, farm.avail)

(* Mutant: the set-point of the last cycle is not kept.                    *)
NormalStepForgetful ==
  /\ StepIn(1)
  /\ \E w \in {RampLimit(0, v, RampStep) : v \in Wanted} :
       /\ setpoint' = w
       /\ farm' = [Entered EXCEPT !.target = w, !.avail = Rated,
                     !.power = Follow(Clamp(w, MinPower, farm.avail))]
  /\ settled' = (settled \/ scene = 4)
  /\ UNCHANGED <<ramp, safety, frState>>

NormalStep ==
  /\ StepIn(1)
  /\ \E w \in {RampLimit(setpoint, v, RampStep) : v \in Wanted} :
       /\ setpoint' = w
       /\ farm' = [Entered EXCEPT !.target = w, !.avail = Rated,
                     !.power = Follow(Clamp(w, MinPower, farm.avail))]
  /\ settled' = (settled \/ scene = 4)
  /\ UNCHANGED <<ramp, safety, frState>>

(* Scene 2.  Its commands are not handed on and it replaces the farm's     *)
(* wind speed by its constant.  Its pitch control is left out.             *)
DisturbanceStep ==
  /\ StepIn(2)
  /\ farm' = [Entered EXCEPT !.wind = CalmWind, !.avail = Rated]
  /\ settled' = FALSE
  /\ UNCHANGED strategyVars

(* Mutant: the simulated frequency does not recover.                       *)
RecoveredNever(dev) == dev

(* Scene 3.  The simulated frequency decays; its commands are not handed   *)
(* on either.  The thresholds are 0.02 Hz and 0.003 Hz.                    *)
Recovered(dev) == IF dev > 0 THEN dev - 1 ELSE IF dev < 0 THEN dev + 1 ELSE 0

FrNext(dev) ==
  CASE frState = "READY" -> IF Dist(dev, 0) > FreqDeadband THEN "ACTIVE" ELSE "READY"
    [] frState = "ACTIVE" -> IF Dist(dev, 0) < 2 THEN "RECOVERY" ELSE "ACTIVE"
    [] frState = "RECOVERY" -> IF dev = 0 THEN "READY" ELSE "RECOVERY"

FrequencyStep ==
  /\ StepIn(3)
  /\ LET dev == Recovered(farm.freq)
     IN  /\ farm' = [Entered EXCEPT !.freq = dev, !.avail = Rated]
         /\ frState' = FrNext(dev)
  /\ settled' = FALSE
  /\ UNCHANGED <<setpoint, ramp, safety>>

(* Mutant: a completed ramp keeps its target.                              *)
RampStepForEver(target) ==
  LET aim == target + Clamp(Share(target - farm.power), -CompensationMax, CompensationMax)
  IN  /\ farm' = [Entered EXCEPT !.target = target, !.avail = Rated,
                    !.power = Follow(Clamp(aim, 0, farm.avail))]
      /\ ramp' = [tracking |-> TRUE, target |-> target]

(* Scene 4.  The target is latched when tracking begins.                   *)
RampStepTo(target) ==
  LET aim == target + Clamp(Share(target - farm.power), -CompensationMax, CompensationMax)
  IN  /\ farm' = [Entered EXCEPT !.target = target, !.avail = Rated,
                    !.power = Follow(Clamp(aim, 0, farm.avail))]
      /\ ramp' = [tracking |-> Dist(farm.power, target) >= DoneBand, target |-> target]

RampTrackingStep ==
  /\ StepIn(4)
  /\ RampStepTo(IF ramp.tracking THEN ramp.target ELSE prev.sched)
  /\ settled' = FALSE
  /\ UNCHANGED <<setpoint, safety, frState>>

(* Scene 5.  Its commands are not handed on; the curtailed share is        *)
(* computed from the schedule.                                             *)
CurtailmentStep ==
  /\ StepIn(5)
  /\ farm' = [Entered EXCEPT !.curtail = Rated - prev.sched, !.avail = Rated]
  /\ settled' = FALSE
  /\ UNCHANGED strategyVars

(* Scene 6, with three sub-modes.                                          *)

(* Mutant: the wind speed alone decides between the sub-modes.             *)
SafetyModeByWind ==
  IF farm.comm = 0 THEN "COMM_LOSS_FREEZE"
  ELSE IF farm.wind > CutOutWind THEN "EXTREME_WIND_AUTONOMOUS"
  ELSE "NORMAL"

(* At the cut-out speed itself the scene is 6 and the sub-mode is normal.  *)
SafetyMode ==
  IF farm.comm = 0 THEN "COMM_LOSS_FREEZE"
  ELSE IF farm.extreme # 0 \/ farm.wind > CutOutWind THEN "EXTREME_WIND_AUTONOMOUS"
  ELSE "NORMAL"

SafetyStepIn(mode) ==
  /\ StepIn(6)
  /\ SafetyMode = mode
  /\ settled' = FALSE
  /\ UNCHANGED <<setpoint, ramp, frState>>

SafetyFarm(mode, total) ==
  [Entered EXCEPT !.mode = mode, !.avail = Rated, !.power = Follow(total),
     !.frozen = IF safety'.frozen THEN safety'.power ELSE 0]

(* Mutant: the farm is frozen at what it was told, not at what it delivers.*)
FreezeAtTarget ==
  /\ SafetyStepIn("COMM_LOSS_FREEZE")
  /\ safety' = [safety EXCEPT !.frozen = TRUE, !.power = prev.sched]
  /\ farm' = SafetyFarm("COMM_LOSS_FREEZE", safety'.power)

Freeze ==
  /\ SafetyStepIn("COMM_LOSS_FREEZE")
  /\ safety' = IF safety.frozen THEN safety
               ELSE [safety EXCEPT !.frozen = TRUE, !.power = farm.power]
  /\ farm' = SafetyFarm("COMM_LOSS_FREEZE", safety'.power)

(* The type of extreme weather: what was told, or cut-out by the wind.  An *)
(* unknown type reduces nothing.                                           *)
WeatherType == IF farm.extreme = 0 THEN 1 ELSE farm.extreme
ExtremeTotal(type) == IF type \in 1 .. 3 THEN ExtremePower[type] ELSE Rated

ExtremeWind ==
  /\ SafetyStepIn("EXTREME_WIND_AUTONOMOUS")
  /\ safety' = [safety EXCEPT !.frozen = FALSE]
  /\ farm' = [SafetyFarm("EXTREME_WIND_AUTONOMOUS", ExtremeTotal(WeatherType))
                EXCEPT !.extreme = WeatherType]

(* The recovery ramp of a farm that is still frozen.                       *)
RecoverStep ==
  /\ SafetyStepIn("NORMAL")
  /\ safety.frozen
  /\ LET elapsed == safety.elapsed + 1
         current == safety.power + elapsed \div RecoveryCycles
         done == current >= prev.sched
     IN  /\ safety' = [safety EXCEPT !.frozen = ~done,
                         !.elapsed = IF done THEN 0 ELSE elapsed]
         /\ farm' = [SafetyFarm("NORMAL", IF done THEN prev.sched ELSE current)
                       EXCEPT !.extreme = 0]

FollowScheduleStep ==
  /\ SafetyStepIn("NORMAL")
  /\ ~safety.frozen
  /\ UNCHANGED safety
  /\ farm' = [SafetyFarm("NORMAL", prev.sched) EXCEPT !.extreme = 0]

-----------------------------------------------------------------------------
(* Writing the state back.  The logger writes the input points too, as the *)
(* controller took them, whatever they have become since.                  *)

(* Mutant: the curtailed share is not written back.                        *)
LoggedUncurtailed ==
  [sched |-> prev.sched, wind |-> farm.wind, freq |-> farm.freq,
   comm |-> farm.comm, curtail |-> prev.curtail, extreme |-> farm.extreme]

Logged ==
  [sched |-> prev.sched, wind |-> farm.wind, freq |-> farm.freq,
   comm |-> farm.comm, curtail |-> farm.curtail, extreme |-> farm.extreme]

LogPoint ==
  /\ phase = "log"
  /\ point' = [point EXCEPT ![at] = Logged[at]]
  /\ IF at = "extreme"
     THEN phase' = "read" /\ at' = "freq"
     ELSE phase' = phase /\ at' = AfterLog[at]
  /\ unseen' = unseen \ {at}
  /\ UNCHANGED <<prev, writes, measured, farm, scene, detector, strategyVars, settled>>

-----------------------------------------------------------------------------
ReadInput ==
  \/ ReadFrequency \/ ReadWind \/ ReadComm
  \/ ReadExtreme \/ ReadCurtail \/ ReadSchedule

ControlStep ==
  \/ NormalStep \/ DisturbanceStep \/ FrequencyStep
  \/ RampTrackingStep \/ CurtailmentStep
  \/ Freeze \/ ExtremeWind \/ RecoverStep \/ FollowScheduleStep

Controller == ReadInput \/ ControlStep \/ LogPoint

Others ==
  \/ \E p \in Points : \E v \in Inputs[p] : Write(p, v)
  \/ \E v \in Inputs[at] : MissRead(v)
  \/ Restart

Next == Controller \/ Others

Spec == Init /\ [][Next]_vars

(* The loop never blocks: it sleeps a tenth of a second and goes on.       *)
FairSpec == Spec /\ WF_vars(Controller)

-----------------------------------------------------------------------------
Farms ==
  [power : Int, avail : 0 .. Rated, target : Int, freq : Int, wind : Int,
   comm : Int, extreme : Int, curtail : Int, mode : Modes, frozen : Int]

(* Every variable has its type.                                            *)
TypeOK ==
  /\ point \in [Points -> Int]
  /\ prev \in [Points -> Int] /\ prev.sched > 0
  /\ phase \in {"read", "step", "log"} /\ at \in Points
  /\ phase = "step" => at = "sched"
  /\ farm \in Farms
  /\ scene \in 1 .. 6
  /\ detector \in [lastWind : Int, rampActive : BOOLEAN]
  /\ setpoint \in Int
  /\ ramp \in [tracking : BOOLEAN, target : Int]
  /\ safety \in [frozen : BOOLEAN, power : Int, elapsed : Nat]
  /\ frState \in {"READY", "ACTIVE", "RECOVERY"}
  /\ writes \in 0 .. MaxWrites
  /\ unseen \subseteq Points /\ measured \in Int
  /\ settled \in BOOLEAN

(* Whatever schedule is written and in whatever order the scenes follow    *)
(* one another, the farm stays between its technical minimum and its       *)
(* rating (UnifiedAGC::step applies what five strategies clamped).         *)
PowerWithinRating ==
  /\ farm.power \in MinPower .. Rated
  /\ farm.frozen \in {0} \cup MinPower .. Rated

(* What is shown to the operators agrees with the scene: a safety mode and *)
(* a frozen power only in scene 6, and in a freeze the power that is held. *)
(* The reset is in UnifiedAGC::step, the rest in StrategySafety::step.     *)
SafetyModeShown ==
  /\ scene # 6 => farm.mode = "NORMAL" /\ farm.frozen = 0
  /\ farm.mode = "COMM_LOSS_FREEZE" => farm.frozen # 0
  /\ farm.mode = "EXTREME_WIND_AUTONOMOUS" => farm.frozen = 0

(* During an outage the frozen power is one number and the farm only comes *)
(* closer to it, whatever is written to the schedule meanwhile.            *)
FrozenPowerHeld ==
  [][farm.mode = "COMM_LOSS_FREEZE" /\ farm'.mode = "COMM_LOSS_FREEZE"
       => /\ farm'.frozen = farm.frozen
          /\ Dist(farm'.power, farm.frozen) <= Dist(farm.power, farm.frozen)]_vars

(* Extreme weather, once recognised, ends when somebody clears it (or with *)
(* the process), never because the wind has calmed down or communication   *)
(* was lost and restored.                                                  *)
ExtremeEndsByCommand ==
  [][farm.extreme # 0 /\ farm'.extreme = 0
       => \/ phase = "read" /\ at = "extreme" /\ point["extreme"] <= 0
          \/ writes' # writes]_vars

(* The shared memory holds the inputs as the controller took them.         *)
Agreed ==
  /\ point["sched"] = prev.sched
  /\ point["wind"] = farm.wind /\ point["freq"] = farm.freq
  /\ point["comm"] = farm.comm /\ point["extreme"] = farm.extreme
  /\ point["curtail"] = farm.curtail

(* Once the other processes are silent, the shared memory and the          *)
(* controller come to agree on every input.                                *)
InputsConverge == <>[]Agreed

(* Frequency regulation ends by itself once nobody disturbs the frequency. *)
FrequencySceneEnds == scene = 3 ~> scene # 3

(* A gust is over after a while: scene 2 compares the wind with the wind   *)
(* of the cycle before.                                                    *)
GustSceneEnds == scene = 2 ~> scene # 2

(* A target that the turbines cannot come near enough to for a ramp to be  *)
(* complete: main accepts every schedule above 0.1 MW.                     *)
OutOfReach(target) == Dist(Command(target), target) >= DoneBand

HeldAtLimit ==
  ramp.tracking /\ OutOfReach(ramp.target) /\ farm.power = Command(ramp.target)

(* Ramp tracking ends, although it may start with the target of an earlier *)
(* ramp: it completes that one and then takes the new one.  Only a latched *)
(* target out of the farm's reach keeps scene 4 for ever, and then the     *)
(* farm comes to its limit on that side and stays there.                   *)
RampEnds == []<>(scene # 4) \/ <>[]HeldAtLimit

(* Once nobody writes any more the scene stops changing: scenes 1 and 4    *)
(* alternate for a while, but the set-point of scene 1 gains on the target *)
(* in every visit until it holds it.                                       *)
SceneSettles == <>[][phase = "step" => scene' = scene]_vars

-----------------------------------------------------------------------------
(* What the documents say and the code does not do.                        *)

(* The power that is frozen is the power at the moment communication is    *)
(* lost.  StrategySafety keeps frozen_ when communication returns.         *)
FreezesCurrentPower ==
  [][farm.mode # "COMM_LOSS_FREEZE" /\ farm'.mode = "COMM_LOSS_FREEZE"
       => farm'.frozen = farm.power]_vars

(* Scenes 1 and 4 do not alternate: a farm that was brought to its target  *)
(* stays there while nothing changes.  Scene 1 resumes at the set-point it *)
(* had when it was last active.                                            *)
NoOscillation == [][scene = 1 /\ scene' = 4 => ~settled]_vars

(* A value that another process writes to an input point is read before    *)
(* the controller replaces it.                                             *)
InputsAreRead == [][phase = "log" => at \notin unseen]_vars

(* Safety has the highest priority: while the wind that was measured is    *)
(* at the cut-out speed the controller is in scene 6.                      *)
CutOutWindIsSafe == phase = "log" /\ measured >= CutOutWind => scene = 6
=============================================================================
