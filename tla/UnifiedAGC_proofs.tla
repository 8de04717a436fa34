-------------------------- MODULE UnifiedAGC_proofs --------------------------
(***************************************************************************)
(* Theorems about the controller, for every size of farm and every set of  *)
(* inputs.                                                                 *)
(***************************************************************************)
EXTENDS UnifiedAGC, TLAPS

USE DEF Points, Modes

(* A tenth-wise approach never overshoots.                                 *)
LEMMA ShareBounds ==
  ASSUME NEW d \in Int
  PROVE  /\ Share(d) \in Int
         /\ d >= 0 => Share(d) >= 0 /\ Share(d) <= d
         /\ d <= 0 => Share(d) <= 0 /\ Share(d) >= d
BY DEF Share

(* A command lies within what the turbines can deliver.                    *)
LEMMA CommandBounds ==
  ASSUME NEW total \in Int
  PROVE  /\ Command(total) \in MinPower .. Rated
         /\ total \in MinPower .. Rated => Command(total) = total
BY FarmAssumption DEF Command, Clamp

(* The available power is a part of the rating.                            *)
LEMMA AvailableBounds ==
  ASSUME NEW wind \in Int, wind > 0
  PROVE  AvailableAt(wind) \in 0 .. Rated
<1>1. CASE wind >= CalmWind
  BY <1>1, FarmAssumption DEF AvailableAt
<1>2. CASE wind < CalmWind
  <2>0. Rated \in Nat /\ CalmWind \in Nat /\ CalmWind > 0
    BY FarmAssumption
  <2> DEFINE product == Rated * wind
             quotient == product \div CalmWind
  <2>1. product \in Int /\ product >= 0 /\ product <= Rated * CalmWind
    BY <1>2, <2>0
  <2>2. quotient \in Int /\ quotient >= 0 /\ quotient * CalmWind <= product
    BY <2>0, <2>1
  <2>3. quotient <= Rated
    BY <2>0, <2>1, <2>2
  <2>4. AvailableAt(wind) = quotient
    BY <1>2, <2>0 DEF AvailableAt
  <2> QED BY <2>0, <2>2, <2>3, <2>4
<1> QED BY <1>1, <1>2, FarmAssumption

(* What the farm does in a cycle stays within what the turbines deliver.   *)
LEMMA FollowBounds ==
  ASSUME NEW total \in Int, farm.power \in MinPower .. Rated
  PROVE  Follow(total) \in MinPower .. Rated
<1> DEFINE d == Command(total) - farm.power
<1>1. Command(total) \in MinPower .. Rated
  BY CommandBounds
<1>2. MinPower \in Int /\ Rated \in Int
  BY FarmAssumption
<1>3. d \in Int
  BY <1>1, <1>2
<1>4. /\ Share(d) \in Int
      /\ d >= 0 => Share(d) >= 0 /\ Share(d) <= d
      /\ d <= 0 => Share(d) <= 0 /\ Share(d) >= d
  BY <1>3, ShareBounds
<1>5. farm.power + Share(d) \in MinPower .. Rated
  BY <1>1, <1>2, <1>4
<1> QED BY <1>5 DEF Follow

-----------------------------------------------------------------------------
(* The inductive invariant.  What is shown of a freeze is what the safety  *)
(* strategy holds, and that is a power the farm once had.                  *)
FreezeHeld ==
  /\ safety.frozen => safety.power \in MinPower .. Rated
  /\ farm.mode = "COMM_LOSS_FREEZE" => safety.frozen /\ farm.frozen = safety.power

IInv == TypeOK /\ PowerWithinRating /\ SafetyModeShown /\ FreezeHeld

(* The part of it that is about the farm and the strategies.               *)
FarmType == farm \in Farms

DetectorType == detector \in [lastWind : Int, rampActive : BOOLEAN]
SafetyType == safety \in [frozen : BOOLEAN, power : Int, elapsed : Nat]
RampType == ramp \in [tracking : BOOLEAN, target : Int]
FrType == frState \in {"READY", "ACTIVE", "RECOVERY"}

LEMMA InitInvariant == Init => IInv
<1> SUFFICES ASSUME Init PROVE IInv
  OBVIOUS
<1> USE DEF Init
<1>1. Rated \in Int /\ MinPower \in Int /\ MinPower > 0 /\ MinPower <= Rated \div 2
      /\ CalmWind \in Int /\ Rated >= 0 /\ MaxWrites \in Nat
  BY FarmAssumption, ControlAssumption
<1>2. Rated \div 2 \in MinPower .. Rated
  BY <1>1
<1>3. farm.power = Rated \div 2 /\ farm.frozen = 0 /\ farm.mode = "NORMAL"
  BY DEF InitialFarm
<1>4. FarmType
  BY <1>1, <1>2 DEF InitialFarm, FarmType, Farms
<1>5. point \in [Points -> Int]
  BY InputAssumption
<1>6. prev \in [Points -> Int] /\ prev.sched > 0
  BY <1>1, <1>2 DEF InitialPrev
<1>7. DetectorType /\ SafetyType /\ RampType /\ FrType
  BY DEF DetectorType, SafetyType, RampType, FrType,
         InitialDetector, InitialRamp, InitialSafety
<1>8. TypeOK
  <2>1. phase \in {"read", "step", "log"} /\ at \in Points /\ (phase = "step" => at = "sched")
    OBVIOUS
  <2>2. scene \in 1 .. 6 /\ setpoint \in Int
    OBVIOUS
  <2>3. writes \in 0 .. MaxWrites /\ unseen \subseteq Points /\ measured \in Int
    BY <1>1
  <2>4. settled \in BOOLEAN
    OBVIOUS
  <2> HIDE DEF Init
  <2> QED BY <1>4, <1>5, <1>6, <1>7, <2>1, <2>2, <2>3, <2>4
     DEF TypeOK, FarmType, DetectorType, SafetyType, RampType, FrType
<1>9. PowerWithinRating
  BY <1>2, <1>3 DEF PowerWithinRating
<1>10. SafetyModeShown /\ FreezeHeld
  BY <1>3 DEF SafetyModeShown, FreezeHeld, InitialSafety
<1> QED BY <1>8, <1>9, <1>10 DEF IInv

(* A step that leaves the farm's power and mode and the safety strategy    *)
(* alone keeps all that is said about them.                                *)
LEMMA PowerUntouched ==
  ASSUME IInv, UNCHANGED <<scene, safety>>,
         farm'.power = farm.power, farm'.mode = farm.mode, farm'.frozen = farm.frozen
  PROVE  PowerWithinRating' /\ SafetyModeShown' /\ FreezeHeld'
BY DEF IInv, PowerWithinRating, SafetyModeShown, FreezeHeld

LEMMA WriteInvariant ==
  ASSUME IInv, NEW p \in Points, NEW v \in Inputs[p], Write(p, v)
  PROVE  IInv'
<1>1. v \in Int
  BY InputAssumption
<1>2. point' \in [Points -> Int]
  BY <1>1 DEF IInv, TypeOK, Write, Written
<1>3. writes' \in 0 .. MaxWrites
  BY ControlAssumption DEF IInv, TypeOK, Write, Written
<1>4. unseen' \subseteq Points /\ measured' \in Int
  BY DEF IInv, TypeOK, Write, Written
<1>5. TypeOK'
  BY <1>2, <1>3, <1>4
     DEF IInv, TypeOK, Write, loopVars, strategyVars
<1>6. PowerWithinRating' /\ SafetyModeShown' /\ FreezeHeld'
  BY PowerUntouched DEF Write, strategyVars
<1> QED BY <1>5, <1>6 DEF IInv

-----------------------------------------------------------------------------
(* The loop goes from one point to the next.                               *)
LEMMA AdvanceType ==
  ASSUME at \in Points, phase = "read", Advance
  PROVE  /\ phase' \in {"read", "step", "log"} /\ at' \in Points
         /\ phase' = "step" => at' = "sched"
BY DEF Advance, AfterRead

(* Every accepted input leaves the farm a farm, with its power, its mode   *)
(* and its frozen power.                                                   *)
LEMMA AcceptedFarm ==
  ASSUME IInv, ReadInput
  PROVE  /\ FarmType'
         /\ farm'.power = farm.power /\ farm'.mode = farm.mode
         /\ farm'.frozen = farm.frozen
<1> USE DEF FarmType, Farms
<1>0. FarmType /\ point \in [Points -> Int]
  BY DEF IInv, TypeOK
<1>1. CASE farm' = farm
  BY <1>0, <1>1
<1>2. CASE farm' = [farm EXCEPT !.freq = point["freq"]]
  BY <1>0, <1>2
<1>3. CASE /\ point["wind"] > 0
           /\ farm' = [farm EXCEPT !.wind = point["wind"], !.avail = AvailableAt(point["wind"])]
  <2>1. point["wind"] \in Int
    BY <1>0
  <2>2. AvailableAt(point["wind"]) \in 0 .. Rated
    BY <1>3, <2>1, AvailableBounds
  <2> QED BY <1>0, <1>3, <2>1, <2>2
<1>4. CASE farm' = [farm EXCEPT !.comm = point["comm"]]
  BY <1>0, <1>4
<1>5. CASE farm' = [farm EXCEPT !.extreme = point["extreme"]]
  BY <1>0, <1>5
<1>6. CASE farm' = [farm EXCEPT !.extreme = 0, !.wind = CalmWind]
  <2>1. CalmWind \in Int
    BY FarmAssumption
  <2> DEFINE zero == 0
  <2>2. zero \in Int /\ farm' = [farm EXCEPT !.extreme = zero, !.wind = CalmWind]
    BY <1>6
  <2> HIDE DEF zero
  <2> QED BY <1>0, <2>1, <2>2
<1>7. CASE farm' = [farm EXCEPT !.curtail = point["curtail"]]
  BY <1>0, <1>7
<1> QED
  BY <1>1, <1>2, <1>3, <1>4, <1>5, <1>6, <1>7
     DEF ReadInput, ReadFrequency, ReadWind, ReadComm, ReadExtreme, ReadCurtail,
         ReadSchedule, Accept

LEMMA ReadInvariant == ASSUME IInv, ReadInput PROVE IInv'
<1>1. /\ phase = "read" /\ Advance
      /\ UNCHANGED <<point, writes, scene, detector, strategyVars>>
      /\ unseen' \subseteq unseen
      /\ measured' = measured \/ measured' = point["wind"]
      /\ settled' = settled \/ settled' = FALSE
      /\ prev' = prev \/ prev' = [prev EXCEPT ![at] = point[at]]
      /\ at = "sched" /\ prev' # prev => point["sched"] > 0
  BY DEF ReadInput, ReadFrequency, ReadWind, ReadComm, ReadExtreme, ReadCurtail,
         ReadSchedule, Accept
<1>2. TypeOK
  BY DEF IInv
<1>3. prev' \in [Points -> Int] /\ prev'.sched > 0
  BY <1>1, <1>2 DEF TypeOK
<1>4. /\ phase' \in {"read", "step", "log"} /\ at' \in Points
      /\ phase' = "step" => at' = "sched"
  BY <1>1, <1>2, AdvanceType DEF TypeOK
<1>5. measured' \in Int /\ unseen' \subseteq Points
  BY <1>1, <1>2 DEF TypeOK
<1>6. settled' \in BOOLEAN
  BY <1>1, <1>2 DEF TypeOK
<1>7. /\ FarmType'
      /\ farm'.power = farm.power /\ farm'.mode = farm.mode
      /\ farm'.frozen = farm.frozen
  BY AcceptedFarm
<1>8. TypeOK'
  BY <1>1, <1>2, <1>3, <1>4, <1>5, <1>6, <1>7 DEF TypeOK, FarmType, strategyVars
<1>9. PowerWithinRating' /\ SafetyModeShown' /\ FreezeHeld'
  BY <1>1, <1>7, PowerUntouched DEF strategyVars
<1> QED BY <1>8, <1>9 DEF IInv

LEMMA MissReadInvariant ==
  ASSUME IInv, NEW v \in Inputs[at], MissRead(v)
  PROVE  IInv'
<1>1. at \in Points /\ phase = "read" /\ Advance
  BY DEF IInv, TypeOK, MissRead
<1>2. v \in Int
  BY <1>1, InputAssumption
<1>3. Written(at, v)
  BY DEF MissRead
<1>4. point' \in [Points -> Int]
  BY <1>1, <1>2, <1>3 DEF IInv, TypeOK, Written
<1>5. writes' \in 0 .. MaxWrites
  BY <1>3, ControlAssumption DEF IInv, TypeOK, Written
<1>6. unseen' \subseteq Points /\ measured' \in Int
  BY <1>1, <1>3 DEF IInv, TypeOK, Written
<1>7. /\ phase' \in {"read", "step", "log"} /\ at' \in Points
      /\ phase' = "step" => at' = "sched"
  BY <1>1, AdvanceType
<1>8. TypeOK'
  BY <1>4, <1>5, <1>6, <1>7 DEF IInv, TypeOK, MissRead, strategyVars
<1>9. PowerWithinRating' /\ SafetyModeShown' /\ FreezeHeld'
  BY PowerUntouched DEF MissRead, strategyVars
<1> QED BY <1>8, <1>9 DEF IInv

LEMMA RestartInvariant == ASSUME IInv, Restart PROVE IInv'
<1> USE DEF Restart
<1>1. Rated \in Int /\ MinPower \in Int /\ MinPower > 0 /\ MinPower <= Rated \div 2
      /\ CalmWind \in Int /\ Rated >= 0 /\ MaxWrites \in Nat
  BY FarmAssumption, ControlAssumption
<1>2. Rated \div 2 \in MinPower .. Rated
  BY <1>1
<1>3. farm'.power = Rated \div 2 /\ farm'.frozen = 0 /\ farm'.mode = "NORMAL"
  BY DEF InitialFarm
<1>4. FarmType'
  BY <1>1, <1>2 DEF InitialFarm, FarmType, Farms
<1>5. prev' \in [Points -> Int] /\ prev'.sched > 0
  BY <1>1, <1>2 DEF InitialPrev
<1>6. DetectorType' /\ SafetyType' /\ RampType' /\ FrType'
  BY DEF DetectorType, SafetyType, RampType, FrType,
         InitialDetector, InitialRamp, InitialSafety
<1>7. TypeOK'
  <2>1. phase' \in {"read", "step", "log"} /\ at' \in Points
        /\ (phase' = "step" => at' = "sched")
    OBVIOUS
  <2>2. scene' \in 1 .. 6 /\ setpoint' \in Int
    OBVIOUS
  <2>4. settled' \in BOOLEAN
    OBVIOUS
  <2>3. writes' \in 0 .. MaxWrites /\ unseen' \subseteq Points /\ measured' \in Int
        /\ point' \in [Points -> Int]
    BY <1>1 DEF IInv, TypeOK
  <2> HIDE DEF Restart
  <2> QED BY <1>4, <1>5, <1>6, <2>1, <2>2, <2>3, <2>4
     DEF TypeOK, FarmType, DetectorType, SafetyType, RampType, FrType
<1>8. PowerWithinRating'
  BY <1>2, <1>3 DEF PowerWithinRating
<1>9. SafetyModeShown' /\ FreezeHeld'
  BY <1>3 DEF SafetyModeShown, FreezeHeld, InitialSafety
<1> QED BY <1>7, <1>8, <1>9 DEF IInv

LEMMA LogInvariant == ASSUME IInv, LogPoint PROVE IInv'
<1>1. at \in Points /\ farm.wind \in Int /\ farm.freq \in Int /\ farm.comm \in Int
      /\ farm.curtail \in Int /\ farm.extreme \in Int /\ prev.sched \in Int
  BY DEF IInv, TypeOK, Farms
<1>2. Logged[at] \in Int
  BY <1>1 DEF Logged
<1>3. point' \in [Points -> Int]
  BY <1>1, <1>2 DEF IInv, TypeOK, LogPoint
<1>4. phase' \in {"read", "step", "log"} /\ at' \in Points
      /\ (phase' = "step" => at' = "sched")
  BY <1>1 DEF LogPoint, AfterLog
<1>5. unseen' \subseteq Points
  BY DEF IInv, TypeOK, LogPoint
<1>6. TypeOK'
  BY <1>3, <1>4, <1>5 DEF IInv, TypeOK, LogPoint, strategyVars
<1>7. PowerWithinRating' /\ SafetyModeShown' /\ FreezeHeld'
  BY PowerUntouched DEF LogPoint, strategyVars
<1> QED BY <1>6, <1>7 DEF IInv

-----------------------------------------------------------------------------
(* The control step.  A farm enters its scene with its power and with what *)
(* it shows in that scene, or with nothing shown if the scene is new.      *)
LEMMA EnteredFarm ==
  ASSUME IInv
  PROVE  /\ Entered \in Farms
         /\ Entered.power = farm.power /\ Entered.extreme = farm.extreme
         /\ Scene # scene => Entered.mode = "NORMAL" /\ Entered.frozen = 0
         /\ Scene = scene => Entered = farm
<1>1. FarmType
  BY DEF IInv, TypeOK, FarmType
<1>2. CASE Scene = scene
  BY <1>1, <1>2 DEF Entered, FarmType, Farms
<1>3. CASE Scene # scene
  <2> DEFINE none == 0
             normal == "NORMAL"
  <2>1. none \in Int /\ normal \in Modes
        /\ Entered = [farm EXCEPT !.mode = normal, !.frozen = none]
    BY <1>3 DEF Entered
  <2> HIDE DEF none, normal
  <2>2. Entered \in Farms
        /\ Entered.power = farm.power /\ Entered.extreme = farm.extreme
        /\ Entered.mode = normal /\ Entered.frozen = none
    BY <1>1, <2>1 DEF FarmType, Farms
  <2> QED BY <1>3, <2>2 DEF normal, none
<1> QED BY <1>2, <1>3

(* What the detector remembers has its type.                               *)
LEMMA RememberType ==
  ASSUME IInv
  PROVE  Remember(farm, detector, prev.sched) \in [lastWind : Int, rampActive : BOOLEAN]
<1> DEFINE s == SceneOf(farm, detector, prev.sched)
<1>1. s \in 1 .. 6
  BY DEF SceneOf
<1>2. detector \in [lastWind : Int, rampActive : BOOLEAN] /\ farm.wind \in Int
  BY DEF IInv, TypeOK, Farms
<1> HIDE DEF s
<1>3. CASE s \in {3, 6}
  BY <1>2, <1>3 DEF Remember, s
<1>4. CASE s \in {2, 5}
  BY <1>2, <1>4 DEF Remember, s
<1>5. CASE s \in {1, 4}
  BY <1>2, <1>5 DEF Remember, s
<1> QED BY <1>1, <1>3, <1>4, <1>5

(* What is left to show of a control step once its scene is known.         *)
LEMMA StepInvariant ==
  ASSUME IInv, NEW s \in 1 .. 6, StepIn(s),
         FarmType', SafetyType', RampType', FrType',
         setpoint' \in Int, settled' \in BOOLEAN,
         PowerWithinRating', SafetyModeShown', FreezeHeld'
  PROVE  IInv'
<1>1. TypeOK
  BY DEF IInv
<1>2. scene' \in 1 .. 6
  BY DEF StepIn
<1>3. detector' \in [lastWind : Int, rampActive : BOOLEAN]
  BY RememberType DEF StepIn
<1>4. /\ phase' \in {"read", "step", "log"} /\ at' \in Points
      /\ phase' = "step" => at' = "sched"
  BY <1>1 DEF StepIn, TypeOK
<1>5. /\ point' \in [Points -> Int]
      /\ prev' \in [Points -> Int] /\ prev'.sched > 0
      /\ writes' \in 0 .. MaxWrites
      /\ unseen' \subseteq Points /\ measured' \in Int
  BY <1>1 DEF StepIn, TypeOK, memoryVars
<1>6. TypeOK'
  BY <1>2, <1>3, <1>4, <1>5 DEF TypeOK, FarmType, SafetyType, RampType, FrType
<1> QED BY <1>6 DEF IInv

(* A step of one of the other five scenes: nothing of a safety mode is     *)
(* shown, and the power is one the turbines can deliver.                   *)
LEMMA OrdinaryStep ==
  ASSUME IInv, NEW s \in 1 .. 5, StepIn(s), UNCHANGED safety,
         FarmType', RampType', FrType',
         setpoint' \in Int, settled' \in BOOLEAN,
         farm'.power \in MinPower .. Rated,
         farm'.mode = Entered.mode, farm'.frozen = Entered.frozen
  PROVE  IInv'
<1>1. Scene = s /\ scene' = s /\ s # 6
  BY DEF StepIn
<1>2. farm'.mode = "NORMAL" /\ farm'.frozen = 0
  BY <1>1, EnteredFarm DEF IInv, SafetyModeShown
<1>3. SafetyType'
  BY DEF IInv, TypeOK, SafetyType
<1>4. PowerWithinRating' /\ SafetyModeShown'
  BY <1>2 DEF PowerWithinRating, SafetyModeShown
<1>5. FreezeHeld'
  BY <1>2 DEF IInv, FreezeHeld
<1> QED BY <1>3, <1>4, <1>5, StepInvariant

(* The bounds of a clamped value, and of a set-point.                      *)
LEMMA ClampType ==
  ASSUME NEW v \in Int, NEW lo \in Int, NEW hi \in Int
  PROVE  Clamp(v, lo, hi) \in Int
BY DEF Clamp

LEMMA RampLimitType ==
  ASSUME NEW from \in Int, NEW to \in Int, NEW step \in Int
  PROVE  RampLimit(from, to, step) \in Int
BY DEF RampLimit, Clamp

(* What every strategy may rely on.                                        *)
LEMMA StepFacts ==
  ASSUME IInv
  PROVE  /\ FarmType /\ RampType /\ FrType /\ SafetyType
         /\ setpoint \in Int /\ prev.sched \in Int /\ farm.avail \in Int
         /\ farm.power \in MinPower .. Rated /\ farm.power \in Int
         /\ MinPower \in Nat /\ MinPower > 0 /\ Rated \in Nat
BY FarmAssumption
   DEF IInv, TypeOK, FarmType, Farms, RampType, FrType, SafetyType, PowerWithinRating

LEMMA NormalStepInvariant == ASSUME IInv, NormalStep PROVE IInv'
<1>1. PICK v \in Wanted :
        /\ setpoint' = RampLimit(setpoint, v, RampStep)
        /\ farm' = [Entered EXCEPT !.target = RampLimit(setpoint, v, RampStep),
                      !.avail = Rated,
                      !.power = Follow(Clamp(RampLimit(setpoint, v, RampStep),
                                             MinPower, farm.avail))]
  BY DEF NormalStep
<1>2. v \in Int
  BY <1>1 DEF Wanted
<1>3. RampStep \in Int
  BY ControlAssumption
<1> DEFINE w == RampLimit(setpoint, v, RampStep)
           total == Clamp(w, MinPower, farm.avail)
           p == Follow(total)
           full == Rated
<1>4. w \in Int
  BY <1>2, <1>3, StepFacts, RampLimitType
<1>5. /\ setpoint' = w
      /\ farm' = [Entered EXCEPT !.target = w, !.avail = full, !.power = p]
  BY <1>1
<1> HIDE DEF w
<1>6. total \in Int
  <2>1. MinPower \in Int /\ farm.avail \in Int
    BY StepFacts
  <2> QED BY <1>4, <2>1, ClampType
<1> HIDE DEF total
<1>7. p \in MinPower .. Rated
  BY <1>6, StepFacts, FollowBounds
<1> HIDE DEF p
<1>8. p \in Int /\ full \in 0 .. Rated
  BY <1>7, StepFacts
<1> HIDE DEF full
<1>9. FarmType' /\ farm'.power = p /\ farm'.mode = Entered.mode /\ farm'.frozen = Entered.frozen
  BY <1>4, <1>5, <1>8, EnteredFarm DEF FarmType, Farms
<1>10. StepIn(1) /\ UNCHANGED <<ramp, safety, frState>>
  BY DEF NormalStep
<1>11. settled' \in BOOLEAN
  BY DEF NormalStep, IInv, TypeOK
<1>12. RampType' /\ FrType'
  BY <1>10, StepFacts DEF RampType, FrType
<1> QED BY <1>4, <1>5, <1>7, <1>9, <1>10, <1>11, <1>12, OrdinaryStep

LEMMA DisturbanceStepInvariant == ASSUME IInv, DisturbanceStep PROVE IInv'
<1> DEFINE full == Rated
           calm == CalmWind
<1>1. /\ StepIn(2) /\ UNCHANGED <<setpoint, ramp, safety, frState>>
      /\ farm' = [Entered EXCEPT !.wind = calm, !.avail = full]
  BY DEF DisturbanceStep, strategyVars
<1>2. calm \in Int
  BY FarmAssumption
<1>3. full \in 0 .. Rated
  BY StepFacts
<1> HIDE DEF full, calm
<1>4. /\ FarmType' /\ farm'.power = farm.power
      /\ farm'.mode = Entered.mode /\ farm'.frozen = Entered.frozen
  BY <1>1, <1>2, <1>3, EnteredFarm DEF FarmType, Farms
<1>5. settled' \in BOOLEAN
  BY DEF DisturbanceStep
<1>6. RampType' /\ FrType' /\ setpoint' \in Int
  BY <1>1, StepFacts DEF RampType, FrType
<1> QED BY <1>1, <1>4, <1>5, <1>6, StepFacts, OrdinaryStep

LEMMA FrequencyStepInvariant == ASSUME IInv, FrequencyStep PROVE IInv'
<1> DEFINE full == Rated
           dev == Recovered(farm.freq)
<1>1. /\ StepIn(3) /\ UNCHANGED <<setpoint, ramp, safety>>
      /\ farm' = [Entered EXCEPT !.freq = dev, !.avail = full]
      /\ frState' = FrNext(dev)
  BY DEF FrequencyStep
<1>2. dev \in Int
  <2>1. farm.freq \in Int
    BY StepFacts DEF FarmType, Farms
  <2> QED BY <2>1 DEF Recovered
<1>3. full \in 0 .. Rated
  BY StepFacts
<1> HIDE DEF full, dev
<1>4. /\ FarmType' /\ farm'.power = farm.power
      /\ farm'.mode = Entered.mode /\ farm'.frozen = Entered.frozen
  BY <1>1, <1>2, <1>3, EnteredFarm DEF FarmType, Farms
<1>5. settled' \in BOOLEAN
  BY DEF FrequencyStep
<1>6. FrType'
  BY <1>1, StepFacts DEF FrType, FrNext
<1>7. RampType' /\ setpoint' \in Int
  BY <1>1, StepFacts DEF RampType
<1> QED BY <1>1, <1>4, <1>5, <1>6, <1>7, StepFacts, OrdinaryStep

LEMMA CurtailmentStepInvariant == ASSUME IInv, CurtailmentStep PROVE IInv'
<1> DEFINE full == Rated
           rest == Rated - prev.sched
<1>1. /\ StepIn(5) /\ UNCHANGED <<setpoint, ramp, safety, frState>>
      /\ farm' = [Entered EXCEPT !.curtail = rest, !.avail = full]
  BY DEF CurtailmentStep, strategyVars
<1>2. rest \in Int /\ full \in 0 .. Rated
  BY StepFacts
<1> HIDE DEF full, rest
<1>3. /\ FarmType' /\ farm'.power = farm.power
      /\ farm'.mode = Entered.mode /\ farm'.frozen = Entered.frozen
  BY <1>1, <1>2, EnteredFarm DEF FarmType, Farms
<1>4. settled' \in BOOLEAN
  BY DEF CurtailmentStep
<1>5. RampType' /\ FrType' /\ setpoint' \in Int
  BY <1>1, StepFacts DEF RampType, FrType
<1> QED BY <1>1, <1>3, <1>4, <1>5, StepFacts, OrdinaryStep

LEMMA RampTrackingStepInvariant == ASSUME IInv, RampTrackingStep PROVE IInv'
<1> DEFINE target == IF ramp.tracking THEN ramp.target ELSE prev.sched
           aim == target + Clamp(Share(target - farm.power), -CompensationMax, CompensationMax)
           total == Clamp(aim, 0, farm.avail)
           p == Follow(total)
           full == Rated
           left == Dist(farm.power, target) >= DoneBand
<1>1. /\ StepIn(4) /\ UNCHANGED <<setpoint, safety, frState>>
      /\ farm' = [Entered EXCEPT !.target = target, !.avail = full, !.power = p]
      /\ ramp' = [tracking |-> left, target |-> target]
  BY DEF RampTrackingStep, RampStepTo
<1>2. target \in Int
  BY StepFacts DEF RampType
<1> HIDE DEF target
<1>3. aim \in Int
  <2>1. CompensationMax \in Int
    BY ControlAssumption
  <2>2. Share(target - farm.power) \in Int
    BY <1>2, StepFacts, ShareBounds
  <2>3. Clamp(Share(target - farm.power), -CompensationMax, CompensationMax) \in Int
    BY <2>1, <2>2, ClampType
  <2> QED BY <1>2, <2>3
<1> HIDE DEF aim
<1>4. total \in Int
  <2>1. farm.avail \in Int
    BY StepFacts
  <2> QED BY <1>3, <2>1 DEF Clamp
<1> HIDE DEF total
<1>5. p \in MinPower .. Rated
  BY <1>4, StepFacts, FollowBounds
<1> HIDE DEF p
<1>6. p \in Int /\ full \in 0 .. Rated
  BY <1>5, StepFacts
<1>7. left \in BOOLEAN
  OBVIOUS
<1> HIDE DEF full, left
<1>8. FarmType' /\ farm'.power = p /\ farm'.mode = Entered.mode /\ farm'.frozen = Entered.frozen
  BY <1>1, <1>2, <1>6, EnteredFarm DEF FarmType, Farms
<1>9. settled' \in BOOLEAN
  BY DEF RampTrackingStep
<1>10. RampType' /\ FrType' /\ setpoint' \in Int
  BY <1>1, <1>2, <1>7, StepFacts DEF RampType, FrType
<1> QED BY <1>1, <1>5, <1>8, <1>9, <1>10, OrdinaryStep

-----------------------------------------------------------------------------
(* The safety strategy.                                                    *)
LEMMA SafetyFarmType ==
  ASSUME IInv, SafetyType', NEW mode \in Modes, NEW total \in Int,
         safety'.frozen => safety'.power \in MinPower .. Rated
  PROVE  LET f == SafetyFarm(mode, total)
         IN  /\ f \in Farms
             /\ f.power = Follow(total) /\ f.power \in MinPower .. Rated
             /\ f.mode = mode /\ f.extreme = farm.extreme
             /\ safety'.frozen => f.frozen = safety'.power
             /\ ~safety'.frozen => f.frozen = 0
<1> DEFINE p == Follow(total)
           held == IF safety'.frozen THEN safety'.power ELSE 0
           full == Rated
<1>1. SafetyFarm(mode, total)
        = [Entered EXCEPT !.mode = mode, !.avail = full, !.power = p, !.frozen = held]
  BY DEF SafetyFarm
<1>2. p \in MinPower .. Rated
  BY StepFacts, FollowBounds
<1>3. held \in Int
  BY StepFacts DEF SafetyType
<1>4. /\ safety'.frozen => held = safety'.power
      /\ ~safety'.frozen => held = 0
  OBVIOUS
<1>5. full \in 0 .. Rated
  BY StepFacts
<1> HIDE DEF held, full
<1>6. p = Follow(total)
  OBVIOUS
<1> HIDE DEF p
<1>7. p \in Int
  BY <1>2, StepFacts
<1> DEFINE f == SafetyFarm(mode, total)
<1>8. /\ f \in Farms
      /\ f.power = p /\ f.mode = mode /\ f.frozen = held /\ f.extreme = farm.extreme
  BY <1>1, <1>3, <1>5, <1>7, EnteredFarm DEF Farms
<1> QED BY <1>2, <1>4, <1>6, <1>8

(* What is left to show of a step of scene 6.                              *)
LEMMA SafetyStep ==
  ASSUME IInv, NEW mode \in Modes, SafetyStepIn(mode),
         FarmType', SafetyType',
         safety'.frozen => safety'.power \in MinPower .. Rated,
         farm'.power \in MinPower .. Rated, farm'.mode = mode,
         safety'.frozen => farm'.frozen = safety'.power,
         ~safety'.frozen => farm'.frozen = 0,
         mode = "COMM_LOSS_FREEZE" => safety'.frozen,
         mode = "EXTREME_WIND_AUTONOMOUS" => ~safety'.frozen
  PROVE  IInv'
<1>1. StepIn(6) /\ scene' = 6 /\ UNCHANGED <<setpoint, ramp, frState>>
  BY DEF SafetyStepIn, StepIn
<1>2. settled' \in BOOLEAN
  BY DEF SafetyStepIn
<1>3. RampType' /\ FrType' /\ setpoint' \in Int
  BY <1>1, StepFacts DEF RampType, FrType
<1>4. PowerWithinRating' /\ FreezeHeld'
  BY DEF PowerWithinRating, FreezeHeld
<1>5. SafetyModeShown'
  <2>1. MinPower \in Nat /\ MinPower > 0 /\ Rated \in Nat
    BY StepFacts
  <2> QED BY <1>1, <2>1 DEF SafetyModeShown
<1> QED BY <1>1, <1>2, <1>3, <1>4, <1>5, StepInvariant

LEMMA FreezeInvariant == ASSUME IInv, Freeze PROVE IInv'
<1>1. /\ SafetyStepIn("COMM_LOSS_FREEZE")
      /\ safety' = IF safety.frozen THEN safety
                   ELSE [safety EXCEPT !.frozen = TRUE, !.power = farm.power]
      /\ farm' = SafetyFarm("COMM_LOSS_FREEZE", safety'.power)
  BY DEF Freeze
<1>2. SafetyType' /\ safety'.frozen /\ safety'.power \in MinPower .. Rated
  <2>1. CASE safety.frozen
    BY <1>1, <2>1, StepFacts DEF SafetyType, IInv, FreezeHeld
  <2>2. CASE ~safety.frozen
    BY <1>1, <2>2, StepFacts DEF SafetyType
  <2> QED BY <2>1, <2>2
<1>3. safety'.power \in Int
  BY <1>2, StepFacts
<1>4. PICK total \in Int : total = safety'.power
  BY <1>3
<1> DEFINE mode == "COMM_LOSS_FREEZE"
           f == SafetyFarm(mode, total)
<1>5. /\ SafetyStepIn(mode) /\ farm' = f
      /\ mode \in Modes /\ mode # "EXTREME_WIND_AUTONOMOUS"
  BY <1>1, <1>4
<1> HIDE DEF mode
<1>6. /\ f \in Farms
      /\ f.power \in MinPower .. Rated /\ f.mode = mode
      /\ f.frozen = safety'.power
  BY <1>2, <1>5, SafetyFarmType
<1> HIDE DEF f
<1>7. /\ FarmType' /\ farm'.power \in MinPower .. Rated /\ farm'.mode = mode
      /\ farm'.frozen = safety'.power
  BY <1>5, <1>6 DEF FarmType, Farms
<1> QED BY <1>2, <1>5, <1>7, SafetyStep

LEMMA ExtremeWindInvariant == ASSUME IInv, ExtremeWind PROVE IInv'
<1> DEFINE mode == "EXTREME_WIND_AUTONOMOUS"
           type == WeatherType
           total == ExtremeTotal(type)
<1>1. /\ SafetyStepIn(mode)
      /\ safety' = [safety EXCEPT !.frozen = FALSE]
      /\ farm' = [SafetyFarm(mode, total) EXCEPT !.extreme = type]
      /\ mode \in Modes /\ mode # "COMM_LOSS_FREEZE"
  BY DEF ExtremeWind
<1>2. type \in Int
  <2>1. farm.extreme \in Int
    BY StepFacts DEF FarmType, Farms
  <2> QED BY <2>1 DEF WeatherType
<1>3. total \in Int
  <2>1. Rated \in Int /\ MinPower \in Int /\ \A t \in 1 .. 3 : ExtremePower[t] \in MinPower .. Rated
    BY FarmAssumption
  <2>2. CASE type \in 1 .. 3
    BY <2>1, <2>2 DEF ExtremeTotal
  <2>3. CASE type \notin 1 .. 3
    BY <2>1, <2>3 DEF ExtremeTotal
  <2> QED BY <2>2, <2>3
<1>4. SafetyType' /\ ~safety'.frozen
  BY <1>1, StepFacts DEF SafetyType
<1> HIDE DEF mode, type, total
<1> DEFINE f == SafetyFarm(mode, total)
<1>5. /\ f \in Farms
      /\ f.power \in MinPower .. Rated /\ f.mode = mode /\ f.frozen = 0
  BY <1>1, <1>3, <1>4, SafetyFarmType
<1>6. farm' = [f EXCEPT !.extreme = type]
  BY <1>1
<1> HIDE DEF f
<1>7. /\ FarmType' /\ farm'.power \in MinPower .. Rated /\ farm'.mode = mode
      /\ farm'.frozen = 0
  BY <1>2, <1>5, <1>6 DEF FarmType, Farms
<1> QED BY <1>1, <1>4, <1>7, SafetyStep

LEMMA RecoverStepInvariant == ASSUME IInv, RecoverStep PROVE IInv'
<1> DEFINE mode == "NORMAL"
           none == 0
           elapsed == safety.elapsed + 1
           current == safety.power + elapsed \div RecoveryCycles
           done == current >= prev.sched
           total == IF done THEN prev.sched ELSE current
           left == IF done THEN 0 ELSE elapsed
           frozen == ~done
           f == SafetyFarm(mode, total)
<1>1. /\ SafetyStepIn(mode) /\ safety.frozen
      /\ safety' = [safety EXCEPT !.frozen = frozen, !.elapsed = left]
      /\ farm' = [f EXCEPT !.extreme = none]
      /\ mode \in Modes /\ mode # "COMM_LOSS_FREEZE" /\ mode # "EXTREME_WIND_AUTONOMOUS"
  BY DEF RecoverStep
<1>2. elapsed \in Nat /\ safety.power \in Int
  BY StepFacts DEF SafetyType
<1> HIDE DEF elapsed
<1>3. current \in Int
  <2>1. RecoveryCycles \in Nat /\ RecoveryCycles > 0
    BY ControlAssumption
  <2>2. elapsed \div RecoveryCycles \in Int
    BY <1>2, <2>1
  <2> QED BY <1>2, <2>2
<1> HIDE DEF current
<1>4. total \in Int /\ left \in Nat /\ frozen \in BOOLEAN /\ none \in Int
  BY <1>2, <1>3, StepFacts
<1> HIDE DEF mode, none, total, left, frozen
<1>5. SafetyType' /\ safety'.power = safety.power
  BY <1>1, <1>4, StepFacts DEF SafetyType
<1>6. safety'.power \in MinPower .. Rated
  BY <1>1, <1>5 DEF IInv, FreezeHeld
<1>7. /\ f \in Farms /\ f.power \in MinPower .. Rated /\ f.mode = mode
      /\ safety'.frozen => f.frozen = safety'.power
      /\ ~safety'.frozen => f.frozen = 0
  BY <1>1, <1>4, <1>5, <1>6, SafetyFarmType
<1> HIDE DEF f
<1>8. /\ FarmType' /\ farm'.power \in MinPower .. Rated /\ farm'.mode = mode
      /\ farm'.frozen = f.frozen
  BY <1>1, <1>4, <1>7 DEF FarmType, Farms
<1> QED BY <1>1, <1>5, <1>6, <1>7, <1>8, SafetyStep

LEMMA FollowScheduleStepInvariant == ASSUME IInv, FollowScheduleStep PROVE IInv'
<1> DEFINE mode == "NORMAL"
           none == 0
           total == prev.sched
           f == SafetyFarm(mode, total)
<1>1. /\ SafetyStepIn(mode) /\ ~safety.frozen /\ safety' = safety
      /\ farm' = [f EXCEPT !.extreme = none]
      /\ mode \in Modes /\ mode # "COMM_LOSS_FREEZE" /\ mode # "EXTREME_WIND_AUTONOMOUS"
  BY DEF FollowScheduleStep
<1>2. total \in Int /\ none \in Int
  BY StepFacts
<1>3. SafetyType' /\ ~safety'.frozen
  BY <1>1, StepFacts DEF SafetyType
<1> HIDE DEF mode, none, total
<1>4. /\ f \in Farms /\ f.power \in MinPower .. Rated /\ f.mode = mode /\ f.frozen = 0
  BY <1>1, <1>2, <1>3, SafetyFarmType
<1> HIDE DEF f
<1>5. /\ FarmType' /\ farm'.power \in MinPower .. Rated /\ farm'.mode = mode
      /\ farm'.frozen = 0
  BY <1>1, <1>2, <1>4 DEF FarmType, Farms
<1> QED BY <1>1, <1>3, <1>5, SafetyStep

-----------------------------------------------------------------------------
LEMMA NextInvariant == IInv /\ [Next]_vars => IInv'
<1> SUFFICES ASSUME IInv, [Next]_vars PROVE IInv'
  OBVIOUS
<1>1. CASE ReadInput
  BY <1>1, ReadInvariant
<1>2. CASE ControlStep
  BY <1>2, NormalStepInvariant, DisturbanceStepInvariant, FrequencyStepInvariant,
     RampTrackingStepInvariant, CurtailmentStepInvariant, FreezeInvariant,
     ExtremeWindInvariant, RecoverStepInvariant, FollowScheduleStepInvariant
     DEF ControlStep
<1>3. CASE LogPoint
  BY <1>3, LogInvariant
<1>4. ASSUME NEW p \in Points, NEW v \in Inputs[p], Write(p, v) PROVE IInv'
  BY <1>4, WriteInvariant
<1>5. ASSUME NEW v \in Inputs[at], MissRead(v) PROVE IInv'
  BY <1>5, MissReadInvariant
<1>6. CASE Restart
  BY <1>6, RestartInvariant
<1>7. CASE UNCHANGED vars
  BY <1>7 DEF IInv, TypeOK, PowerWithinRating, SafetyModeShown, FreezeHeld,
              vars, memoryVars, loopVars, strategyVars
<1> QED BY <1>1, <1>2, <1>3, <1>4, <1>5, <1>6, <1>7 DEF Next, Controller, Others

THEOREM AlwaysIInv == Spec => []IInv
BY InitInvariant, NextInvariant, PTL DEF Spec

(* Every variable keeps its type: the available power never exceeds the    *)
(* rating, whatever wind is written, and no schedule that is not positive  *)
(* is ever accepted (main.cpp, UnifiedAGC::setWindSpeed).                  *)
THEOREM ControllerTypeCorrect == Spec => []TypeOK
BY AlwaysIInv, PTL DEF IInv

(* The farm stays between its technical minimum and its rating, for every  *)
(* farm, every set of inputs and any number of writes and restarts.        *)
THEOREM FarmPowerWithinRating == Spec => []PowerWithinRating
BY AlwaysIInv, PTL DEF IInv

(* What the operators are shown agrees with the scene.                     *)
THEOREM SafetyModeIsShown == Spec => []SafetyModeShown
BY AlwaysIInv, PTL DEF IInv

-----------------------------------------------------------------------------
(* A farm that follows a command comes no further away from it.            *)
LEMMA FollowApproaches ==
  ASSUME NEW total \in MinPower .. Rated, farm.power \in MinPower .. Rated
  PROVE  Dist(Follow(total), total) <= Dist(farm.power, total)
<1>1. MinPower \in Int /\ Rated \in Int
  BY FarmAssumption
<1>2. total \in Int /\ farm.power \in Int /\ Command(total) = total
  BY <1>1, CommandBounds
<1> DEFINE d == total - farm.power
<1>3. d \in Int
  BY <1>2
<1>4. /\ Share(d) \in Int
      /\ d >= 0 => Share(d) >= 0 /\ Share(d) <= d
      /\ d <= 0 => Share(d) <= 0 /\ Share(d) >= d
  BY <1>3, ShareBounds
<1>5. Follow(total) = farm.power + Share(d)
  BY <1>2 DEF Follow
<1> QED BY <1>2, <1>4, <1>5 DEF Dist

(* A control step of another scene ends a freeze.                          *)
LEMMA FreezeEnds ==
  ASSUME IInv, NEW s \in 1 .. 5, StepIn(s), farm.mode = "COMM_LOSS_FREEZE"
  PROVE  Entered.mode = "NORMAL"
<1>1. scene = 6
  BY DEF IInv, SafetyModeShown
<1>2. Scene # scene
  BY <1>1 DEF StepIn
<1> QED BY <1>2, EnteredFarm

(* While the freeze lasts, only Freeze moves the farm.                     *)
LEMMA OnlyFreezeInFreeze ==
  ASSUME IInv, ControlStep, farm.mode = "COMM_LOSS_FREEZE", farm'.mode = "COMM_LOSS_FREEZE"
  PROVE  Freeze
<1>0. Entered \in Farms
  BY EnteredFarm
<1>1. CASE NormalStep
  <2>1. StepIn(1) /\ farm'.mode = Entered.mode
    BY <1>0, <1>1 DEF NormalStep, Farms
  <2> QED BY <2>1, FreezeEnds
<1>2. CASE DisturbanceStep
  <2>1. StepIn(2) /\ farm'.mode = Entered.mode
    BY <1>0, <1>2 DEF DisturbanceStep, Farms
  <2> QED BY <2>1, FreezeEnds
<1>3. CASE FrequencyStep
  <2>1. StepIn(3) /\ farm'.mode = Entered.mode
    BY <1>0, <1>3 DEF FrequencyStep, Farms
  <2> QED BY <2>1, FreezeEnds
<1>4. CASE RampTrackingStep
  <2>1. StepIn(4) /\ farm'.mode = Entered.mode
    BY <1>0, <1>4 DEF RampTrackingStep, RampStepTo, Farms
  <2> QED BY <2>1, FreezeEnds
<1>5. CASE CurtailmentStep
  <2>1. StepIn(5) /\ farm'.mode = Entered.mode
    BY <1>0, <1>5 DEF CurtailmentStep, Farms
  <2> QED BY <2>1, FreezeEnds
<1>6. CASE ExtremeWind
  <2>1. farm'.mode = "EXTREME_WIND_AUTONOMOUS"
    BY <1>0, <1>6 DEF ExtremeWind, SafetyFarm, Farms
  <2> QED BY <2>1
<1>7. CASE RecoverStep \/ FollowScheduleStep
  <2>1. farm'.mode = "NORMAL"
    BY <1>0, <1>7 DEF RecoverStep, FollowScheduleStep, SafetyFarm, Farms
  <2> QED BY <2>1
<1> QED BY <1>1, <1>2, <1>3, <1>4, <1>5, <1>6, <1>7 DEF ControlStep

LEMMA FreezeHolds ==
  ASSUME IInv, Freeze, farm.mode = "COMM_LOSS_FREEZE"
  PROVE  /\ farm'.frozen = farm.frozen
         /\ Dist(farm'.power, farm.frozen) <= Dist(farm.power, farm.frozen)
<1>1. safety.frozen /\ farm.frozen = safety.power /\ safety.power \in MinPower .. Rated
  BY DEF IInv, FreezeHeld
<1>2. safety' = safety /\ farm' = SafetyFarm("COMM_LOSS_FREEZE", safety.power)
  BY <1>1 DEF Freeze
<1>3. Entered \in Farms
  BY EnteredFarm
<1>4. farm'.frozen = safety.power /\ farm'.power = Follow(safety.power)
  BY <1>1, <1>2, <1>3 DEF SafetyFarm, Farms
<1>5. Dist(Follow(safety.power), safety.power) <= Dist(farm.power, safety.power)
  BY <1>1, StepFacts, FollowApproaches
<1> QED BY <1>1, <1>4, <1>5

(* During an outage the frozen power is one number and the farm only comes *)
(* closer to it (StrategySafety::step), whatever is written meanwhile.     *)
THEOREM FreezeHoldsPower == Spec => FrozenPowerHeld
<1> DEFINE A == farm.mode = "COMM_LOSS_FREEZE" /\ farm'.mode = "COMM_LOSS_FREEZE"
                  => /\ farm'.frozen = farm.frozen
                     /\ Dist(farm'.power, farm.frozen) <= Dist(farm.power, farm.frozen)
<1>1. IInv /\ [Next]_vars => [A]_vars
  <2> SUFFICES ASSUME IInv, Next, farm.mode = "COMM_LOSS_FREEZE",
                      farm'.mode = "COMM_LOSS_FREEZE"
               PROVE  /\ farm'.frozen = farm.frozen
                      /\ Dist(farm'.power, farm.frozen) <= Dist(farm.power, farm.frozen)
    OBVIOUS
  <2>1. CASE farm'.frozen = farm.frozen /\ farm'.power = farm.power
    <3>1. farm.power \in Int /\ farm.frozen \in Int
      BY DEF IInv, TypeOK, Farms
    <3> QED BY <2>1, <3>1 DEF Dist
  <2>2. CASE ReadInput
    BY <2>1, <2>2, AcceptedFarm
  <2>3. CASE ControlStep
    BY <2>3, OnlyFreezeInFreeze, FreezeHolds
  <2>4. CASE farm' = farm
    BY <2>1, <2>4
  <2>5. CASE Restart
    BY <2>5 DEF Restart, InitialFarm
  <2> QED BY <2>2, <2>3, <2>4, <2>5 DEF Next, Controller, Others, LogPoint, Write, MissRead
<1>2. Spec => [][A]_vars
  BY <1>1, AlwaysIInv, PTL DEF Spec
<1> QED BY <1>2 DEF FrozenPowerHeld

-----------------------------------------------------------------------------
(* No control step ends extreme weather.                                   *)
LEMMA StepsKeepWeather ==
  ASSUME IInv, ControlStep, farm.extreme # 0
  PROVE  farm'.extreme # 0
<1>0. Entered \in Farms /\ Entered.extreme = farm.extreme
  BY EnteredFarm
<1>1. CASE NormalStep
  BY <1>0, <1>1 DEF NormalStep, Farms
<1>2. CASE DisturbanceStep
  BY <1>0, <1>2 DEF DisturbanceStep, Farms
<1>3. CASE FrequencyStep
  BY <1>0, <1>3 DEF FrequencyStep, Farms
<1>4. CASE RampTrackingStep
  BY <1>0, <1>4 DEF RampTrackingStep, RampStepTo, Farms
<1>5. CASE CurtailmentStep
  BY <1>0, <1>5 DEF CurtailmentStep, Farms
<1>6. CASE Freeze
  BY <1>0, <1>6 DEF Freeze, SafetyFarm, Farms
<1>7. CASE ExtremeWind
  BY <1>0, <1>7 DEF ExtremeWind, SafetyFarm, Farms, WeatherType
<1>8. CASE RecoverStep \/ FollowScheduleStep
  BY <1>8 DEF RecoverStep, FollowScheduleStep, SafetyStepIn, SafetyMode
<1> QED BY <1>1, <1>2, <1>3, <1>4, <1>5, <1>6, <1>7, <1>8 DEF ControlStep

(* Of the inputs, only the weather's own point can end it.                 *)
LEMMA ReadsKeepWeather ==
  ASSUME IInv, ReadInput, farm.extreme # 0, farm'.extreme = 0
  PROVE  phase = "read" /\ at = "extreme" /\ point["extreme"] <= 0
<1>0. farm \in Farms /\ point["extreme"] \in Int
  BY DEF IInv, TypeOK
<1>1. CASE ReadFrequency \/ ReadWind \/ ReadComm \/ ReadCurtail \/ ReadSchedule
  BY <1>0, <1>1 DEF ReadFrequency, ReadWind, ReadComm, ReadCurtail, ReadSchedule, Accept, Farms
<1>2. CASE ReadExtreme
  <2>1. phase = "read" /\ at = "extreme"
    BY <1>2 DEF ReadExtreme, Accept
  <2>2. CASE point["extreme"] > 0
    BY <1>0, <1>2, <2>2 DEF ReadExtreme, Accept, Farms
  <2> QED BY <1>0, <2>1, <2>2
<1> QED BY <1>1, <1>2 DEF ReadInput

(* Extreme weather, once recognised, ends when somebody clears it or with  *)
(* the process, never because the wind calmed down (UnifiedAGC.cpp:108-114 *)
(* and the sub-mode of StrategySafety).                                    *)
THEOREM ExtremeWeatherIsLatched == Spec => ExtremeEndsByCommand
<1> DEFINE A == farm.extreme # 0 /\ farm'.extreme = 0
                  => \/ phase = "read" /\ at = "extreme" /\ point["extreme"] <= 0
                     \/ writes' # writes
<1>1. IInv /\ [Next]_vars => [A]_vars
  <2> SUFFICES ASSUME IInv, Next, farm.extreme # 0, farm'.extreme = 0, writes' = writes
               PROVE  phase = "read" /\ at = "extreme" /\ point["extreme"] <= 0
    OBVIOUS
  <2>1. writes \in Int
    BY DEF IInv, TypeOK
  <2>2. CASE ReadInput
    BY <2>2, ReadsKeepWeather
  <2>3. CASE ControlStep
    BY <2>3, StepsKeepWeather
  <2>4. CASE Restart
    BY <2>1, <2>4 DEF Restart
  <2>5. CASE farm' = farm
    BY <2>5
  <2> QED BY <2>2, <2>3, <2>4, <2>5 DEF Next, Controller, Others, LogPoint, Write, MissRead
<1>2. Spec => [][A]_vars
  BY <1>1, AlwaysIInv, PTL DEF Spec
<1> QED BY <1>2 DEF ExtremeEndsByCommand
=============================================================================
