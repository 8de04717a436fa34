-------------------------- MODULE ConditionDetector --------------------------
(***************************************************************************)
(* The decision that selects one of the six control scenes in each cycle   *)
(* (ConditionDetector::detect) and what it remembers from one cycle to the *)
(* next.  The controller only issues STEP commands and never changes the   *)
(* turbulence, so the command is its target and turbulence is left out.    *)
(***************************************************************************)
EXTENDS Integers

CONSTANTS
  CutOutWind,      \* cutOutWindSpeed
  FreqDeadband,    \* freqDeadbandHz, a deviation from the nominal frequency
  WindStep,        \* windFluctuationThreshold
  CurtailLimit,    \* curtailRatioThreshold, as curtailed power
  EnterBand,       \* rampDetectionThreshold
  ExitBand         \* the distance from the target that ends ramp tracking

ASSUME DetectorAssumption ==
  /\ CutOutWind \in Nat /\ FreqDeadband \in Nat /\ WindStep \in Nat
  /\ CurtailLimit \in Int /\ EnterBand \in Nat /\ ExitBand \in Nat
  /\ ExitBand <= EnterBand

Dist(a, b) == IF a >= b THEN a - b ELSE b - a

Unsafe(farm) ==
  \/ farm.comm = 0
  \/ farm.extreme # 0
  \/ farm.wind >= CutOutWind

OffFrequency(farm) == Dist(farm.freq, 0) > FreqDeadband

Gust(farm, det) == Dist(farm.wind, det.lastWind) > WindStep

Curtailed(farm) == farm.curtail >= CurtailLimit

(* Entered when the target is further than EnterBand away, kept until it   *)
(* is within ExitBand.                                                     *)
Ramping(farm, det, target) ==
  LET delta == Dist(target, farm.power)
  IN  (det.rampActive \/ delta > EnterBand) /\ delta > ExitBand

SceneOf(farm, det, target) ==
  IF Unsafe(farm) THEN 6
  ELSE IF OffFrequency(farm) THEN 3
  ELSE IF Gust(farm, det) THEN 2
  ELSE IF Curtailed(farm) THEN 5
  ELSE IF Ramping(farm, det, target) THEN 4
  ELSE 1

(* Mutant: the wind of a gust is not remembered.                           *)
RememberCalm(farm, det, target) ==
  LET scene == SceneOf(farm, det, target)
  IN  CASE scene \in {2, 3, 6} -> det
        [] scene = 5 -> [det EXCEPT !.lastWind = farm.wind]
        [] scene \in {1, 4} -> [lastWind |-> farm.wind, rampActive |-> scene = 4]

(* A test of higher priority that succeeds leaves the memory of the lower  *)
(* ones as it was.                                                         *)
Remember(farm, det, target) ==
  LET scene == SceneOf(farm, det, target)
  IN  CASE scene \in {3, 6} -> det
        [] scene \in {2, 5} -> [det EXCEPT !.lastWind = farm.wind]
        [] scene \in {1, 4} -> [lastWind |-> farm.wind, rampActive |-> scene = 4]
=============================================================================
