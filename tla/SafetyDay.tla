------------------------------ MODULE SafetyDay ------------------------------
(* The archived program of scene 6: a day of 1440 one-minute steps in which   *)
(* the communication fails twice and three storms pass                        *)
(* (src/archive/scenes/scene6_safety/main.cpp and its headers).               *)
(* Powers are in 0.01 MW, elapsed time in minutes, wind in 1 m/s, turbulence  *)
(* in 0.01.  The uniform noise of the regulation step is drawn from           *)
(* DayNoises and, as a bound, held for DayHold minutes.                       *)
EXTENDS Integers, Sequences

CONSTANTS DayNoises,    \* values of ((rand() % 100) - 50) * 0.02f
          DayHold       \* minutes for which a noise value is held

ASSUME DayAssumption == DayNoises \subseteq -100..98

VARIABLES dStep, dPower, dFrozen, dMode, dWeather, dRecovery, dFans,
          dLast,        \* lastCurtailMode and lastSafetyMode
          dShm,         \* what logState last wrote
          dNoise
dayVars == <<dStep, dPower, dFrozen, dMode, dWeather, dRecovery, dFans,
             dLast, dShm, dNoise>>

DayRated == 4000
DayMinStop == 10        \* MIN_STOP_SEC, in minutes
DayRampRate == 200      \* 0.01 MW per minute
HourWindFactor == <<40, 35, 30, 30, 35, 45, 60, 75, 90, 100, 110, 120, 120,
                    115, 110, 100, 90, 80, 70, 60, 55, 50, 45, 40>>

DayLesser(a, b) == IF a < b THEN a ELSE b
DayGreater(a, b) == IF a < b THEN b ELSE a
DayAbs(x) == IF x < 0 THEN -x ELSE x
DayClamp(x, lo, hi) == DayGreater(lo, DayLesser(hi, x))

SchedulePower(hour) == (DayRated * HourWindFactor[hour + 1]) \div 100
CurtailModeAt(hour) == IF hour <= 6 THEN "part_run"
                       ELSE IF hour <= 17 THEN "uniform" ELSE "rotor"
CurtailRatio(hour) == IF hour <= 6 THEN 30 ELSE IF hour <= 12 THEN 15
                      ELSE IF hour <= 17 THEN 10 ELSE 20
CommHealthy(hour, minute) == ~ (hour \in {3, 15} /\ minute < 30)

\* The storm of the minute, or the calm.
StormAt(hour, minute) ==
  IF hour = 11 THEN [on |-> TRUE, wind |-> 22, turb |-> 20]
  ELSE IF hour = 14 /\ minute < 30 THEN [on |-> TRUE, wind |-> 18, turb |-> 30]
  ELSE IF hour = 17 /\ minute < 30 THEN [on |-> TRUE, wind |-> 26, turb |-> 20]
  ELSE [on |-> FALSE, wind |-> 12, turb |-> 15]

\* forceSet: a storm is taken over only at a full half hour, its end at once.
Weathered(storm) ==
  IF storm.on /\ dStep % 30 # 0 THEN dWeather ELSE storm
SubType(w) == IF ~ w.on THEN "none" ELSE IF w.wind >= 25 THEN "cut_out"
              ELSE IF w.turb >= 25 THEN "high_turb" ELSE "storm_ride"

SafeMode(comm, extreme) == IF ~ comm THEN "freeze"
                           ELSE IF extreme THEN "extreme" ELSE "normal"

\* The callback of a mode change, before the frozen power is taken.
RecoveryAfterChange(next, hour) ==
  IF dMode = "freeze" /\ next = "normal" /\ ~ dRecovery.on
  THEN [on |-> TRUE, start |-> dPower, target |-> SchedulePower(hour),
        elapsed |-> 0]
  ELSE dRecovery
\* Mutant: the frozen power is taken again in every step of the freeze.
FrozenRetaken(next) == IF next = "freeze" THEN dPower ELSE dFrozen
FrozenAfterChange(next) ==
  IF next # dMode /\ next = "freeze" THEN dPower ELSE dFrozen

ExtremeCut(sub, turb) ==
  CASE sub = "cut_out" -> (dPower * 70) \div 100
    [] sub = "high_turb" -> (dPower * (2500 - 15 * turb)) \div 2500
    [] sub = "storm_ride" ->
         DayGreater((dPower * 75) \div 100, DayRated \div 10)
    [] OTHER -> dPower

\* getTarget of a recovery in progress: its next record and the target.
RecoveryDone(r, schedule) == DayAbs(dPower - schedule) <= 50 /\ r.elapsed >= 1
RecoveryTarget(r, schedule) ==
  LET delta == r.target - r.start
      moved == DayLesser(DayAbs(delta), DayRampRate * r.elapsed)
  IN  IF RecoveryDone(r, schedule) THEN schedule
      ELSE IF delta > 0 THEN r.start + moved ELSE r.start - moved

\* fan_sort: efficient upwind turbines come first, by exchanges of i < j.
\* Mutant: the comparison of the exchange is turned round.
DayPriorityTurned(f) == IF f.best THEN 0 ELSE 1
DayPriority(f) == IF f.best THEN 1 ELSE 0
FanSort(fans) ==
  LET Sorted[n \in 0..64] ==
        IF n = 0 THEN fans
        ELSE LET s == Sorted[n - 1]
                 i == ((n - 1) \div 8) + 1
                 j == ((n - 1) % 8) + 1
             IN  IF i < j /\ DayPriority(s[j]) > DayPriority(s[i])
                 THEN [s EXCEPT ![i] = s[j], ![j] = s[i]] ELSE s
  IN  Sorted[64]

\* fan_execute_mode: sort, then set every turbine's power (percent of its
\* rating) and status; the stop time it stores is always 0.
FansInMode(fans, mode, ratio) ==
  LET s == FanSort(fans)
      keep == (8 * (100 - ratio)) \div 100
  IN  [i \in 1..8 |->
        CASE mode = "uniform" ->
               [s[i] EXCEPT !.power = 100 - ratio, !.status = "uniform"]
          [] mode = "part_run" /\ i <= keep ->
               [s[i] EXCEPT !.power = 100, !.status = "mppt"]
          [] mode = "part_run" /\ i > keep ->
               [s[i] EXCEPT !.power = 0, !.status = "locked", !.stopped = 0]
          [] mode = "rotor" ->
               [s[i] EXCEPT !.power = 70, !.status = "speed"]]

FansRestarted(fans) ==
  [i \in 1..8 |->
    IF fans[i].status = "locked" /\ dStep - fans[i].stopped >= DayMinStop
    THEN [fans[i] EXCEPT !.power = 100, !.status = "mppt"] ELSE fans[i]]

\* What the field is asked for in the minute, and the field after it.
DayTarget(mode, frozen, recovery, schedule, weather, turb) ==
  CASE mode = "freeze"                  -> frozen
    [] mode = "extreme"                 -> ExtremeCut(SubType(weather), turb)
    [] mode = "normal" /\ recovery.on   -> RecoveryTarget(recovery, schedule)
    [] mode = "normal" /\ ~ recovery.on -> schedule
PowerAfter(target, noise) ==
  DayClamp(dPower + DayClamp((3 * (target - dPower)) \div 10 + noise, -300, 300),
           0, DayRated)

\* The points that logState writes, the ones a property could compare.
DayLogged(mode, weather, comm, frozen) ==
  [step |-> dStep, mode |-> mode, sub |-> SubType(weather), comm |-> comm,
   frozen |-> frozen]

DayInit ==
  /\ dStep = 0
  /\ dPower = DayRated
  /\ dFrozen = 0
  /\ dMode = "normal"
  /\ dWeather = [on |-> FALSE, wind |-> 12, turb |-> 15]
  /\ dRecovery = [on |-> FALSE, start |-> 0, target |-> 0, elapsed |-> 0]
  /\ dFans = [i \in 1..8 |-> [id |-> i, best |-> i \in {3, 4}, power |-> 100,
                              status |-> "mppt", stopped |-> 0]]
  /\ dLast = [curtail |-> "uniform", safety |-> "normal"]
  /\ dShm = [step |-> -1]
  /\ dNoise = 0

\* One minute of the main loop, in the order of the code.
DayTick ==
  LET hour == dStep \div 60
      minute == dStep % 60
      schedule == SchedulePower(hour)
      curtail == CurtailModeAt(hour)
      comm == CommHealthy(hour, minute)
      storm == StormAt(hour, minute)
      weather == Weathered(storm)
      mode == SafeMode(comm, weather.on)
      changed == RecoveryAfterChange(mode, hour)
      frozen == FrozenAfterChange(mode)
      aged == [changed EXCEPT !.elapsed = @ + 1]
      target == DayTarget(mode, frozen, aged, schedule, weather, storm.turb)
      switched == curtail # dLast.curtail \/ mode # dLast.safety
      fans == IF switched THEN FansInMode(dFans, curtail, CurtailRatio(hour))
              ELSE dFans
  IN
  /\ dStep < 1440
  /\ \E noise \in IF dStep % DayHold = 0 THEN DayNoises ELSE {dNoise} :
       /\ dNoise' = noise
       /\ dPower' = PowerAfter(target, noise)
  /\ dWeather' = weather
  /\ dMode' = mode
  /\ dFrozen' = frozen
  /\ dRecovery' = IF mode = "normal" /\ changed.on
                  THEN [aged EXCEPT !.on = ~ RecoveryDone(aged, schedule)]
                  ELSE changed
  /\ dLast' = IF switched THEN [curtail |-> curtail, safety |-> mode] ELSE dLast
  /\ dFans' = IF curtail # "part_run" THEN FansRestarted(fans) ELSE fans
  /\ dShm' = IF dStep % 2 = 0 THEN DayLogged(mode, weather, comm, frozen) ELSE dShm
  /\ dStep' = dStep + 1

DayNext == DayTick
DaySpec == DayInit /\ [][DayNext]_dayVars

-----------------------------------------------------------------------------
DayTypeOK ==
  /\ dStep \in 0..1440
  /\ dPower \in 0..DayRated
  /\ dFrozen \in 0..DayRated
  /\ dMode \in {"normal", "freeze", "extreme"}
  /\ dRecovery.on \in BOOLEAN
  /\ dRecovery.elapsed \in 0..1440

\* While the communication is lost the target stays at the power the field had
\* when it failed, and the field stays near it: the noise of a minute, 1 MW,
\* divided by the gain of the regulation, 0.3 (safety_manager.h:21-26,
\* main.cpp:112, 141).
DayFreezeHoldsPower ==
  [][dMode' = "freeze" =>
       /\ dFrozen' = IF dMode = "freeze" THEN dFrozen ELSE dPower
       /\ DayAbs(dPower' - dFrozen') <= 340]_dayVars

\* Part running stops turbines only while every efficient upwind turbine runs:
\* the exchanges of fan_sort, repeated at each mode change, never leave one of
\* them behind (fan_control.h:21-50).
DayBestTurbinesRun ==
  (\E i \in 1..8 : dFans[i].status = "locked") =>
    \A i \in 1..8 : dFans[i].best => dFans[i].status = "mppt"
=============================================================================
