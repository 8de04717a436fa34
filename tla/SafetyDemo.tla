----------------------------- MODULE SafetyDemo -----------------------------
(* The stand-alone demonstration of the safety mode, 50 steps of 2 s with a  *)
(* loss of communication and three storms on a fixed timetable               *)
(* (src/archive/scenes/scene6_safety, the program of the subdirectory).      *)
(* Powers are in 0.01 MW.  The uniform fluctuation of a step is drawn from   *)
(* MoGusts and, as a bound, held for five steps; a step lasts exactly the    *)
(* two seconds the program sleeps.                                           *)
EXTENDS Integers, Sequences

CONSTANT MoGusts        \* values of ((rand() % 100) - 50) / 100.0

ASSUME DemoAssumption == MoGusts \subseteq -50..49

VARIABLES mStep, mPower, mSchedule, mComm, mWeather, mMode, mFrozen,
          mRecovery, mIntegral,
          mProxy,       \* the ramp rate and command last passed on
          mGust
demoVars == <<mStep, mPower, mSchedule, mComm, mWeather, mMode, mFrozen,
              mRecovery, mIntegral, mProxy, mGust>>

MoRated == 10000
MoLesser(a, b) == IF a < b THEN a ELSE b
MoGreater(a, b) == IF a < b THEN b ELSE a
MoAbs(x) == IF x < 0 THEN -x ELSE x
MoClamp(x, lo, hi) == MoGreater(lo, MoLesser(hi, x))

\* 50 MW plus a sine of 10 MW whose period is forty steps.
QuarterSine == <<0, 156, 309, 454, 588, 707, 809, 891, 951, 988, 1000>>
MoSchedule(step) ==
  LET k == step % 20
      s == QuarterSine[(IF k <= 10 THEN k ELSE 20 - k) + 1]
  IN  IF step % 40 < 20 THEN 5000 + s ELSE 5000 - s

\* The timetable of the demonstration.
CommAfterEvents == CASE mStep = 2 -> FALSE [] mStep = 7 -> TRUE [] OTHER -> mComm
WeatherAfterEvents ==
  CASE mStep = 12 -> [on |-> TRUE, wind |-> 23, turb |-> 20]
    [] mStep = 17 -> [on |-> TRUE, wind |-> 18, turb |-> 30]
    [] mStep = 22 -> [on |-> TRUE, wind |-> 26, turb |-> 20]
    [] mStep = 27 -> [on |-> FALSE, wind |-> 12, turb |-> 15]
    [] OTHER -> mWeather

MoModeOf(comm, extreme) == IF ~ comm THEN "freeze"
                           ELSE IF extreme THEN "extreme" ELSE "normal"
MoFrozenAfter(next) == IF next # mMode /\ next = "freeze" THEN mPower ELSE mFrozen

\* Mutant: the callback starts no recovery.
NoRecovery(next) == mRecovery
\* The callback of a mode change starts a recovery when a freeze ends.
MoRecoveryAfter(next) ==
  IF mMode = "freeze" /\ next = "normal" /\ ~ mRecovery.on
  THEN [on |-> TRUE, start |-> mPower, target |-> MoSchedule(mStep), since |-> mStep]
  ELSE mRecovery

\* RecoveryCoordinator::update, with the seconds since its start.
MoElapsed(r) == 2 * (mStep - r.since)
MoRecovered(r, schedule) == MoAbs(mPower - schedule) <= 50 /\ MoElapsed(r) >= 5
MoExpected(r) ==
  LET change == (200 * MoElapsed(r)) \div 60
  IN  r.start + MoClamp(r.target - r.start, -change, change)

\* What the turbines do on their own in a storm, before the fluctuation.
MoCut(sub) ==
  CASE sub = "cut_out" ->
         MoGreater(0, mPower - MoGreater((mPower * 30) \div 100, 200))
    [] sub = "high_turb" -> mPower - (mPower * 15) \div 100
    [] sub = "storm_ride" ->
         IF mPower > MoRated \div 10
         THEN MoGreater(mPower - (mPower * 25) \div 100, MoRated \div 10) ELSE mPower
MoSub(w) == IF w.wind >= 25 THEN "cut_out"
            ELSE IF w.turb >= 25 THEN "high_turb" ELSE "storm_ride"

\* LocalControllerProxy keeps the last limit and command that differ.
MoPassedOn(mode) ==
  CASE mode = "normal" -> [ramp |-> 10, cmd |-> "normal"]
    [] mode = "freeze" -> [ramp |-> 1, cmd |-> "frozen"]
    [] mode = "extreme" -> [ramp |-> 1, cmd |-> "autonomous"]

MoInit ==
  /\ mStep = 0
  /\ mPower = MoSchedule(0)
  /\ mSchedule = MoSchedule(0)
  /\ mComm = TRUE
  /\ mWeather = [on |-> FALSE, wind |-> 0, turb |-> 0]
  /\ mMode = "normal"
  /\ mFrozen = 0
  /\ mRecovery = [on |-> FALSE, start |-> 0, target |-> 0, since |-> 0]
  /\ mIntegral = 0
  /\ mProxy = [ramp |-> -1, cmd |-> ""]
  /\ mGust = 0

\* One step of the main loop.
MoStep ==
  LET comm == CommAfterEvents
      weather == WeatherAfterEvents
      schedule == IF mRecovery.on THEN mSchedule ELSE MoSchedule(mStep)
      mode == MoModeOf(comm, weather.on)
      frozen == MoFrozenAfter(mode)
      recovery == MoRecoveryAfter(mode)
      target == IF recovery.on /\ ~ MoRecovered(recovery, schedule)
                THEN MoExpected(recovery) ELSE schedule
      err == target - mPower
      integral == MoClamp(mIntegral + 2 * err, -500, 500)
      output == MoClamp(err + integral \div 10, -300, 300)
  IN
  /\ mStep < 50
  /\ mComm' = comm /\ mWeather' = weather /\ mSchedule' = schedule
  /\ mMode' = mode /\ mFrozen' = frozen
  /\ mProxy' = MoPassedOn(mode)
  /\ mRecovery' = IF mode = "normal" /\ recovery.on
                  THEN [recovery EXCEPT !.on = ~ MoRecovered(recovery, schedule)]
                  ELSE recovery
  /\ mIntegral' = IF mode = "normal" THEN integral ELSE mIntegral
  /\ \E gust \in IF mStep % 5 = 0 THEN MoGusts ELSE {mGust} :
       /\ mGust' = gust
       /\ mPower' = MoClamp(CASE mode = "normal" -> mPower + output + gust
                              [] mode = "freeze" -> mPower + (3 * gust) \div 10
                              [] mode = "extreme" ->
                                   MoCut(MoSub(weather)) + (3 * gust) \div 10,
                            0, MoRated)
  /\ mStep' = mStep + 1

MoNext == MoStep
MoSpec == MoInit /\ [][MoNext]_demoVars

-----------------------------------------------------------------------------
MoTypeOK ==
  /\ mStep \in 0..50
  /\ mPower \in 0..MoRated
  /\ mIntegral \in -500..500
  /\ mMode \in {"normal", "freeze", "extreme"}

\* The field comes back from a loss of communication along the ramp of the
\* recovery, 2 MW per minute from the frozen power, not along the schedule that
\* moved on by 6 MW meanwhile: until the first storm it leaves that ramp only by
\* the drift of the freeze (0.75 MW), the integral (0.5 MW) and the fluctuation
\* (0.5 MW) (the callback at line 246, the freeze at line 46 and the loop at
\* lines 313-320 and 371-383).
MoReturnFollowsRamp ==
  mStep \in 8..12 =>
    MoAbs(mPower - mFrozen) <= 180 + (400 * (mStep - 7)) \div 60
=============================================================================
