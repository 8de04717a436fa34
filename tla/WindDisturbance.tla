--------------------------- MODULE WindDisturbance ----------------------------
(* The archived program of scene 2: four equal turbines of 2.5 MW ride through *)
(* a rising or a falling wind; one of them stands for the four.  Powers are in *)
(* W, pitch in millionths of a degree, rotor speed in 0.01 rpm, wind in 0.1    *)
(* m/s.  A turn of the loop is one second of wind but 0.05 s of control.  The  *)
(* two sines of the wind are a value of a small set, held for ten seconds.     *)
EXTENDS Integers

CONSTANT WdNoises       \* what the sines may add, in 0.1 m/s

ASSUME WdNoisesAssumption == WdNoises \subseteq Int

VARIABLES wdScene,      \* "rise" or "drop"
          wdTime, wdNoise, wdWind,
          wdMode,       \* "ECO" or "SUPPRESS"
          wdWarned, wdStable,
          wdPitch, wdRotor, wdPower,
          wdPitchPid, wdRotorPid,
          wdWorst,      \* the largest fluctuation
          wdShm
wdTurbine == <<wdPitch, wdRotor, wdPower, wdPitchPid, wdRotorPid>>
wdVars == <<wdScene, wdTime, wdNoise, wdWind, wdMode, wdWarned, wdStable, wdTurbine,
            wdWorst, wdShm>>

WdClamp(x, lo, hi) == IF x < lo THEN lo ELSE IF x > hi THEN hi ELSE x
WdAbs(x) == IF x < 0 THEN -x ELSE x
WdMax(a, b) == IF a < b THEN b ELSE a
WdTarget == 2500000
WdMaxPitch == 8000000

\* wind(): calm, the disturbance, ten seconds of change, calm again.
WdWindAt(t, noise) ==
  CASE t < 20 -> 120
    [] t >= 20 /\ t < 80 -> (IF wdScene = "rise" THEN 135 ELSE 105) + noise
    [] t >= 80 /\ t < 90 -> IF wdScene = "rise" THEN 140 - 2 * (t - 80)
                            ELSE 100 + 2 * (t - 80)
    [] OTHER -> 120

\* calcMaxPower and calcActualPower: a pitch of 8 degrees costs 22 %, of which
\* at most 20 % is counted; the rotor counts by its speed, at least 95 %.
WdMaxPower(wind) ==
  IF wind < 30 THEN 0
  ELSE IF wind >= 120 THEN 2500
  ELSE (2500 * ((wind * wind * wind) \div 100)) \div 17280
WdPowerOf(wind, pitch, rotor) ==
  LET pitchEff == WdClamp(100000 - pitch \div 363, 80000, 100000)
      pitched == (WdMaxPower(wind) * pitchEff) \div 100
      rotorEff == WdClamp(rotor \div 10, 17100, 18000)
  IN  WdClamp(((pitched \div 100) * rotorEff) \div 180, 0, WdTarget)

\* PIDController::compute at dt = 0.05 s; the gains are in hundredths, the
\* error's unit is 1/scale.
WdPid(pid, error, kp, ki, kd, scale, limit) ==
  LET integral == WdClamp(pid.integral + error \div 20, -3 * scale, 3 * scale)
      out == (kp * error + ki * integral + kd * 20 * (error - pid.error)) \div 100
  IN  [integral |-> integral, error |-> error, out |-> WdClamp(out, -limit, limit)]

\* setTarget and execute of one turbine, from a pitch and a rotor speed.
WdExecute(wind, pitch, rotor, power) ==
  LET pitchPid == WdPid(wdPitchPid, WdTarget - power, 180, 6, 4, 1000000, 500000)
      newPitch == WdClamp(pitch + WdClamp(pitchPid.out \div 4, -15000, 15000),
                          0, WdMaxPitch)
      setpoint == IF wind > 130 THEN 179000 ELSE 180000
      rotorPid == WdPid(wdRotorPid, setpoint - rotor, 1000, 20, 10, 100, 2500)
      newRotor == WdClamp(rotor + rotorPid.out \div 20, 175000, 180000)
  IN  [pitch |-> newPitch, rotor |-> newRotor,
       power |-> WdPowerOf(wind, newPitch, newRotor),
       pitchPid |-> pitchPid, rotorPid |-> rotorPid]

\* preFluct: 0.3 degrees of pitch ahead of the disturbance.
WdPrepared(wind) ==
  LET pitch == WdClamp(wdPitch + 300000, 0, 1000000) IN
  [pitch |-> pitch, rotor |-> wdRotor, power |-> WdPowerOf(wind, pitch, wdRotor)]

\* Mutant: the smoothing gives back a hundredth of a degree.
WdResetSlowly(wind, was) ==
  LET pitch == WdClamp(was.pitch - 10000, 0, WdMaxPitch) IN
  [pitch |-> pitch, rotor |-> 180000, power |-> WdPowerOf(wind, pitch, 180000)]
\* resetSmooth: a tenth of a degree back, the rotor at its rated speed.
WdReset(wind, was) ==
  LET pitch == WdClamp(was.pitch - 100000, 0, WdMaxPitch) IN
  [pitch |-> pitch, rotor |-> 180000, power |-> WdPowerOf(wind, pitch, 180000)]

\* logStep: the margins of execute go to the points of feed-forward and feedback.
WdLogged(wind, mode, power) ==
  [time |-> wdTime, mode |-> mode, wind |-> wind, power |-> 4 * power,
   feedforward |-> 4 * WdClamp(1000 * WdMaxPower(wind) - power, 0, 2000000),
   feedback |-> 4 * WdClamp(power - 1000000, 0, 2000000)]
\* logTurbineDetail for each of the turbines, every five seconds.
WdDetail(turbine) ==
  [pitch |-> turbine.pitch, speed |-> turbine.rotor, power |-> turbine.power]

WdInit ==
  /\ wdScene \in {"rise", "drop"}
  /\ wdTime = 0 /\ wdNoise = 0 /\ wdWind = 120
  /\ wdMode = "ECO" /\ wdWarned = FALSE /\ wdStable = FALSE
  /\ wdPitch = 0 /\ wdRotor = 180000 /\ wdPower = WdTarget
  /\ wdPitchPid = [integral |-> 0, error |-> 0, out |-> 0]
  /\ wdRotorPid = [integral |-> 0, error |-> 0, out |-> 0]
  /\ wdWorst = 0
  /\ wdShm = [farm |-> [time |-> -1], turbine |-> [pitch |-> 0, speed |-> 0, power |-> 0],
              maxError |-> 0]

\* One turn of the loop: the wind, the two switches of mode, the control, the
\* log.  Turning to suppression and back happens once each.
WdStep(noise) ==
  LET wind == WdWindAt(wdTime, noise)
      warns == wdTime >= 18 /\ ~ wdWarned
      calms == wdTime >= 80 /\ ~ wdStable
      mode == IF calms THEN "ECO" ELSE IF warns THEN "SUPPRESS" ELSE wdMode
      before == [pitch |-> wdPitch, rotor |-> wdRotor, power |-> wdPower]
      prepared == IF warns THEN WdPrepared(wind) ELSE before
      start == IF mode = "SUPPRESS" THEN prepared ELSE WdReset(wind, prepared)
      after == WdExecute(wind, start.pitch, start.rotor, start.power)
  IN
  /\ wdTime <= 120
  /\ noise # wdNoise => wdTime % 10 = 0 /\ wdTime \in 20..79
  /\ wdTime' = wdTime + 1 /\ wdNoise' = noise /\ wdWind' = wind
  /\ wdMode' = mode
  /\ wdWarned' = (wdWarned \/ warns) /\ wdStable' = (wdStable \/ calms)
  /\ wdPitch' = after.pitch /\ wdRotor' = after.rotor /\ wdPower' = after.power
  /\ wdPitchPid' = after.pitchPid /\ wdRotorPid' = after.rotorPid
  /\ wdWorst' = WdMax(wdWorst, 4 * WdAbs(after.power - WdTarget))
  /\ wdShm' = [wdShm EXCEPT !.farm = WdLogged(wind, mode, after.power),
                            !.turbine = IF wdTime % 5 = 0 THEN WdDetail(after) ELSE @]
  /\ UNCHANGED wdScene

\* logFinalSummary.
WdEnd ==
  /\ wdTime = 121
  /\ wdTime' = 122
  /\ wdShm' = [wdShm EXCEPT !.maxError = wdWorst]
  /\ UNCHANGED <<wdScene, wdNoise, wdWind, wdMode, wdWarned, wdStable, wdTurbine, wdWorst>>

WdNext == (\E noise \in WdNoises \cup {wdNoise} : WdStep(noise)) \/ WdEnd
WdSpec == WdInit /\ [][WdNext]_wdVars

-----------------------------------------------------------------------------
WdTypeOK ==
  /\ wdTime \in 0..122
  /\ wdMode \in {"ECO", "SUPPRESS"}
  /\ wdPitch \in 0..WdMaxPitch
  /\ wdRotor \in Int /\ 175000 <= wdRotor /\ wdRotor <= 180000
  /\ wdPower \in 0..WdTarget

\* The pitch and the integrals a disturbance leaves behind are gone sixteen
\* seconds after its end: with the wind back at 12 m/s the farm gives its
\* 10 MW again to within a thousandth, whatever the winds were
\* (WindTurbineController::resetSmooth, lines 101-108, against execute, whose
\* pitch control adds pitch while the power is short).
WdFullPowerAgain == wdTime > 96 => wdPower >= WdTarget - WdTarget \div 1000
=============================================================================
