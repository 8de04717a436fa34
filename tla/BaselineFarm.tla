----------------------------- MODULE BaselineFarm -----------------------------
(* The archived program of scene 1: twenty minutes in which a controller makes *)
(* a hundred turbines follow a plan.  Powers are in kW.  The turbines are      *)
(* alike and the wind never binds them (it stays above their rated 11 m/s),    *)
(* so b1Power and b1Command stand for the sum over equal turbines and the      *)
(* weights of the economic dispatch cancel out.  The plan, three slow sines,   *)
(* is sampled once a minute and joined by straight lines.  The error of the    *)
(* prediction, drawn with rand() in every cycle, comes from B1Noises and, as a *)
(* bound, is held for B1Hold cycles.                                           *)
EXTENDS Integers, Sequences

CONSTANTS B1Noises,     \* values of ((rand() % 100) / 100.0 - 0.5) * 0.8 MW
          B1Hold,       \* cycles for which an error is held
          B1Waiting     \* dispatch commands that wait at the start

ASSUME B1NoisesAssumption == B1Noises \subseteq -400..392

VARIABLES b1Noise,                        \* pred_error
          b1Pc,                           \* "loop" or "done"
          b1Time,
          b1Command, b1Power,             \* Turbine: cmd_power_, actual_power_
          b1Setpoint, b1First,            \* AGCController
          b1Pid,                          \* its PIDController
          b1Filtered,                     \* PredictionFusion's low-pass filter
          b1Stats, b1Queue, b1Shm
b1Vars == <<b1Noise, b1Pc, b1Time, b1Command, b1Power, b1Setpoint, b1First, b1Pid,
            b1Filtered, b1Stats, b1Queue, b1Shm>>

B1Rated == 300000
B1WindLimit == B1Rated
B1Clamp(x, lo, hi) == IF x < lo THEN lo ELSE IF x > hi THEN hi ELSE x
B1Abs(x) == IF x < 0 THEN -x ELSE x
B1Max(a, b) == IF a < b THEN b ELSE a

\* scheduleFunc at every full minute.
B1Knots == <<
  150000, 160136, 169544, 177556, 183620, 187349, 188549, 187234,
  183623, 178119, 171270, 163725, 156167, 149261, 143594, 139621,
  137630, 137718, 139787, 143553, 148574, 154297, 160106
  >>
B1Plan(t) ==
  LET k == t \div 60 + 1 IN
  B1Knots[k] + ((B1Knots[k + 1] - B1Knots[k]) * (t % 60)) \div 60

\* predictionFunc 30 s ahead.
B1Predicted(t, noise) == B1Plan(t + 30) + noise

\* computeFeedforward: the filter (0.15), 0.75 of it times the confidence.
B1Filter(old, x) == IF b1First THEN x ELSE old + (15 * (x - old)) \div 100
B1Feedforward(filtered) ==
  LET doubt == IF 2 * B1Abs(filtered) > B1Rated \div 2 THEN 500
               ELSE (2000 * (B1Abs(filtered) \div 100)) \div (B1Rated \div 100)
      confidence == B1Clamp((85 * (1000 - doubt)) \div 100, 300, 950)
  IN  B1Clamp((75 * ((confidence * filtered) \div 1000)) \div 100, -45000, 45000)

\* PIDController::update with the gains of main, scaled to kW: an integral of
\* at most 0.1 pu that rests while the output is saturated and the error pushes
\* further, a derivative filtered by 0.3.
B1PidUpdate(error) ==
  LET frees == error * b1Pid.sign < 0
      integral == B1Clamp(b1Pid.integral
                            + (IF ~ b1Pid.saturated \/ frees THEN error ELSE 0),
                          -30000, 30000)
      raw == error - b1Pid.error
      d == IF b1First THEN raw ELSE b1Pid.d + (3 * (raw - b1Pid.d)) \div 10
      out == B1Clamp((120 * error + 15 * integral + 3 * d) \div 100, -B1Rated, B1Rated)
  IN  [integral |-> integral, error |-> error, d |-> d, output |-> out,
       sign |-> IF out < 0 THEN -1 ELSE 1,
       saturated |-> B1Abs(out) >= 297000]

\* The dead band of 0.3 % in runControlCycle.
B1Dead(error) == IF B1Abs(error) > 900 THEN error ELSE 0

\* The setpoint of runControlCycle: plan, feed-forward and feedback, at most 0.5
\* MW from the last one, within the turbines' limits.
B1SetpointAfter(plan, filtered, feedback) ==
  LET wanted == plan + B1Feedforward(filtered) + feedback
      ramped == IF b1First THEN wanted
                ELSE B1Clamp(wanted, b1Setpoint - 500, b1Setpoint + 500)
  IN  B1Clamp(ramped, 15000, B1Rated)

\* EconomicDispatcher::dispatch for equal turbines: the minimum of everyone,
\* then equal shares of the rest.
B1Dispatch(total) == 15000 + (B1Clamp(total, 15000, B1Rated) - 15000)

\* Turbine::runSimulation: the command within the wind, 0.75 MW/s, a filter of 0.7.
B1Moved ==
  LET target == B1Clamp(b1Command, 15000, B1WindLimit)
      ramped == B1Clamp(target, b1Power - 750, b1Power + 750)
  IN  (7 * ramped + 3 * b1Power) \div 10

\* Mutant: the turbines start at rest.
B1FromRest == 15000
\* initializePower: the turbines start on the plan.
B1Initial == B1Plan(0)

\* updateStats
B1StatsAfter(error) ==
  [cycles |-> b1Stats.cycles + 1,
   qualified |-> b1Stats.qualified + (IF B1Abs(error) < 6000 THEN 1 ELSE 0),
   worst |-> B1Max(b1Stats.worst, B1Abs(error))]
\* checkDispatchCommand takes a waiting command, and main drops it.
B1Polled == IF b1Queue > 0 THEN b1Queue - 1 ELSE 0
\* logControlCycle, and logTurbineStates in every thirtieth cycle; a turbine's
\* Command point is given its power too.
B1Logged(plan, setpoint, cycles) ==
  [cycles |-> cycles, total |-> B1Moved, schedule |-> plan, setpoint |-> setpoint,
   error |-> plan - B1Moved]
B1TurbineLogged == [power |-> B1Moved, command |-> B1Moved]

B1Init ==
  /\ b1Noise = 0
  /\ b1Pc = "loop" /\ b1Time = 0
  /\ b1Command = B1Initial /\ b1Power = B1Initial
  /\ b1Setpoint = 0 /\ b1First = TRUE
  /\ b1Pid = [integral |-> 0, error |-> 0, d |-> 0, output |-> 0, sign |-> 1,
              saturated |-> FALSE]
  /\ b1Filtered = 0
  /\ b1Stats = [cycles |-> 0, qualified |-> 0, worst |-> 0]
  /\ b1Queue = B1Waiting
  /\ b1Shm = [farm |-> [cycles |-> 0], turbine |-> [power |-> 0, command |-> 0],
              final |-> [worst |-> 0]]

\* One turn: simulate, control, log; a waiting command is taken and dropped.
B1Loop(noise) ==
  LET plan == B1Plan(b1Time)
      error == plan - B1Moved
      filtered == B1Filter(b1Filtered, plan - B1Predicted(b1Time, noise))
      pid == B1PidUpdate(B1Dead(error))
      setpoint == B1SetpointAfter(plan, filtered, pid.output)
      stats == B1StatsAfter(error)
  IN
  /\ b1Pc = "loop" /\ b1Time < 1200
  /\ b1Time' = b1Time + 1 /\ b1Noise' = noise
  /\ b1Power' = B1Moved
  /\ b1Filtered' = filtered /\ b1Pid' = pid
  /\ b1Setpoint' = setpoint /\ b1First' = FALSE
  /\ b1Command' = B1Clamp(B1Dispatch(setpoint), 15000, B1Rated)
  /\ b1Stats' = stats
  /\ b1Queue' = B1Polled
  /\ b1Shm' = [b1Shm EXCEPT
       !.farm = B1Logged(plan, setpoint, stats.cycles),
       !.turbine = IF stats.cycles % 30 = 0 THEN B1TurbineLogged ELSE @]
  /\ UNCHANGED b1Pc

\* logFinalStats.
B1End ==
  /\ b1Pc = "loop" /\ b1Time = 1200
  /\ b1Pc' = "done"
  /\ b1Shm' = [b1Shm EXCEPT !.farm.cycles = b1Stats.cycles,
                            !.final = [worst |-> b1Stats.worst]]
  /\ UNCHANGED <<b1Noise, b1Time, b1Command, b1Power, b1Setpoint, b1First, b1Pid,
                 b1Filtered, b1Stats, b1Queue>>

B1Draws == IF b1Time % B1Hold = 0 THEN B1Noises ELSE {b1Noise}

B1Next == (\E noise \in B1Draws : B1Loop(noise)) \/ B1End
B1Spec == B1Init /\ [][B1Next]_b1Vars

-----------------------------------------------------------------------------
B1TypeOK ==
  /\ b1Time \in 0..1200
  /\ b1Power \in 0..B1Rated /\ b1Command \in 15000..B1Rated
  /\ b1Setpoint \in 0..B1Rated
  /\ b1Pid.integral \in Int /\ -30000 <= b1Pid.integral /\ b1Pid.integral <= 30000

\* Every cycle of the twenty minutes is a qualified one, within 2 % of the
\* rated power, although the setpoint, the turbines and the filters all lag
\* and the feed-forward points the wrong way (AGCController::updateStats, line
\* 89, over runControlCycle and Turbine::runSimulation).
B1AlwaysQualified == b1Stats.qualified = b1Stats.cycles
=============================================================================
