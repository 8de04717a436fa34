----------------------------- MODULE RampTracking -----------------------------
(* The two archived programs of scene 4 (main.cpp with the first logger,       *)
(* main_v2.cpp with the second): a controller that takes dispatch commands     *)
(* from the command queue, tracks one for at most sixty steps of 0.1 s, and    *)
(* two simulated turbines.  Powers are in 0.01 MW; the two turbines start and  *)
(* stay equal, so one of them stands for both.  The pauses are exact.          *)
EXTENDS Integers, Sequences

CONSTANTS RtPushed,     \* commands the dispatch centre pushes: [target, type]
          RtMaxPushes   \* bound on how many

\* A command in the queue, of whatever target and type.
RtWaiting == [target : Int, type : Int]
ASSUME RtAssumption == RtPushed \subseteq RtWaiting

VARIABLES rtProgram,    \* "v1" or "v2"
          rtPc,         \* "start", "loop" or "done"
          rtQueue,      \* the waiting commands
          rtPushes,
          rtStep,
          rtActive, rtCommand, rtSince, rtTarget,   \* the controller
          rtPower,      \* power of either turbine
          rtPolled,     \* the command main polled last, in its locals
          rtShm         \* what the last logStep, logTurbineState wrote
rtVars == <<rtProgram, rtPc, rtQueue, rtPushes, rtStep, rtActive, rtCommand,
            rtSince, rtTarget, rtPower, rtPolled, rtShm>>

RtMin(a, b) == IF a < b THEN a ELSE b
RtMax(a, b) == IF a < b THEN b ELSE a
RtAbs(x) == IF x < 0 THEN -x ELSE x
RtClamp(x, lo, hi) == RtMin(RtMax(x, lo), hi)

RtAvailable == 10000
RtTotal == 2 * rtPower
RtBuiltIn == [target |-> 7000, type |-> "step", rate |-> 0]
RtNothing == [target |-> -1, type |-> -1]

\* pollDispatchCommand and the conversion of main: type 1 is a step, type 2 a
\* ramp of 5 MW/min, and every other type a ramp of no rate.
RtTaken(c) == [target |-> c.target, type |-> IF c.type = 1 THEN "step" ELSE "ramp",
               rate |-> IF c.type = 2 THEN 500 ELSE 0]

RtValid(c) == /\ c.target >= 0
              /\ c.type = "ramp" => c.rate > 0
              /\ c.target * 20 <= RtAvailable * 21

\* receiveCommand: a refused command changes nothing.
RtReceived(c) ==
  IF RtValid(c)
  THEN [active |-> TRUE, command |-> c, since |-> rtStep, target |-> RtTotal]
  ELSE [active |-> rtActive, command |-> rtCommand, since |-> rtSince,
        target |-> rtTarget]

\* initialize of the first logger counts three of its six points and asks for
\* four, so main believes there is no segment while the queue is polled.
RtLogs == rtProgram = "v2"

\* The desired target that the second program logs: main's locals, which nobody
\* has set until the first command is polled; -1 stands for such a value.
RtLoggedTargets(polled) ==
  CASE polled = RtNothing -> {7000, -1}
    [] polled.type = 0    -> {7000}
    [] OTHER              -> {polled.target}

\* The desired target of step(): a ramp counts from the power of the moment.
RtDesired(r) ==
  LET delta == (r.command.rate * (rtStep - r.since)) \div 600
  IN  IF r.command.type = "step" THEN r.command.target
      ELSE IF r.command.target > RtTotal
      THEN RtMin(RtTotal + delta, r.command.target)
      ELSE RtMax(RtTotal - delta, r.command.target)

\* FeedbackCompensator::compute with the gains main sets: 0.3, 0 and 0.
RtCompensation(desired) == RtClamp((30 * (desired - RtTotal)) \div 100, -500, 500)

\* The compensated target of step(), and whether it goes on tracking.
RtCompensated(desired) == RtClamp(desired + RtCompensation(desired), 0, RtAvailable)
RtTracks(command) == RtAbs(RtTotal - command.target) >= 50

\* Mutant: every turbine is given the farm's target instead of its share.
RtUnsharedCommand(compensated) == RtClamp(compensated, 500, 5000)
\* DynamicCoordinator::coordinate for one of the two running turbines.
RtTurbineCommand(compensated) ==
  RtClamp(rtPower + (compensated - RtTotal) \div 2, 500, 5000)

\* TurbineSimulator::applyCommands: a twentieth of the way per step.
RtMoved(set) ==
  LET next == rtPower + (set - rtPower) \div 20
  IN  IF RtAbs(next - set) < 1 THEN set ELSE next

\* ProtectionManager::isSafe: the torque, 1000 kNm at full power.
RtSafe == (rtPower * 1000) \div 5000 <= 1650

\* logStep, logTurbineState and logRampState of a turn that ends at power.
RtFarmLogged(power, compensated) ==
  [step |-> rtStep, total |-> 2 * power, target |-> compensated,
   error |-> 2 * power - compensated]
RtTurbineLogged(power, set) == [power |-> power, command |-> set]
RtRampLogged(compensated, desired, active) ==
  [current |-> compensated, desired |-> desired, active |-> active]

RtInit ==
  /\ rtProgram \in {"v1", "v2"}
  /\ rtPc = "start" /\ rtQueue = <<>> /\ rtPushes = 0 /\ rtStep = 0
  /\ rtActive = FALSE /\ rtCommand = RtBuiltIn /\ rtSince = 0 /\ rtTarget = 0
  /\ rtPower = 1500 /\ rtPolled = RtNothing
  /\ rtShm = [farm |-> [step |-> -1]]

RtPush(c) ==
  /\ rtPushes < RtMaxPushes
  /\ rtPc # "done"
  /\ rtPushes' = rtPushes + 1
  /\ rtQueue' = Append(rtQueue, c)
  /\ UNCHANGED <<rtProgram, rtPc, rtStep, rtActive, rtCommand, rtSince, rtTarget,
                 rtPower, rtPolled, rtShm>>

\* The first command: one that waits, or the built-in step to 70 MW.
RtStart ==
  LET r == RtReceived(IF rtQueue = <<>> THEN RtBuiltIn ELSE RtTaken(Head(rtQueue)))
  IN
  /\ rtPc = "start"
  /\ rtPc' = "loop"
  /\ rtQueue' = IF rtQueue = <<>> THEN rtQueue ELSE Tail(rtQueue)
  /\ rtPolled' = IF rtQueue = <<>> THEN RtNothing ELSE Head(rtQueue)
  /\ rtActive' = r.active /\ rtCommand' = r.command
  /\ rtSince' = r.since /\ rtTarget' = r.target
  /\ UNCHANGED <<rtProgram, rtPushes, rtStep, rtPower, rtShm>>

\* What is left when the loop has ended and the controller is shut down.
RtTrackingComplete(target) ==
  IF RtLogs THEN [farm |-> [step |-> rtStep, error |-> RtTotal - target]] ELSE rtShm

\* One turn of the loop: poll at every tenth step, control, simulate, log.  A
\* turbine past its torque ends it.
RtLoop ==
  LET polls == rtStep > 0 /\ rtStep % 10 = 0 /\ rtQueue # <<>>
      r == IF polls THEN RtReceived(RtTaken(Head(rtQueue)))
           ELSE [active |-> rtActive, command |-> rtCommand, since |-> rtSince,
                 target |-> rtTarget]
      desired == RtDesired(r)
      compensated == RtCompensated(desired)
      set == RtTurbineCommand(compensated)
  IN
  /\ rtPc = "loop" /\ rtStep < 60 /\ rtActive
  /\ rtQueue' = IF polls THEN Tail(rtQueue) ELSE rtQueue
  /\ rtPolled' = IF polls THEN Head(rtQueue) ELSE rtPolled
  /\ rtCommand' = r.command /\ rtSince' = r.since
  /\ IF RtSafe
     THEN /\ rtPc' = "loop"
          /\ rtStep' = rtStep + 1
          /\ rtTarget' = compensated
          /\ rtActive' = RtTracks(r.command)
          /\ rtPower' = RtMoved(set)
          /\ IF RtLogs
             THEN \E logged \in RtLoggedTargets(rtPolled') :
                    rtShm' = [farm |-> RtFarmLogged(RtMoved(set), compensated),
                              turbine |-> RtTurbineLogged(RtMoved(set), set),
                              ramp |-> RtRampLogged(compensated, logged, rtActive')]
             ELSE UNCHANGED rtShm
     ELSE /\ rtPc' = "done"
          /\ rtTarget' = r.target /\ rtActive' = FALSE
          /\ rtShm' = RtTrackingComplete(r.target)
          /\ UNCHANGED <<rtStep, rtPower>>
  /\ UNCHANGED <<rtProgram, rtPushes>>

\* The loop ends: the final error is logged, the controller is shut down.
RtEnd ==
  /\ rtPc = "loop" /\ ~ (rtStep < 60 /\ rtActive)
  /\ rtPc' = "done"
  /\ rtActive' = FALSE
  /\ rtShm' = RtTrackingComplete(rtTarget)
  /\ UNCHANGED <<rtProgram, rtQueue, rtPushes, rtStep, rtCommand, rtSince, rtTarget,
                 rtPower, rtPolled>>

RtNext == (\E c \in RtPushed : RtPush(c)) \/ RtStart \/ RtLoop \/ RtEnd
RtSpec == RtInit /\ [][RtNext]_rtVars

-----------------------------------------------------------------------------
RtTypeOK ==
  /\ rtPc \in {"start", "loop", "done"}
  /\ rtStep \in 0..60
  /\ rtActive \in BOOLEAN
  /\ rtPower \in 500..5000
  /\ rtTarget \in 0..RtAvailable

\* Whatever commands arrive, and wherever in a ramp they replace one another,
\* the farm only ever moves towards the command it follows: compensation,
\* clamps and the split over the turbines never carry it away or past it
\* (RampTrackingController::step, lines 90-122, over applyCommands).
RtOnlyApproaches ==
  [][rtPower' # rtPower =>
       RtAbs(2 * rtPower' - rtCommand'.target) <= RtAbs(RtTotal - rtCommand'.target)
    ]_rtVars
=============================================================================
