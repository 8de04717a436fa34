---------------------------- MODULE FreqRegulation ----------------------------
(* The archived program of scene 3: a control thread regulates the frequency   *)
(* of a simulated grid with ten equal turbines while the main thread triggers  *)
(* one disturbance without any lock, and a logger that writes the shared       *)
(* memory directly (RtDbLogger, which main uses) or from a cache in a thread   *)
(* of its own (RtDbLoggerV2, written to take its place).  Frequencies are      *)
(* deviations from 50 Hz in microhertz, powers in watts.  The pauses are exact *)
(* where they order the threads: a flush is over before the next cycle, and no *)
(* three cycles pass without one.                                              *)
EXTENDS Integers

CONSTANT FrDip          \* how far below 50 Hz the disturbance throws the grid

\* Beyond the dead band of StateMachine, and not below the simulator's floor.
ASSUME FrDipAssumption == FrDip \in Int /\ 100000 < FrDip /\ FrDip <= 500000

VARIABLES frLogger,     \* "direct" or "cached"
          frMain,       \* the main thread: "wait", "freq", "log", "cache", "done"
          frPc,         \* the control thread: "sense", "write", "regulate", "log", "turbines"
          frSeen,       \* what the control thread read of the simulator
          frDisturbed, frDev,              \* FrequencySimulator
          frState, frDelta, frPower, frIntegral,
          frCache, frSnap, frLate,         \* RtDbLoggerV2, its background thread
          frShm
frControl == <<frState, frDelta, frPower, frIntegral>>
frGrid == <<frDisturbed, frDev>>
frVars == <<frLogger, frMain, frPc, frSeen, frGrid, frControl, frCache, frSnap,
            frLate, frShm>>

FrNoSnap == [state |-> "none"]

FrClamp(x, lo, hi) == IF x < lo THEN lo ELSE IF x > hi THEN hi ELSE x
FrAbs(x) == IF x < 0 THEN -x ELSE x

\* StateMachine::update.  No step leads to FAULT.
FrNextState(delta) ==
  CASE frState = "READY" /\ FrAbs(delta) > 100000 -> "ACTIVE"
    [] frState = "ACTIVE" /\ FrAbs(delta) < 20000 -> "RECOVERY"
    [] frState = "RECOVERY" /\ FrAbs(delta) < 3000 -> "READY"
    [] OTHER -> frState

\* Mutant: the gains are taken for megawatts.
FrRegulationInMW(integral, delta) ==
  FrClamp(-30 * delta - (8 * integral) \div 10, -1500000, 1500000)
\* PowerCalculator::calculate: 30 kW/Hz, and 0.8 kW on the integral.
FrIntegrated(integral, delta) ==
  IF FrAbs(delta) > 5000 THEN integral + delta \div 5 ELSE integral
FrRegulation(integral, delta) ==
  FrClamp((-30 * delta) \div 1000 - (8 * integral) \div 10000, -1500000, 1500000)

\* Allocator::allocate: all ten turbines run.
FrTurbineCommand(power) == FrClamp(1500000 + power \div 10, 300000, 2500000)

\* What logFRCycle and logTurbineFR write over the points r; one turbine stands
\* for the ten.
FrCycleLogged(r) == [r EXCEPT !.dev = frDelta, !.delta = frDelta,
                              !.state = frState, !.power = frPower]
FrTurbinesLogged(r) == [r EXCEPT !.cmd = FrTurbineCommand(frPower)]

FrInit ==
  /\ frLogger \in {"direct", "cached"}
  /\ frMain = "wait" /\ frPc = "sense" /\ frSeen = [disturbed |-> FALSE, dev |-> 0]
  /\ frDisturbed = FALSE /\ frDev = 0
  /\ frState = "READY" /\ frDelta = 0 /\ frPower = 0 /\ frIntegral = 0
  /\ frCache = [dev |-> 0, delta |-> 0, state |-> "READY", power |-> 0, cmd |-> 0]
  /\ frSnap = FrNoSnap /\ frLate = 0
  /\ frShm = frCache

-----------------------------------------------------------------------------
(* The main thread: triggerDisturbance, two writes nobody guards, and the log. *)

FrTrigger ==
  /\ frMain = "wait"
  /\ frMain' = "freq"
  /\ frDisturbed' = TRUE
  /\ UNCHANGED <<frLogger, frPc, frSeen, frDev, frControl, frCache, frSnap, frLate, frShm>>

FrTriggerFreq ==
  /\ frMain = "freq"
  /\ frMain' = "log"
  /\ frDev' = -FrDip
  /\ UNCHANGED <<frLogger, frPc, frSeen, frDisturbed, frControl, frCache, frSnap, frLate, frShm>>

FrLogDisturbance ==
  /\ frMain = "log"
  /\ frMain' = IF frLogger = "cached" THEN "cache" ELSE "done"
  /\ frShm' = [frShm EXCEPT !.dev = -FrDip]
  /\ UNCHANGED <<frLogger, frPc, frSeen, frGrid, frControl, frCache, frSnap, frLate>>

FrCacheDisturbance ==
  /\ frMain = "cache"
  /\ frMain' = "done"
  /\ frCache' = [frCache EXCEPT !.dev = -FrDip]
  /\ UNCHANGED <<frLogger, frPc, frSeen, frGrid, frControl, frSnap, frLate, frShm>>

-----------------------------------------------------------------------------
(* The control thread: runLoop.                                                *)

FrSense ==
  /\ frPc = "sense" /\ frSnap = FrNoSnap /\ frLate < 2
  /\ frPc' = "write"
  /\ frLate' = IF frLogger = "cached" THEN frLate + 1 ELSE 0
  /\ frSeen' = [disturbed |-> frDisturbed, dev |-> frDev]
  /\ UNCHANGED <<frLogger, frMain, frGrid, frControl, frCache, frSnap, frShm>>

\* The rest of getFrequency: a kilowatt raises the frequency by 1/2000 Hz.
FrWrite ==
  /\ frPc = "write"
  /\ frPc' = "regulate"
  /\ frDev' = IF frSeen.disturbed
              THEN FrClamp(frSeen.dev + frPower \div 2, -500000, 200000)
              ELSE 0
  /\ frSeen' = [frSeen EXCEPT !.dev = frDev']
  /\ UNCHANGED <<frLogger, frMain, frDisturbed, frControl, frCache, frSnap, frLate, frShm>>

\* State, power and split over the turbines.  Whoever comes back to READY
\* clears the integral and the disturbance before the power is computed.  The
\* frequency returned is what was written, or what the racing main thread has
\* written over it.
FrRegulate(dev) ==
  LET state == FrNextState(dev)
      done == state = "READY" /\ frState # "READY"
      integral == FrIntegrated(IF done THEN 0 ELSE frIntegral, dev)
  IN
  /\ frPc = "regulate"
  /\ frPc' = IF state = "READY" THEN "sense" ELSE "log"
  /\ frState' = state /\ frDelta' = dev
  /\ frIntegral' = integral
  /\ frPower' = FrRegulation(integral, dev)
  /\ frDisturbed' = (frDisturbed /\ ~ done)
  /\ UNCHANGED <<frLogger, frMain, frSeen, frDev, frCache, frSnap, frLate, frShm>>

\* logFRCycle, into the shared memory or into the cache.
FrLogCycle ==
  /\ frPc = "log"
  /\ frPc' = "turbines"
  /\ IF frLogger = "direct"
     THEN frShm' = FrCycleLogged(frShm) /\ UNCHANGED frCache
     ELSE frCache' = FrCycleLogged(frCache) /\ UNCHANGED frShm
  /\ UNCHANGED <<frLogger, frMain, frSeen, frGrid, frControl, frSnap, frLate>>

\* logTurbineFR, likewise.
FrLogTurbines ==
  /\ frPc = "turbines"
  /\ frPc' = "sense"
  /\ IF frLogger = "direct"
     THEN frShm' = FrTurbinesLogged(frShm) /\ UNCHANGED frCache
     ELSE frCache' = FrTurbinesLogged(frCache) /\ UNCHANGED frShm
  /\ UNCHANGED <<frLogger, frMain, frSeen, frGrid, frControl, frSnap, frLate>>

-----------------------------------------------------------------------------
(* The background thread of the second logger: a snapshot, then its writes.    *)

FrSnapshot ==
  /\ frLogger = "cached" /\ frSnap = FrNoSnap
  /\ frSnap' = frCache
  /\ frLate' = 0
  /\ UNCHANGED <<frLogger, frMain, frPc, frSeen, frGrid, frControl, frCache, frShm>>

FrFlush ==
  /\ frSnap # FrNoSnap
  /\ frShm' = frSnap
  /\ frSnap' = FrNoSnap
  /\ UNCHANGED <<frLogger, frMain, frPc, frSeen, frGrid, frControl, frCache, frLate>>

FrNext ==
  \/ FrTrigger \/ FrTriggerFreq \/ FrLogDisturbance \/ FrCacheDisturbance
  \/ FrSense \/ FrWrite \/ (\E dev \in {frDev, frSeen.dev} : FrRegulate(dev))
  \/ FrLogCycle \/ FrLogTurbines
  \/ FrSnapshot \/ FrFlush
FrSpec == FrInit /\ [][FrNext]_frVars

-----------------------------------------------------------------------------
FrTypeOK ==
  /\ frMain \in {"wait", "freq", "log", "cache", "done"}
  /\ frPc \in {"sense", "write", "regulate", "log", "turbines"}
  /\ frState \in {"READY", "ACTIVE", "RECOVERY"}
  /\ frDisturbed \in BOOLEAN
  /\ frDev \in Int /\ -500000 <= frDev /\ frDev <= 200000
  /\ frPower \in Int /\ -1500000 <= frPower /\ frPower <= 1500000

\* The support never carries the grid past its nominal frequency, although the
\* integral is still pushing when 50 Hz is reached: the return to READY clears
\* it within the last 3 mHz.  It also holds when the race of the two threads
\* loses the disturbance (FRController::runLoop, lines 58-71, over
\* PowerCalculator::calculate and FrequencySimulator::getFrequency).
FrNoOvershoot == frDev <= 0
=============================================================================
