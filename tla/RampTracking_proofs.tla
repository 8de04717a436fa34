------------------------- MODULE RampTracking_proofs --------------------------
(***************************************************************************)
(* Proofs about RampTracking: whatever commands are pushed, in any number  *)
(* and at any moment, the variables keep their ranges and the farm never   *)
(* moves away from the command it follows.                                 *)
(***************************************************************************)
EXTENDS RampTracking, TLAPS

RtCommands == [target : Int, type : {"step", "ramp"}, rate : {0, 500}]

(* A command that passed RtValid.                                           *)
RtFollowable(c) == c \in RtCommands /\ 0 <= c.target /\ c.target <= 10500

(* The numbers of the controller, in the loop or after a command.           *)
RtTracking(command, since, target) ==
  /\ RtFollowable(command)
  /\ since \in Int /\ 0 <= since /\ since <= rtStep
  /\ target \in Int /\ 0 <= target /\ target <= 10000

RtInv ==
  /\ rtPc \in {"start", "loop", "done"} /\ rtActive \in BOOLEAN
  /\ rtStep \in Int /\ 0 <= rtStep /\ rtStep <= 60
  /\ rtPower \in Int /\ 500 <= rtPower /\ rtPower <= 5000
  /\ rtQueue \in Seq(RtWaiting)
  /\ RtTracking(rtCommand, rtSince, rtTarget)

LEMMA TakenLemma == ASSUME NEW c \in RtWaiting PROVE RtTaken(c) \in RtCommands
BY DEF RtTaken, RtWaiting, RtCommands

LEMMA ReceivedLemma ==
  ASSUME RtInv, NEW c \in RtCommands
  PROVE  /\ RtTracking(RtReceived(c).command, RtReceived(c).since, RtReceived(c).target)
         /\ RtReceived(c).active \in BOOLEAN
<1>1. CASE RtValid(c)
  <2>1. /\ RtReceived(c).command = c /\ RtReceived(c).since = rtStep
        /\ RtReceived(c).target = RtTotal /\ RtReceived(c).active = TRUE
    BY <1>1 DEF RtReceived
  <2>2. RtFollowable(c)
    BY <1>1 DEF RtFollowable, RtValid, RtAvailable, RtCommands
  <2>3. RtTotal \in Int /\ 0 <= RtTotal /\ RtTotal <= 10000
    BY DEF RtInv, RtTotal
  <2>4. RtTracking(c, rtStep, RtTotal)
    <3>1. rtStep \in Int /\ 0 <= rtStep /\ rtStep <= rtStep
      BY DEF RtInv
    <3> QED
      BY <2>2, <2>3, <3>1 DEF RtTracking
  <2> QED
    BY <2>1, <2>4
<1>2. CASE ~ RtValid(c)
  BY <1>2 DEF RtReceived, RtInv
<1> QED
  BY <1>1, <1>2

(* The desired target lies between the power of the moment and the command. *)
LEMMA DesiredLemma ==
  ASSUME RtInv, NEW r, RtTracking(r.command, r.since, r.target)
  PROVE  /\ RtDesired(r) \in Int
         /\ RtTotal <= r.command.target => RtTotal <= RtDesired(r) /\ RtDesired(r) <= r.command.target
         /\ RtTotal >= r.command.target => RtTotal >= RtDesired(r) /\ RtDesired(r) >= r.command.target
<1>1. /\ r.command.target \in Int /\ r.command.rate \in {0, 500} /\ r.since \in Int
      /\ r.since <= rtStep /\ rtStep \in Int /\ RtTotal \in Int
  BY DEF RtInv, RtTracking, RtFollowable, RtCommands, RtTotal
<1> DEFINE delta == (r.command.rate * (rtStep - r.since)) \div 600
<1>2. delta \in Int /\ delta >= 0
  <2>1. CASE r.command.rate = 0
    BY <1>1, <2>1
  <2>2. CASE r.command.rate = 500
    BY <1>1, <2>2
  <2> QED
    BY <1>1, <2>1, <2>2
<1> HIDE DEF delta
<1>3. RtDesired(r) = IF r.command.type = "step" THEN r.command.target
                     ELSE IF r.command.target > RtTotal
                     THEN RtMin(RtTotal + delta, r.command.target)
                     ELSE RtMax(RtTotal - delta, r.command.target)
  BY DEF RtDesired, delta
<1> QED
  BY <1>1, <1>2, <1>3 DEF RtMin, RtMax

RtPowerTowards(desired) == RtMoved(RtTurbineCommand(RtCompensated(desired)))

(* One step of the loop towards desired, which lies between total power and *)
(* command, leaves the turbine in its range and no farther from the command.*)
LEMMA MoveLemma ==
  ASSUME RtInv, NEW goal \in Int, NEW desired \in Int,
         0 <= goal, goal <= 10500,
         RtTotal <= goal => RtTotal <= desired /\ desired <= goal,
         RtTotal >= goal => RtTotal >= desired /\ desired >= goal
  PROVE  /\ RtCompensated(desired) \in Int
         /\ 0 <= RtCompensated(desired) /\ RtCompensated(desired) <= 10000
         /\ RtPowerTowards(desired) \in Int /\ 500 <= RtPowerTowards(desired) /\ RtPowerTowards(desired) <= 5000
         /\ RtAbs(2 * RtPowerTowards(desired) - goal) <= RtAbs(RtTotal - goal)
<1>1. rtPower \in Int /\ 500 <= rtPower /\ rtPower <= 5000
  BY DEF RtInv
<1> DEFINE gain == (30 * (desired - RtTotal)) \div 100
           comp == RtCompensation(desired)
           sum == RtCompensated(desired)
           half == (sum - RtTotal) \div 2
           set == RtTurbineCommand(sum)
           part == (set - rtPower) \div 20
           moved == RtMoved(set)
<1>2. /\ gain \in Int /\ 100 * gain <= 30 * (desired - RtTotal)
      /\ 30 * (desired - RtTotal) <= 100 * gain + 99
  BY <1>1 DEF RtTotal
<1>3. comp \in Int /\ comp = RtClamp(gain, -500, 500)
  BY <1>2 DEF RtCompensation, RtClamp, RtMin, RtMax
<1> HIDE DEF gain, comp
<1>4. sum \in Int /\ sum = RtClamp(desired + comp, 0, 10000)
  BY <1>3 DEF RtCompensated, RtClamp, RtMin, RtMax, RtAvailable, comp
<1> HIDE DEF sum
<1>5. 0 <= sum /\ sum <= 10000
  BY <1>3, <1>4 DEF RtClamp, RtMin, RtMax
<1>6. half \in Int /\ 2 * half <= sum - RtTotal /\ sum - RtTotal <= 2 * half + 1
  BY <1>1, <1>4 DEF RtTotal
<1> HIDE DEF half
<1>7. set = RtClamp(rtPower + half, 500, 5000)
  BY DEF RtTurbineCommand, half
<1>8. set \in Int /\ 500 <= set /\ set <= 5000
  BY <1>1, <1>6, <1>7 DEF RtClamp, RtMin, RtMax
<1> HIDE DEF set
<1>9. part \in Int /\ 20 * part <= set - rtPower /\ set - rtPower <= 20 * part + 19
  BY <1>1, <1>8
<1> HIDE DEF part
<1>10. moved = rtPower + part
  BY <1>1, <1>8, <1>9 DEF RtMoved, RtAbs, part
<1> HIDE DEF moved
<1>11. CASE RtTotal <= goal
  <2>1. 0 <= gain /\ 10 * gain <= 3 * (goal - RtTotal)
    BY <1>1, <1>2, <1>11 DEF RtTotal
  <2>2. 0 <= comp /\ comp <= gain
    BY <1>2, <1>3, <2>1 DEF RtClamp, RtMin, RtMax
  <2>3. RtTotal <= sum /\ 10 * (sum - RtTotal) <= 13 * (goal - RtTotal)
    BY <1>1, <1>2, <1>3, <1>4, <1>11, <2>1, <2>2 DEF RtTotal, RtClamp, RtMin, RtMax
  <2>4. 0 <= half
    BY <1>1, <1>4, <1>6, <2>3 DEF RtTotal
  <2>5. rtPower <= set /\ set <= rtPower + half
    BY <1>1, <1>6, <1>7, <2>4 DEF RtClamp, RtMin, RtMax
  <2>6. 0 <= part /\ 400 * part <= 13 * (goal - RtTotal)
    BY <1>1, <1>4, <1>6, <1>8, <1>9, <2>3, <2>5 DEF RtTotal
  <2>7. 2 * moved - goal <= 0 /\ RtTotal <= 2 * moved
    BY <1>1, <1>9, <1>10, <1>11, <2>6 DEF RtTotal
  <2>8. moved <= 5000 /\ 500 <= moved
    BY <1>1, <1>8, <1>9, <1>10, <2>6
  <2> QED
    BY <1>1, <1>4, <1>5, <1>9, <1>10, <1>11, <2>7, <2>8 DEF RtAbs, RtTotal, RtPowerTowards, moved, set, sum
<1>12. CASE RtTotal >= goal
  <2>1. gain <= 0 /\ 100 * gain + 99 >= 30 * (goal - RtTotal)
    BY <1>1, <1>2, <1>12 DEF RtTotal
  <2>2. comp <= 0 /\ gain <= comp
    BY <1>2, <1>3, <2>1 DEF RtClamp, RtMin, RtMax
  <2>3. sum <= RtTotal /\ 100 * (sum - RtTotal) + 99 >= 130 * (goal - RtTotal)
    BY <1>1, <1>2, <1>3, <1>4, <1>12, <2>1, <2>2 DEF RtTotal, RtClamp, RtMin, RtMax
  <2>4. half <= 0
    BY <1>1, <1>4, <1>6, <2>3 DEF RtTotal
  <2>5. set <= rtPower /\ rtPower + half <= set
    BY <1>1, <1>6, <1>7, <2>4 DEF RtClamp, RtMin, RtMax
  <2>6. part <= 0 /\ (part < 0 => 2 * part >= 2 * (goal - RtTotal))
    BY <1>1, <1>4, <1>6, <1>8, <1>9, <1>12, <2>3, <2>5 DEF RtTotal
  <2>7. moved <= 5000 /\ 500 <= moved
    BY <1>1, <1>8, <1>9, <1>10, <2>6
  <2>8. 2 * moved <= RtTotal /\ 2 * moved - goal >= goal - RtTotal
    BY <1>1, <1>9, <1>10, <1>12, <2>6 DEF RtTotal
  <2> QED
    BY <1>1, <1>4, <1>5, <1>9, <1>10, <1>12, <2>7, <2>8 DEF RtAbs, RtTotal, RtPowerTowards, moved, set, sum
<1> QED
  BY <1>1, <1>11, <1>12 DEF RtTotal

LEMMA RtInitInv == RtInit => RtInv
<1> SUFFICES ASSUME RtInit PROVE RtInv
  OBVIOUS
<1>1. RtTracking(rtCommand, rtSince, rtTarget)
  BY DEF RtInit, RtTracking, RtFollowable, RtCommands, RtBuiltIn
<1>2. rtQueue \in Seq(RtWaiting)
  BY DEF RtInit
<1>3. /\ rtPc = "start" /\ rtActive \in BOOLEAN /\ rtStep = 0 /\ rtPower = 1500
  BY DEF RtInit
<1> QED
  BY <1>1, <1>2, <1>3 DEF RtInv

(* A turn of the loop, with the state r the controller is in after polling. *)
LEMMA LoopLemma ==
  ASSUME RtInv, RtLoop
  PROVE  /\ RtInv'
         /\ rtPower' # rtPower =>
              RtAbs(2 * rtPower' - rtCommand'.target) <= RtAbs(RtTotal - rtCommand'.target)
<1> DEFINE polls == rtStep > 0 /\ rtStep % 10 = 0 /\ rtQueue # <<>>
           r == IF polls THEN RtReceived(RtTaken(Head(rtQueue)))
                ELSE [active |-> rtActive, command |-> rtCommand, since |-> rtSince,
                      target |-> rtTarget]
           compensated == RtCompensated(RtDesired(r))
           moved == RtPowerTowards(RtDesired(r))
<1>1. rtQueue # <<>> => Head(rtQueue) \in RtWaiting /\ Tail(rtQueue) \in Seq(RtWaiting)
  BY DEF RtInv
<1>2. RtTracking(r.command, r.since, r.target)
  <2>1. CASE polls
    <3>1. RtTaken(Head(rtQueue)) \in RtCommands
      BY <1>1, <2>1, TakenLemma
    <3>2. r = RtReceived(RtTaken(Head(rtQueue)))
      BY <2>1
    <3> QED
      BY <3>1, <3>2, ReceivedLemma
  <2>2. CASE ~ polls
    BY <2>2 DEF RtInv
  <2> QED
    BY <2>1, <2>2
<1>3. /\ rtPc = "loop" /\ rtStep < 60
      /\ rtQueue' = IF polls THEN Tail(rtQueue) ELSE rtQueue
      /\ rtCommand' = r.command /\ rtSince' = r.since
      /\ \/ /\ rtPc' = "loop" /\ rtStep' = rtStep + 1 /\ rtTarget' = compensated
            /\ rtActive' = RtTracks(r.command) /\ rtPower' = moved
         \/ /\ rtPc' = "done" /\ rtTarget' = r.target /\ rtActive' = FALSE
            /\ UNCHANGED <<rtStep, rtPower>>
  BY DEF RtLoop, RtPowerTowards
<1> HIDE DEF r, polls
<1>4. r.command.target \in Int /\ 0 <= r.command.target /\ r.command.target <= 10500
  BY <1>2 DEF RtTracking, RtFollowable, RtCommands
<1>5. /\ compensated \in Int /\ 0 <= compensated /\ compensated <= 10000
      /\ moved \in Int /\ 500 <= moved /\ moved <= 5000
      /\ RtAbs(2 * moved - r.command.target) <= RtAbs(RtTotal - r.command.target)
  <2> DEFINE desired == RtDesired(r)
  <2>1. /\ desired \in Int
        /\ RtTotal <= r.command.target => RtTotal <= desired /\ desired <= r.command.target
        /\ RtTotal >= r.command.target => RtTotal >= desired /\ desired >= r.command.target
    BY <1>2, DesiredLemma
  <2> DEFINE goal == r.command.target
  <2>2. goal \in Int /\ 0 <= goal /\ goal <= 10500
    BY <1>4
  <2> HIDE DEF desired, goal
  <2>3. /\ RtTotal <= goal => RtTotal <= desired /\ desired <= goal
        /\ RtTotal >= goal => RtTotal >= desired /\ desired >= goal
        /\ desired \in Int
    BY <2>1 DEF goal
  <2>4. /\ RtCompensated(desired) \in Int
        /\ 0 <= RtCompensated(desired) /\ RtCompensated(desired) <= 10000
        /\ RtPowerTowards(desired) \in Int
        /\ 500 <= RtPowerTowards(desired) /\ RtPowerTowards(desired) <= 5000
        /\ RtAbs(2 * RtPowerTowards(desired) - goal) <= RtAbs(RtTotal - goal)
    BY <2>2, <2>3, MoveLemma, SMTT(60)
  <2> QED
    BY <2>4 DEF desired, goal
<1> HIDE DEF compensated, moved
<1>6. rtQueue' \in Seq(RtWaiting)
  BY <1>1, <1>3 DEF RtInv, polls
<1>7. /\ rtStep' \in Int /\ rtStep <= rtStep' /\ rtStep' <= 60
      /\ rtPower' \in Int /\ 500 <= rtPower' /\ rtPower' <= 5000
      /\ rtTarget' \in Int /\ 0 <= rtTarget' /\ rtTarget' <= 10000
  BY <1>2, <1>3, <1>5 DEF RtInv, RtTracking
<1>8. RtTracking(rtCommand, rtSince, rtTarget)'
  BY <1>2, <1>3, <1>7 DEF RtTracking, RtInv
<1>9. rtActive' \in BOOLEAN /\ rtPc' \in {"loop", "done"}
  <2>1. RtTracks(r.command) \in BOOLEAN
    BY DEF RtTracks
  <2> QED
    BY <1>3, <2>1
<1>10. RtInv'
  BY <1>6, <1>7, <1>8, <1>9 DEF RtInv
<1> QED
  BY <1>3, <1>5, <1>10

LEMMA RtStepKeeps ==
  ASSUME RtInv, [RtNext]_rtVars
  PROVE  RtInv'
<1>1. CASE UNCHANGED rtVars
  BY <1>1 DEF rtVars, RtInv, RtTracking
<1>2. ASSUME NEW c \in RtPushed, RtPush(c) PROVE RtInv'
  <2>1. c \in RtWaiting
    BY RtAssumption
  <2>2. rtQueue' \in Seq(RtWaiting)
    BY <1>2, <2>1 DEF RtPush, RtInv
  <2> QED
    BY <1>2, <2>2 DEF RtPush, RtInv, RtTracking
<1>3. CASE RtStart
  <2> DEFINE first == IF rtQueue = <<>> THEN RtBuiltIn ELSE RtTaken(Head(rtQueue))
             r == RtReceived(first)
  <2>1. first \in RtCommands /\ rtQueue' \in Seq(RtWaiting)
    <3>1. CASE rtQueue = <<>>
      BY <1>3, <3>1 DEF RtStart, RtBuiltIn, RtCommands, RtInv
    <3>2. CASE rtQueue # <<>>
      <4>1. Head(rtQueue) \in RtWaiting /\ Tail(rtQueue) \in Seq(RtWaiting)
        BY <3>2 DEF RtInv
      <4> QED
        BY <1>3, <3>2, <4>1, TakenLemma DEF RtStart
    <3> QED
      BY <3>1, <3>2
  <2> HIDE DEF first
  <2>2. RtTracking(r.command, r.since, r.target) /\ r.active \in BOOLEAN
    BY <2>1, ReceivedLemma
  <2>3. /\ rtPc' = "loop" /\ rtActive' = r.active /\ rtCommand' = r.command
        /\ rtSince' = r.since /\ rtTarget' = r.target /\ UNCHANGED <<rtStep, rtPower>>
    BY <1>3 DEF RtStart, first
  <2> HIDE DEF r
  <2>4. RtTracking(rtCommand, rtSince, rtTarget)'
    BY <2>2, <2>3 DEF RtTracking
  <2> QED
    BY <2>1, <2>2, <2>3, <2>4 DEF RtInv
<1>4. CASE RtLoop
  BY <1>4, LoopLemma
<1>5. CASE RtEnd
  <2>1. /\ rtPc' = "done" /\ rtActive' \in BOOLEAN
        /\ UNCHANGED <<rtQueue, rtStep, rtCommand, rtSince, rtTarget, rtPower>>
    BY <1>5 DEF RtEnd
  <2> QED
    BY <2>1 DEF RtInv, RtTracking
<1> QED
  BY <1>1, <1>2, <1>3, <1>4, <1>5 DEF RtNext

(* The ranges of the controller's and the turbines' variables.              *)
THEOREM RampTypeCorrect == RtSpec => []RtTypeOK
<1>1. RtInv => RtTypeOK
  BY DEF RtInv, RtTracking, RtTypeOK, RtAvailable
<1>2. RtInv /\ [RtNext]_rtVars => RtInv'
  BY RtStepKeeps
<1> QED
  BY <1>1, <1>2, RtInitInv, PTL DEF RtSpec

(* The farm never moves away from the command it follows, nor past it, for  *)
(* commands of every kind that arrive at any moment.                        *)
THEOREM RampOnlyApproaches == RtSpec => RtOnlyApproaches
<1>1. ASSUME RtInv, [RtNext]_rtVars
      PROVE  [rtPower' # rtPower =>
                RtAbs(2 * rtPower' - rtCommand'.target) <= RtAbs(RtTotal - rtCommand'.target)
             ]_rtVars
  <2>1. CASE RtLoop
    BY <1>1, <2>1, LoopLemma
  <2>2. CASE ~ RtLoop
    BY <1>1, <2>2 DEF RtNext, RtPush, RtStart, RtEnd
  <2> QED
    BY <2>1, <2>2
<1>2. RtInv /\ [RtNext]_rtVars => RtInv'
  BY RtStepKeeps
<1> QED
  BY <1>1, <1>2, RtInitInv, PTL DEF RtSpec, RtOnlyApproaches
===============================================================================
