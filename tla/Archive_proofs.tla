---------------------------- MODULE Archive_proofs ----------------------------
(***************************************************************************)
(* Proofs about the archived programs and their composition.  Every one of *)
(* them is deterministic but for its noise, its threads or its wind, and   *)
(* runs for a while of its own: what is proved holds for every noise,      *)
(* interleaving and wind the program admits.  The archive as a whole is    *)
(* each of its programs: it takes their steps and no others.               *)
(***************************************************************************)
EXTENDS MCArchive, SafetyDay_proofs, RampTracking_proofs, HilRunner_proofs,
        SequenceTheorems, WellFoundedInduction, TLAPS


-----------------------------------------------------------------------------
(*                       The demonstration of scene 6                        *)

MoRecoveries == [on : BOOLEAN, start : Int, target : Int, since : Int]

MoPowers == mPower \in 0..10000 /\ mFrozen \in 0..10000
MoRanges ==
  /\ mStep \in 0..50 /\ MoPowers /\ mSchedule \in Int
  /\ mWeather \in [on : BOOLEAN, wind : Int, turb : Int]
  /\ mMode \in {"normal", "freeze", "extreme"}
  /\ mRecovery \in MoRecoveries /\ mIntegral \in -500..500 /\ mGust \in -50..49

(* The first steps: two normal ones, five of a freeze that drifts by at most  *)
(* 0.15 MW each, and the return along the ramp, which cannot be over before   *)
(* the first storm.                                                           *)
MoCourse ==
  /\ mStep <= 12 => ~ mWeather.on
  /\ mStep <= 2 => mComm /\ mMode = "normal"
  /\ mStep <= 7 => ~ mRecovery.on
  /\ mStep = 0 => mPower = 5000
  /\ mStep = 1 => mPower - 5000 <= 100 /\ 5000 - mPower <= 100
  /\ mStep = 2 => mPower - 5156 <= 100 /\ 5156 - mPower <= 100
  /\ mStep \in 3..7 =>
       /\ ~ mComm /\ mMode = "freeze"
       /\ mFrozen - 5156 <= 100 /\ 5156 - mFrozen <= 100
       /\ mPower - mFrozen <= 15 * (mStep - 2) /\ mFrozen - mPower <= 15 * (mStep - 2)
  /\ mStep \in 8..12 =>
       /\ mComm /\ mMode = "normal" /\ mSchedule = 5891
       /\ mFrozen - 5156 <= 100 /\ 5156 - mFrozen <= 100
       /\ mRecovery.on /\ mRecovery.since = 7 /\ mRecovery.target = 5891
       /\ mRecovery.start - mFrozen <= 75 /\ mFrozen - mRecovery.start <= 75
       /\ LET ramp == mRecovery.start + (400 * (mStep - 8)) \div 60
          IN  mPower - ramp <= 100 /\ ramp - mPower <= 100

LEMMA MoScheduleLemma ==
  /\ \A step \in 0..50 : MoSchedule(step) \in Int
  /\ MoSchedule(0) = 5000 /\ MoSchedule(1) = 5156 /\ MoSchedule(7) = 5891
<1>1. \A i \in 1..11 : QuarterSine[i] \in Int
  BY DEF QuarterSine
<1>2. ASSUME NEW step \in 0..50 PROVE MoSchedule(step) \in Int
  <2> DEFINE k == step % 20
  <2>1. k \in 0..19
    OBVIOUS
  <2> HIDE DEF k
  <2>2. (IF k <= 10 THEN k ELSE 20 - k) + 1 \in 1..11
    BY <2>1
  <2>3. QuarterSine[(IF k <= 10 THEN k ELSE 20 - k) + 1] \in Int
    BY <1>1, <2>2
  <2> QED
    BY <2>3 DEF MoSchedule, k
<1>3. QuarterSine[1] = 0 /\ QuarterSine[2] = 156 /\ QuarterSine[8] = 891
  BY DEF QuarterSine
<1> QED
  BY <1>2, <1>3 DEF MoSchedule

LEMMA MoCutLemma ==
  ASSUME mPower \in 0..10000, NEW w
  PROVE  MoCut(MoSub(w)) \in Int
<1>1. MoSub(w) \in {"cut_out", "high_turb", "storm_ride"}
  BY DEF MoSub
<1>2. (mPower * 30) \div 100 \in Int /\ (mPower * 15) \div 100 \in Int
      /\ (mPower * 25) \div 100 \in Int /\ mPower \in Int
  OBVIOUS
<1>3. CASE MoSub(w) = "cut_out"
  BY <1>2, <1>3 DEF MoCut, MoGreater
<1>4. CASE MoSub(w) = "high_turb"
  BY <1>2, <1>4 DEF MoCut
<1>5. CASE MoSub(w) = "storm_ride"
  <2>1. MoRated \div 10 \in Int
    BY DEF MoRated
  <2> QED
    BY <1>2, <1>5, <2>1 DEF MoCut, MoGreater
<1> QED
  BY <1>1, <1>3, <1>4, <1>5

LEMMA MoClampLemma ==
  ASSUME NEW x \in Int, NEW lo \in Int, NEW hi \in Int, lo <= hi
  PROVE  /\ MoClamp(x, lo, hi) \in lo..hi
         /\ lo <= x /\ x <= hi => MoClamp(x, lo, hi) = x
BY DEF MoClamp, MoGreater, MoLesser

(* Where a normal step ends, and a frozen one.                                *)
MoMoved(from, target, integral, gust) ==
  MoClamp(from + MoClamp((target - from) + integral \div 10, -300, 300) + gust, 0, 10000)
MoDrifted(from, gust) == MoClamp(from + (3 * gust) \div 10, 0, 10000)

LEMMA MoDrift ==
  ASSUME NEW from \in Int, 1000 <= from, from <= 9000,
         NEW gust \in Int, -50 <= gust, gust <= 49
  PROVE  /\ MoDrifted(from, gust) \in Int
         /\ MoDrifted(from, gust) - from <= 15 /\ from - MoDrifted(from, gust) <= 15
<1> DEFINE drift == (3 * gust) \div 10
<1>1. drift \in Int /\ drift <= 15 /\ -15 <= drift
  OBVIOUS
<1> HIDE DEF drift
<1>2. MoDrifted(from, gust) = MoClamp(from + drift, 0, 10000)
  BY DEF MoDrifted, drift
<1> QED
  BY <1>1, <1>2 DEF MoClamp, MoGreater, MoLesser

(* The proportional-integral step of the normal mode ends within 1 MW of a    *)
(* target that is not far away.                                               *)
LEMMA MoFollows ==
  ASSUME NEW from \in Int, NEW target \in Int, 200 <= target, target <= 9800,
         target - from <= 300, from - target <= 300,
         NEW integral \in Int, -500 <= integral, integral <= 500,
         NEW gust \in Int, -50 <= gust, gust <= 49
  PROVE  /\ MoMoved(from, target, integral, gust) \in Int
         /\ MoMoved(from, target, integral, gust) - target <= 100
         /\ target - MoMoved(from, target, integral, gust) <= 100
<1> DEFINE power == MoMoved(from, target, integral, gust)
           part == integral \div 10
           moved == MoClamp((target - from) + part, -300, 300)
<1>0. part \in Int /\ part <= 50 /\ -50 <= part
  OBVIOUS
<1> HIDE DEF part
<1>1. /\ gust \in Int /\ gust <= 49 /\ -50 <= gust
      /\ target \in Int /\ 200 <= target /\ target <= 9800
  OBVIOUS
<1>2. /\ moved \in Int
      /\ moved - (target - from) <= 50 /\ (target - from) - moved <= 50
  BY <1>0, <1>1 DEF MoClamp, MoGreater, MoLesser
<1> HIDE DEF moved
<1>3. from + moved + gust - target <= 100 /\ target - (from + moved + gust) <= 100
  BY <1>1, <1>2
<1>4. power = MoClamp(from + moved + gust, 0, 10000)
  BY DEF moved, part, MoMoved
<1> HIDE DEF power
<1>5. power = from + moved + gust
  BY <1>1, <1>2, <1>3, <1>4 DEF MoClamp, MoGreater, MoLesser
<1>6. power \in Int /\ power - target <= 100 /\ target - power <= 100
  BY <1>1, <1>2, <1>3, <1>5
<1> QED
  BY <1>6 DEF power

(* A step, in the values it works with.                                       *)
MoPlan == IF mRecovery.on THEN mSchedule ELSE MoSchedule(mStep)
MoModeNow == MoModeOf(CommAfterEvents, WeatherAfterEvents.on)
MoRecoveryNow == MoRecoveryAfter(MoModeNow)
MoTarget == IF MoRecoveryNow.on /\ ~ MoRecovered(MoRecoveryNow, MoPlan)
            THEN MoExpected(MoRecoveryNow) ELSE MoPlan

LEMMA MoValues ==
  ASSUME MoRanges, mStep < 50
  PROVE  /\ mStep \in 0..49 /\ mPower \in Int /\ MoPlan \in Int
         /\ WeatherAfterEvents \in [on : BOOLEAN, wind : Int, turb : Int]
         /\ MoModeNow \in {"normal", "freeze", "extreme"}
         /\ MoRecoveryNow \in MoRecoveries
         /\ MoRecovered(MoRecoveryNow, MoPlan) \in BOOLEAN
         /\ MoTarget \in Int
<1>1. /\ mStep \in 0..49 /\ mPower \in Int /\ mStep \in Int /\ mRecovery \in MoRecoveries
      /\ MoSchedule(mStep) \in Int
  <2>1. mStep \in 0..50 /\ mPower \in Int /\ mRecovery \in MoRecoveries
    BY DEF MoRanges, MoPowers
  <2> QED
    BY <2>1, MoScheduleLemma
<1>2. MoPlan \in Int
  BY <1>1 DEF MoPlan, MoRanges, MoPowers
<1>3. WeatherAfterEvents \in [on : BOOLEAN, wind : Int, turb : Int]
  BY DEF WeatherAfterEvents, MoRanges, MoPowers
<1>4. MoModeNow \in {"normal", "freeze", "extreme"}
  BY DEF MoModeNow, MoModeOf
<1>5. MoRecoveryNow \in MoRecoveries
  BY <1>1 DEF MoRecoveryNow, MoRecoveryAfter, MoRecoveries
<1>6. MoExpected(MoRecoveryNow) \in Int /\ MoRecovered(MoRecoveryNow, MoPlan) \in BOOLEAN
  <2>1. MoElapsed(MoRecoveryNow) \in Int
    BY <1>1, <1>5 DEF MoElapsed, MoRecoveries
  <2>2. (200 * MoElapsed(MoRecoveryNow)) \div 60 \in Int
    BY <2>1
  <2> QED
    BY <1>1, <1>2, <1>5, <2>1, <2>2
       DEF MoExpected, MoRecovered, MoAbs, MoClamp, MoGreater, MoLesser, MoRecoveries
<1> QED
  BY <1>1, <1>2, <1>3, <1>4, <1>5, <1>6 DEF MoTarget

LEMMA MoStepLemma ==
  ASSUME MoRanges, MoStep
  PROVE  /\ mStep' = mStep + 1 /\ mStep < 50
         /\ mComm' = CommAfterEvents /\ mWeather' = WeatherAfterEvents /\ mSchedule' = MoPlan
         /\ mMode' = MoModeNow /\ mFrozen' = MoFrozenAfter(MoModeNow)
         /\ mRecovery' = IF MoModeNow = "normal" /\ MoRecoveryNow.on
                         THEN [MoRecoveryNow EXCEPT !.on = ~ MoRecovered(MoRecoveryNow, MoPlan)]
                         ELSE MoRecoveryNow
         /\ MoRanges'
         /\ MoModeNow = "normal" => \E i \in -500..500 :
              mPower' = MoMoved(mPower, MoTarget, i, mGust')
         /\ MoModeNow = "freeze" => mPower' = MoDrifted(mPower, mGust')
<1> DEFINE integral == MoClamp(mIntegral + 2 * (MoTarget - mPower), -500, 500)
           normal == mPower + MoClamp((MoTarget - mPower) + integral \div 10, -300, 300)
<1>1. /\ mStep' = mStep + 1 /\ mStep < 50
      /\ mComm' = CommAfterEvents /\ mWeather' = WeatherAfterEvents /\ mSchedule' = MoPlan
      /\ mMode' = MoModeNow /\ mFrozen' = MoFrozenAfter(MoModeNow)
      /\ mRecovery' = IF MoModeNow = "normal" /\ MoRecoveryNow.on
                      THEN [MoRecoveryNow EXCEPT !.on = ~ MoRecovered(MoRecoveryNow, MoPlan)]
                      ELSE MoRecoveryNow
      /\ mIntegral' = IF MoModeNow = "normal" THEN integral ELSE mIntegral
  BY DEF MoStep, MoPlan, MoModeNow, MoRecoveryNow, MoTarget
<1>2. \E gust \in IF mStep % 5 = 0 THEN MoGusts ELSE {mGust} :
        /\ mGust' = gust
        /\ mPower' = MoClamp(CASE MoModeNow = "normal" -> normal + gust
                               [] MoModeNow = "freeze" -> mPower + (3 * gust) \div 10
                               [] MoModeNow = "extreme" ->
                                    MoCut(MoSub(WeatherAfterEvents)) + (3 * gust) \div 10,
                             0, MoRated)
  BY DEF MoStep, MoPlan, MoModeNow, MoRecoveryNow, MoTarget
<1>3. /\ mStep \in 0..49 /\ mPower \in Int /\ MoPlan \in Int
      /\ WeatherAfterEvents \in [on : BOOLEAN, wind : Int, turb : Int]
      /\ MoModeNow \in {"normal", "freeze", "extreme"}
      /\ MoRecoveryNow \in MoRecoveries
      /\ MoRecovered(MoRecoveryNow, MoPlan) \in BOOLEAN
      /\ MoTarget \in Int
  BY <1>1, MoValues
<1>4. integral \in -500..500
  <2>1. mIntegral + 2 * (MoTarget - mPower) \in Int
    BY <1>3 DEF MoRanges, MoPowers
  <2> QED
    BY <2>1 DEF MoClamp, MoGreater, MoLesser
<1> HIDE DEF integral
<1>5. mGust' \in -50..49 /\ mGust' \in Int
  BY <1>2, DemoAssumption DEF MoRanges, MoPowers
<1>6. normal \in Int
  <2>1. (MoTarget - mPower) + integral \div 10 \in Int
    BY <1>3, <1>4
  <2> QED
    BY <1>3, <2>1 DEF MoClamp, MoGreater, MoLesser
<1> HIDE DEF normal
<1>7. /\ MoModeNow = "normal" => mPower' = MoClamp(normal + mGust', 0, 10000)
      /\ MoModeNow = "freeze" => mPower' = MoClamp(mPower + (3 * mGust') \div 10, 0, 10000)
      /\ MoModeNow = "extreme" =>
           mPower' = MoClamp(MoCut(MoSub(WeatherAfterEvents)) + (3 * mGust') \div 10, 0, 10000)
  BY <1>2 DEF MoRated
<1>8. mPower' \in 0..10000
  <2>1. /\ normal + mGust' \in Int /\ mPower + (3 * mGust') \div 10 \in Int
        /\ MoCut(MoSub(WeatherAfterEvents)) + (3 * mGust') \div 10 \in Int
    <3>1. mPower \in 0..10000 /\ (3 * mGust') \div 10 \in Int
      BY <1>5 DEF MoRanges, MoPowers
    <3> QED
      BY <1>5, <1>6, <3>1, MoCutLemma
  <2>2. PICK moved \in Int : mPower' = MoClamp(moved, 0, 10000)
    BY <1>3, <1>7, <2>1
  <2> QED
    BY <2>2 DEF MoClamp, MoGreater, MoLesser
<1>9. mFrozen' \in 0..10000
  BY <1>1 DEF MoFrozenAfter, MoRanges, MoPowers
<1>10. mRecovery' \in MoRecoveries
  BY <1>1, <1>3 DEF MoRecoveries
<1>11. MoRanges'
  <2>1. mStep' \in 0..50
    BY <1>1, <1>3
  <2>2. mIntegral' \in -500..500
    BY <1>1, <1>4 DEF MoRanges, MoPowers
  <2>3. mSchedule' \in Int /\ mWeather' \in [on : BOOLEAN, wind : Int, turb : Int]
        /\ mMode' \in {"normal", "freeze", "extreme"}
    BY <1>1, <1>3
  <2>4. mGust' \in -50..49
    BY <1>5
  <2>5. MoPowers'
    BY <1>8, <1>9 DEF MoPowers
  <2> QED
    BY <1>10, <2>1, <2>2, <2>3, <2>4, <2>5 DEF MoRanges
<1>12. MoModeNow = "normal" => \E i \in -500..500 :
         mPower' = MoMoved(mPower, MoTarget, i, mGust')
  BY <1>4, <1>7 DEF normal, MoMoved
<1>13. MoModeNow = "freeze" => mPower' = MoDrifted(mPower, mGust')
  BY <1>7 DEF MoDrifted
<1> QED
  BY <1>1, <1>11, <1>12, <1>13

LEMMA MoCourseStep ==
  ASSUME MoRanges, MoCourse, MoStep
  PROVE  MoCourse'
<1>1. /\ mStep' = mStep + 1 /\ mComm' = CommAfterEvents /\ mWeather' = WeatherAfterEvents
      /\ mSchedule' = MoPlan /\ mMode' = MoModeNow /\ mFrozen' = MoFrozenAfter(MoModeNow)
  BY MoStepLemma
<1>2. mRecovery' = IF MoModeNow = "normal" /\ MoRecoveryNow.on
                   THEN [MoRecoveryNow EXCEPT !.on = ~ MoRecovered(MoRecoveryNow, MoPlan)]
                   ELSE MoRecoveryNow
  BY MoStepLemma
<1>3. MoModeNow = "normal" => \E i \in -500..500 :
        mPower' = MoMoved(mPower, MoTarget, i, mGust')
  BY MoStepLemma
<1>4. MoModeNow = "freeze" => mPower' = MoDrifted(mPower, mGust')
  BY MoStepLemma
<1>5. mStep < 50 /\ MoRanges'
  BY MoStepLemma
<1>6. mGust' \in -50..49 /\ mPower' \in Int
  BY <1>5 DEF MoRanges, MoPowers
<1>7. mStep \in 0..49 /\ MoTarget \in Int /\ mPower \in Int
  BY <1>5, MoValues
<1>8. mRecovery \in MoRecoveries
  BY DEF MoRanges, MoPowers
<1>9. ASSUME MoModeNow = "normal", 200 <= MoTarget, MoTarget <= 9800,
             MoTarget - mPower <= 300, mPower - MoTarget <= 300
      PROVE  mPower' - MoTarget <= 100 /\ MoTarget - mPower' <= 100
  <2>1. PICK i \in -500..500 :
          mPower' = MoMoved(mPower, MoTarget, i, mGust')
    BY <1>3, <1>9
  <2> QED
    <3>1. mGust' \in Int /\ -50 <= mGust' /\ mGust' <= 49 /\ mPower \in Int /\ MoTarget \in Int
          /\ i \in Int /\ -500 <= i /\ i <= 500
      BY <1>6, <1>7
    <3>2. /\ MoMoved(mPower, MoTarget, i, mGust') - MoTarget <= 100
          /\ MoTarget - MoMoved(mPower, MoTarget, i, mGust') <= 100
      BY <1>9, <3>1, MoFollows
    <3> QED
      BY <2>1, <3>2, Zenon
<1>10. mStep \in Int /\ 0 <= mStep /\ mStep <= 49
  BY <1>7
<1>11. CASE mStep = 0 \/ mStep = 1
  <2>1. CommAfterEvents = TRUE /\ WeatherAfterEvents = mWeather /\ ~ mWeather.on
    BY <1>11 DEF CommAfterEvents, WeatherAfterEvents, MoCourse
  <2>2. MoModeNow = "normal" /\ mMode = "normal" /\ ~ mRecovery.on
    BY <1>11, <2>1 DEF MoModeNow, MoModeOf, MoCourse
  <2>3. MoRecoveryNow = mRecovery
    BY <2>2 DEF MoRecoveryNow, MoRecoveryAfter
  <2>4. MoTarget = MoSchedule(mStep)
    BY <2>2, <2>3 DEF MoTarget, MoPlan
  <2>5. mComm' /\ mMode' = "normal" /\ ~ mWeather'.on /\ ~ mRecovery'.on
    BY <1>1, <1>2, <2>1, <2>2, <2>3
  <2>6. CASE mStep = 0
    <3>1. MoTarget = 5000 /\ mPower = 5000
      BY <2>4, <2>6, MoScheduleLemma DEF MoCourse
    <3>2. mPower' - 5000 <= 100 /\ 5000 - mPower' <= 100
      BY <1>9, <2>2, <3>1
    <3>3. mStep' = 1
      BY <1>1, <2>6
    <3> QED
      BY <2>5, <3>2, <3>3 DEF MoCourse
  <2>7. CASE mStep = 1
    <3>1. MoTarget = 5156 /\ mPower - 5000 <= 100 /\ 5000 - mPower <= 100
      BY <2>4, <2>7, MoScheduleLemma DEF MoCourse
    <3>2. MoTarget - mPower <= 300 /\ mPower - MoTarget <= 300
      BY <1>7, <3>1
    <3>3. mPower' - 5156 <= 100 /\ 5156 - mPower' <= 100
      BY <1>9, <2>2, <3>1, <3>2
    <3>4. mStep' = 2
      BY <1>1, <2>7
    <3> QED
      BY <2>5, <3>3, <3>4 DEF MoCourse
  <2> QED
    BY <1>11, <2>6, <2>7
<1>12. ASSUME 2 <= mStep, mStep <= 6
       PROVE  /\ ~ CommAfterEvents /\ WeatherAfterEvents = mWeather /\ ~ mWeather.on
              /\ MoModeNow = "freeze" /\ MoRecoveryNow = mRecovery /\ ~ mRecovery.on
  <2>1. CommAfterEvents = FALSE /\ WeatherAfterEvents = mWeather /\ ~ mWeather.on
    BY <1>10, <1>12 DEF CommAfterEvents, WeatherAfterEvents, MoCourse
  <2>2. MoModeNow = "freeze"
    BY <2>1 DEF MoModeNow, MoModeOf
  <2>3. ~ mRecovery.on /\ MoRecoveryNow = mRecovery
    BY <1>10, <1>12, <2>2 DEF MoRecoveryNow, MoRecoveryAfter, MoCourse
  <2> QED
    BY <2>1, <2>2, <2>3
<1>13. ASSUME 2 <= mStep, mStep <= 6, 1000 <= mPower, mPower <= 9000
       PROVE  mPower' - mPower <= 15 /\ mPower - mPower' <= 15
  <2>1. mPower' = MoDrifted(mPower, mGust')
    BY <1>4, <1>12, <1>13
  <2> QED
    <3>1. mGust' \in Int /\ -50 <= mGust' /\ mGust' <= 49 /\ mPower \in Int
      BY <1>6, <1>7
    <3>2. /\ MoDrifted(mPower, mGust') - mPower <= 15
          /\ mPower - MoDrifted(mPower, mGust') <= 15
      BY <1>13, <3>1, MoDrift
    <3> QED
      BY <2>1, <3>2, Zenon
<1>14. CASE mStep = 2
  <2>1. mPower - 5156 <= 100 /\ 5156 - mPower <= 100 /\ mMode = "normal"
    BY <1>14 DEF MoCourse
  <2>2. mPower' - mPower <= 15 /\ mPower - mPower' <= 15
    BY <1>7, <1>13, <1>14, <2>1
  <2>3. mFrozen' = mPower
    BY <1>1, <1>12, <1>14, <2>1 DEF MoFrozenAfter
  <2>4. mStep' = 3
    BY <1>1, <1>14
  <2>5. ~ mComm' /\ mMode' = "freeze" /\ ~ mWeather'.on /\ ~ mRecovery'.on
    BY <1>1, <1>2, <1>12, <1>14
  <2>6. /\ mFrozen' - 5156 <= 100 /\ 5156 - mFrozen' <= 100
        /\ mPower' - mFrozen' <= 15 /\ mFrozen' - mPower' <= 15
    BY <2>1, <2>2, <2>3
  <2>7. 15 * (mStep' - 2) = 15
    BY <2>4
  <2> QED
    BY <2>4, <2>5, <2>6, <2>7 DEF MoCourse
<1>15. CASE 3 <= mStep /\ mStep <= 6
  <2>1. /\ mFrozen - 5156 <= 100 /\ 5156 - mFrozen <= 100 /\ mMode = "freeze"
        /\ mPower - mFrozen <= 15 * (mStep - 2) /\ mFrozen - mPower <= 15 * (mStep - 2)
    BY <1>10, <1>15 DEF MoCourse
  <2>2. mFrozen \in Int
    BY DEF MoRanges, MoPowers
  <2>3. mPower' - mPower <= 15 /\ mPower - mPower' <= 15
    BY <1>7, <1>10, <1>13, <1>15, <2>1, <2>2
  <2>4. mFrozen' = mFrozen
    BY <1>1, <1>12, <1>15, <1>10, <2>1 DEF MoFrozenAfter
  <2>5. ~ mComm' /\ mMode' = "freeze" /\ ~ mWeather'.on /\ ~ mRecovery'.on
    BY <1>1, <1>2, <1>10, <1>12, <1>15
  <2>6. mPower' - mFrozen <= 15 * (mStep - 1) /\ mFrozen - mPower' <= 15 * (mStep - 1)
    <3>1. PICK far \in Int : far = 15 * (mStep - 2)
      BY <1>10
    <3>2. PICK next \in Int : next = mPower'
      BY <1>6
    <3>3. PICK now \in Int : now = mPower
      BY <1>7
    <3>4. PICK held \in Int : held = mFrozen
      BY <2>2
    <3>5. now - held <= far /\ held - now <= far
      <4>1. mPower - mFrozen <= 15 * (mStep - 2) /\ mFrozen - mPower <= 15 * (mStep - 2)
        BY <2>1
      <4>2. mPower - mFrozen <= far /\ mFrozen - mPower <= far
        BY <3>1, <4>1
      <4> QED
        BY <3>3, <3>4, <4>2
    <3>6. next - now <= 15 /\ now - next <= 15
      BY <2>3, <3>2, <3>3, Zenon
    <3>7. next - held <= far + 15 /\ held - next <= far + 15
      BY <3>5, <3>6
    <3>8. 15 * (mStep - 1) = far + 15
      BY <1>10, <3>1
    <3> QED
      BY <3>2, <3>4, <3>7, <3>8, Zenon
  <2>7. mStep' = mStep + 1 /\ 4 <= mStep' /\ mStep' <= 7 /\ mStep' - 2 = mStep - 1
    BY <1>1, <1>10, <1>15
  <2> QED
    BY <2>1, <2>4, <2>5, <2>6, <2>7 DEF MoCourse
<1>16. ASSUME 7 <= mStep, mStep <= 11, MoModeNow = "normal", MoPlan = 5891,
              MoRecoveryNow \in MoRecoveries, MoRecoveryNow.on, MoRecoveryNow.since = 7,
              MoRecoveryNow.target = 5891,
              MoRecoveryNow.start - 5156 <= 180, 5156 - MoRecoveryNow.start <= 180,
              mPower - MoRecoveryNow.start <= 130, MoRecoveryNow.start - mPower <= 130
       PROVE  /\ ~ MoRecovered(MoRecoveryNow, MoPlan)
              /\ MoTarget = MoRecoveryNow.start + (400 * (mStep - 7)) \div 60
              /\ mPower' - MoTarget <= 100 /\ MoTarget - mPower' <= 100
  <2>1. MoRecoveryNow.start \in Int
    BY <1>16 DEF MoRecoveries
  <2>2. ~ MoRecovered(MoRecoveryNow, MoPlan)
    BY <1>7, <1>16, <2>1 DEF MoRecovered, MoAbs
  <2>3. MoTarget = MoExpected(MoRecoveryNow)
    BY <1>16, <2>2 DEF MoTarget
  <2> DEFINE change == (400 * (mStep - 7)) \div 60
  <2>4. (200 * (2 * (mStep - 7))) \div 60 = change
    BY <1>10
  <2>5. change \in Int /\ 0 <= change /\ change <= 30
    BY <1>10, <1>16
  <2>6. MoExpected(MoRecoveryNow)
          = MoRecoveryNow.start + MoClamp(5891 - MoRecoveryNow.start, -change, change)
    BY <1>16, <2>4 DEF MoExpected, MoElapsed
  <2> HIDE DEF change
  <2>7. MoTarget = MoRecoveryNow.start + change
    BY <1>16, <2>1, <2>3, <2>5, <2>6 DEF MoClamp, MoGreater, MoLesser
  <2>8. /\ 200 <= MoTarget /\ MoTarget <= 9800
        /\ MoTarget - mPower <= 300 /\ mPower - MoTarget <= 300
    BY <1>7, <1>16, <2>1, <2>5, <2>7
  <2>9. mPower' - MoTarget <= 100 /\ MoTarget - mPower' <= 100
    BY <1>9, <1>16, <2>8
  <2> QED
    BY <2>2, <2>7, <2>9 DEF change
<1>17. CASE mStep = 7
  <2>1. /\ ~ mComm /\ mMode = "freeze" /\ ~ mRecovery.on /\ ~ mWeather.on
        /\ mFrozen - 5156 <= 100 /\ 5156 - mFrozen <= 100
        /\ mPower - mFrozen <= 75 /\ mFrozen - mPower <= 75
    BY <1>17 DEF MoCourse
  <2>2. CommAfterEvents = TRUE /\ WeatherAfterEvents = mWeather
    BY <1>17 DEF CommAfterEvents, WeatherAfterEvents
  <2>3. MoModeNow = "normal"
    BY <2>1, <2>2 DEF MoModeNow, MoModeOf
  <2>4. MoRecoveryNow = [on |-> TRUE, start |-> mPower, target |-> 5891, since |-> 7]
    <3>1. MoSchedule(mStep) = 5891
      BY <1>17, MoScheduleLemma
    <3>2. mMode = "freeze" /\ MoModeNow = "normal" /\ ~ mRecovery.on
      BY <2>1, <2>3
    <3>3. MoRecoveryNow = [on |-> TRUE, start |-> mPower, target |-> MoSchedule(mStep),
                           since |-> mStep]
      BY <3>2, Zenon DEF MoRecoveryNow, MoRecoveryAfter
    <3> QED
      BY <1>17, <3>1, <3>3, Zenon
  <2>5. MoPlan = 5891
    BY <1>17, <2>1, MoScheduleLemma DEF MoPlan
  <2>6. mFrozen \in Int
    BY DEF MoRanges, MoPowers
  <2>7. /\ ~ MoRecovered(MoRecoveryNow, MoPlan)
        /\ MoTarget = mPower + (400 * (mStep - 7)) \div 60
        /\ mPower' - MoTarget <= 100 /\ MoTarget - mPower' <= 100
    <3>1. mPower - 5156 <= 180 /\ 5156 - mPower <= 180 /\ mPower - mPower <= 130
      BY <1>7, <2>1, <2>6
    <3>2. MoRecoveryNow \in MoRecoveries
      BY <1>7, <2>4 DEF MoRecoveries
    <3> QED
      BY <1>7, <1>16, <1>17, <2>3, <2>4, <2>5, <3>1, <3>2
  <2>8. mStep' = 8 /\ mFrozen' = mFrozen
    BY <1>1, <1>17, <2>3, <2>1 DEF MoFrozenAfter
  <2>9. mRecovery'.on /\ mRecovery'.since = 7 /\ mRecovery'.target = 5891
        /\ mRecovery'.start = mPower
    <3>1. MoRecoveryNow.on /\ MoRecoveryNow \in MoRecoveries
          /\ MoRecoveryNow.since = 7 /\ MoRecoveryNow.target = 5891
          /\ MoRecoveryNow.start = mPower
      BY <1>7, <2>4 DEF MoRecoveries
    <3> QED
      BY <1>2, <2>3, <2>7, <3>1 DEF MoRecoveries
  <2>10. mComm' /\ mMode' = "normal" /\ ~ mWeather'.on /\ mSchedule' = 5891
    BY <1>1, <2>1, <2>2, <2>3, <2>5
  <2>11. (400 * (mStep' - 8)) \div 60 = (400 * (mStep - 7)) \div 60
    BY <1>17, <2>8
  <2> QED
    BY <2>1, <2>7, <2>8, <2>9, <2>10, <2>11 DEF MoCourse
<1>18. CASE 8 <= mStep /\ mStep <= 11
  <2> DEFINE ramp == mRecovery.start + (400 * (mStep - 8)) \div 60
  <2>1. /\ mComm /\ mMode = "normal" /\ mSchedule = 5891 /\ ~ mWeather.on
        /\ mFrozen - 5156 <= 100 /\ 5156 - mFrozen <= 100
        /\ mRecovery.on /\ mRecovery.since = 7 /\ mRecovery.target = 5891
        /\ mRecovery.start - mFrozen <= 75 /\ mFrozen - mRecovery.start <= 75
        /\ mPower - ramp <= 100 /\ ramp - mPower <= 100
    BY <1>10, <1>18 DEF MoCourse
  <2>2. CommAfterEvents = TRUE /\ WeatherAfterEvents = mWeather
    <3>1. mStep \notin {2, 7, 12, 17, 22, 27}
      BY <1>10, <1>18
    <3> QED
      BY <2>1, <3>1 DEF CommAfterEvents, WeatherAfterEvents
  <2>3. MoModeNow = "normal"
    BY <2>1, <2>2 DEF MoModeNow, MoModeOf
  <2>4. MoRecoveryNow = mRecovery
    BY <2>1 DEF MoRecoveryNow, MoRecoveryAfter
  <2>5. MoPlan = 5891
    BY <2>1 DEF MoPlan
  <2>6. mFrozen \in Int /\ mRecovery.start \in Int
    BY <1>8 DEF MoRanges, MoPowers, MoRecoveries
  <2>7. /\ ~ MoRecovered(mRecovery, MoPlan)
        /\ MoTarget = mRecovery.start + (400 * (mStep - 7)) \div 60
        /\ mPower' - MoTarget <= 100 /\ MoTarget - mPower' <= 100
    <3>1. mRecovery.start - 5156 <= 180 /\ 5156 - mRecovery.start <= 180
      BY <2>1, <2>6
    <3>2. mPower - mRecovery.start <= 130 /\ mRecovery.start - mPower <= 130
      BY <1>7, <1>10, <1>18, <2>1, <2>6
    <3> QED
      BY <1>8, <1>16, <1>10, <1>18, <2>1, <2>3, <2>4, <2>5, <3>1, <3>2
  <2>8. mStep' = mStep + 1 /\ mFrozen' = mFrozen
    BY <1>1, <2>3 DEF MoFrozenAfter
  <2>9. mRecovery'.on /\ mRecovery'.since = 7 /\ mRecovery'.target = 5891
        /\ mRecovery'.start = mRecovery.start
    BY <1>2, <1>8, <2>1, <2>3, <2>4, <2>7 DEF MoRecoveries
  <2>10. mComm' /\ mMode' = "normal" /\ ~ mWeather'.on /\ mSchedule' = 5891
    BY <1>1, <2>1, <2>2, <2>3, <2>5
  <2>11. mStep' - 8 = mStep - 7 /\ 9 <= mStep' /\ mStep' <= 12 /\ mStep' \in Int
    BY <1>10, <1>18, <2>8
  <2> QED
    BY <2>1, <2>7, <2>8, <2>9, <2>10, <2>11 DEF MoCourse
<1>19. CASE 12 <= mStep
  <2>1. mStep' \in Int /\ 13 <= mStep'
    BY <1>1, <1>10, <1>19
  <2> QED
    BY <2>1 DEF MoCourse
<1> QED
  BY <1>10, <1>11, <1>14, <1>15, <1>17, <1>18, <1>19

(* Every state of the demonstration keeps the invariant.                      *)
LEMMA MoCourseKept == MoSpec => [](MoRanges /\ MoCourse)
<1>1. MoInit => MoRanges /\ MoCourse
  <2> SUFFICES ASSUME MoInit PROVE MoRanges /\ MoCourse
    OBVIOUS
  <2>1. mStep = 0 /\ mPower = 5000 /\ mSchedule = 5000 /\ mComm = TRUE /\ mMode = "normal"
        /\ mFrozen = 0 /\ mIntegral = 0 /\ mGust = 0
    <3>1. MoSchedule(0) = 5000
      BY MoScheduleLemma
    <3>2. mStep = 0 /\ mPower = MoSchedule(0) /\ mSchedule = MoSchedule(0) /\ mComm = TRUE
          /\ mMode = "normal" /\ mFrozen = 0 /\ mIntegral = 0 /\ mGust = 0
      BY Zenon DEF MoInit
    <3> QED
      BY <3>1, <3>2
  <2>2. mWeather = [on |-> FALSE, wind |-> 0, turb |-> 0]
        /\ mRecovery = [on |-> FALSE, start |-> 0, target |-> 0, since |-> 0]
    BY DEF MoInit
  <2>3. MoRanges
    BY <2>1, <2>2 DEF MoRanges, MoPowers, MoRecoveries
  <2>4. MoCourse
    BY <2>1, <2>2 DEF MoCourse
  <2> QED
    BY <2>3, <2>4
<1>2. (MoRanges /\ MoCourse) /\ [MoNext]_demoVars => (MoRanges /\ MoCourse)'
  <2> SUFFICES ASSUME MoRanges, MoCourse, [MoNext]_demoVars
               PROVE  MoRanges' /\ MoCourse'
    OBVIOUS
  <2>1. CASE MoStep
    BY <2>1, MoStepLemma, MoCourseStep
  <2>2. CASE UNCHANGED demoVars
    <3>1. MoPowers'
      BY <2>2 DEF demoVars, MoRanges, MoPowers
    <3>2. MoRanges'
      BY <2>2, <3>1 DEF demoVars, MoRanges
    <3>3. MoCourse'
      BY <2>2 DEF demoVars, MoCourse
    <3> QED
      BY <3>2, <3>3
  <2> QED
    BY <2>1, <2>2 DEF MoNext
<1> QED
  BY <1>1, <1>2, PTL DEF MoSpec

(* The ranges of the demonstration's variables; its integral is clamped at     *)
(* 5 MW (the loop at lines 371-383).                                           *)
THEOREM DemoTypeCorrect == MoSpec => []MoTypeOK
<1>1. MoRanges => MoTypeOK
  BY DEF MoRanges, MoPowers, MoTypeOK, MoRated
<1> QED
  BY <1>1, MoCourseKept, PTL

(* After the loss of communication the field follows the ramp of the recovery  *)
(* and not the schedule that moved on, whatever the gusts are (the callback at *)
(* line 246 and the loop at lines 313-320).                                    *)
THEOREM DemoReturnFollowsRamp == MoSpec => []MoReturnFollowsRamp
<1>1. MoRanges /\ MoCourse => MoReturnFollowsRamp
  <2> SUFFICES ASSUME MoRanges, MoCourse, mStep \in 8..12
               PROVE  MoAbs(mPower - mFrozen) <= 180 + (400 * (mStep - 7)) \div 60
    BY DEF MoReturnFollowsRamp
  <2> DEFINE done == (400 * (mStep - 8)) \div 60
             todo == (400 * (mStep - 7)) \div 60
  <2>1. /\ mRecovery.start - mFrozen <= 75 /\ mFrozen - mRecovery.start <= 75
        /\ mPower - (mRecovery.start + done) <= 100 /\ (mRecovery.start + done) - mPower <= 100
    BY DEF MoCourse
  <2>2. mPower \in Int /\ mFrozen \in Int /\ mRecovery.start \in Int
    BY DEF MoRanges, MoPowers, MoRecoveries
  <2>3. done \in Int /\ todo \in Int /\ done <= todo /\ 0 <= done
    OBVIOUS
  <2> HIDE DEF done, todo
  <2>4. MoAbs(mPower - mFrozen) <= 180 + todo
    BY <2>1, <2>2, <2>3 DEF MoAbs
  <2> QED
    BY <2>4 DEF todo
<1> QED
  BY <1>1, MoCourseKept, PTL

-----------------------------------------------------------------------------
(*                           Frequency regulation                            *)

(* What the simulator makes of a frequency and a power.                       *)
FrAnswer(dev, power) == FrClamp(dev + power \div 2, -500000, 200000)

(* The integral and fourteen times the deviation share a budget: what a cycle  *)
(* adds to the integral it has taken from the deviation, fourteen times.      *)
FrBudget(integral, dev) == 0 <= integral + 14 * dev + 7100001

(* The answer to a cycle within the budget stays below nominal, far below when *)
(* the cycle started far below, and leaves the budget for the next integral.  *)
LEMMA FrAnswerLemma ==
  ASSUME NEW dev \in Int, NEW integral \in Int, -500000 <= dev, dev <= -3000, integral <= 0,
         FrBudget(integral, dev)
  PROVE  /\ FrRegulation(integral, dev) \in Int
         /\ -1500000 <= FrRegulation(integral, dev) /\ FrRegulation(integral, dev) <= 1500000
         /\ FrAnswer(dev, FrRegulation(integral, dev)) \in Int
         /\ -500000 <= FrAnswer(dev, FrRegulation(integral, dev))
         /\ FrAnswer(dev, FrRegulation(integral, dev)) <= 0
         /\ dev <= -20000 => FrAnswer(dev, FrRegulation(integral, dev)) <= -3000
         /\ FrIntegrated(integral, FrAnswer(dev, FrRegulation(integral, dev))) \in Int
         /\ FrIntegrated(integral, FrAnswer(dev, FrRegulation(integral, dev))) <= 0
         /\ FrBudget(FrIntegrated(integral, FrAnswer(dev, FrRegulation(integral, dev))),
                     FrAnswer(dev, FrRegulation(integral, dev)))
<1> DEFINE prop == (-30 * dev) \div 1000
           past == (8 * integral) \div 10000
           power == FrRegulation(integral, dev)
           half == power \div 2
           answer == FrAnswer(dev, power)
           fifth == answer \div 5
<1>1. prop \in Int /\ 1000 * prop <= -30 * dev /\ -30 * dev <= 1000 * prop + 999
  OBVIOUS
<1>2. past \in Int /\ 10000 * past <= 8 * integral /\ 8 * integral <= 10000 * past + 9999
  OBVIOUS
<1>3. power = FrClamp(prop - past, -1500000, 1500000)
  BY DEF FrRegulation
<1>4. 0 <= integral + 14 * dev + 7100001
  BY DEF FrBudget
<1> HIDE DEF prop, past, power
<1>5. power = prop - past /\ 0 <= power /\ power <= 1500000 /\ power \in Int
  BY <1>1, <1>2, <1>3, <1>4 DEF FrClamp
<1>6. half \in Int /\ 2 * half <= power /\ power <= 2 * half + 1
  BY <1>5
<1>7. answer = FrClamp(dev + half, -500000, 200000)
  BY DEF FrAnswer
<1> HIDE DEF half, answer
<1>8. answer = dev + half /\ answer \in Int /\ -500000 <= answer /\ answer <= 0
  BY <1>1, <1>2, <1>4, <1>5, <1>6, <1>7 DEF FrClamp
<1>9. dev <= -20000 => answer <= -3000
  BY <1>1, <1>2, <1>4, <1>5, <1>6, <1>8
<1>10. fifth \in Int /\ 5 * fifth <= answer /\ answer <= 5 * fifth + 4
  BY <1>8
<1>11. FrIntegrated(integral, answer) = IF answer < -5000 THEN integral + fifth ELSE integral
  BY <1>8 DEF FrIntegrated, FrAbs
<1> HIDE DEF fifth
<1>12. FrIntegrated(integral, answer) \in Int /\ FrIntegrated(integral, answer) <= 0
  BY <1>8, <1>10, <1>11
<1>13. 0 <= integral + 14 * answer + 7100001
  BY <1>4, <1>5, <1>6, <1>8, <1>1, <1>2
<1>14. answer < -5000 => 0 <= integral + fifth + 14 * answer + 7100001
  BY <1>1, <1>2, <1>4, <1>5, <1>6, <1>8, <1>10
<1>15. FrBudget(FrIntegrated(integral, answer), answer)
  BY <1>8, <1>10, <1>11, <1>13, <1>14 DEF FrBudget
<1>16. -1500000 <= power
  BY <1>5
<1> QED
  BY <1>5, <1>8, <1>9, <1>12, <1>15, <1>16 DEF answer, power
(* The return to READY: nothing is left to integrate, and the power is small.  *)
LEMMA FrReturnLemma ==
  ASSUME NEW dev \in Int, -3000 < dev, dev <= 0
  PROVE  /\ FrIntegrated(0, dev) = 0
         /\ FrRegulation(0, dev) \in Int
         /\ 0 <= FrRegulation(0, dev) /\ FrRegulation(0, dev) <= 90
         /\ FrRegulation(0, 0) = 0
BY DEF FrIntegrated, FrRegulation, FrAbs, FrClamp

(* The dip itself, as the first cycle that sees it finds it.                   *)
LEMMA FrDipLemma ==
  ASSUME NEW dip \in Int, 100001 <= dip, dip <= 500000
  PROVE  /\ FrAbs(-dip) > 100000
         /\ FrIntegrated(0, -dip) \in Int /\ FrIntegrated(0, -dip) <= 0
         /\ FrBudget(FrIntegrated(0, -dip), -dip)
BY DEF FrIntegrated, FrAbs, FrBudget

(* What the next regulation finds, and what it leaves behind.                  *)
FrAnswered(state, integral, dev) ==
  /\ state = "ACTIVE" => dev <= -3000
  /\ FrIntegrated(integral, dev) \in Int /\ FrIntegrated(integral, dev) <= 0
  /\ FrBudget(FrIntegrated(integral, dev), dev)
FrPowered(state, integral, dev, power) ==
  /\ state = "ACTIVE" => dev <= -20000
  /\ dev <= -3000
  /\ FrBudget(integral, dev)
  /\ power = FrRegulation(integral, dev)

FrSeeings == [disturbed : BOOLEAN, dev : Int]

(* At rest: before the dip, after it was lost or not seen yet, and after the   *)
(* return.                                                                     *)
FrRest ==
  /\ frIntegral = 0
  /\ frDisturbed => /\ frPower = 0
                    /\ frDev \in {0, -FrDip} /\ frSeen.dev \in {0, -FrDip}
                    /\ frPc = "regulate" => frDev = frSeen.dev \/ frDev = -FrDip
  /\ ~ frDisturbed => /\ 0 <= frPower /\ frPower <= 90
                      /\ -3000 < frDev /\ frDev <= 0
                      /\ frPc = "write" => ~ frSeen.disturbed
                      /\ frPc = "regulate" => frDev = 0 /\ frSeen.dev = 0

FrWithinPower(power) == -1500000 <= power /\ power <= 1500000
FrAboveFloor(dev) == -500000 <= dev

(* At work: the simulator remembers the disturbance, nobody else writes its    *)
(* frequency, and the next integral stays within the budget.                   *)
FrWork ==
  /\ frMain \notin {"wait", "freq"} /\ frDisturbed
  /\ frPc \in {"write", "regulate"} => frSeen.dev = frDev
  /\ frPc = "write" => frSeen.disturbed
  /\ FrAboveFloor(frDev) /\ frDev <= 0 /\ frIntegral <= 0
  /\ frPc = "regulate" => FrAnswered(frState, frIntegral, frDev)
  /\ frPc # "regulate" => FrPowered(frState, frIntegral, frDev, frPower)

FrTypes ==
  /\ frMain \in {"wait", "freq", "log", "cache", "done"}
  /\ frPc \in {"sense", "write", "regulate", "log", "turbines"}
  /\ frState \in {"READY", "ACTIVE", "RECOVERY"} /\ frDisturbed \in BOOLEAN
  /\ frSeen \in FrSeeings
  /\ frDev \in Int /\ frIntegral \in Int
  /\ frPower \in Int /\ FrWithinPower(frPower)

FrBefore ==
  /\ frMain \in {"wait", "freq"} =>
       frState = "READY" /\ frDev = 0 /\ frSeen.dev = 0 /\ frPower = 0
  /\ frMain = "freq" => frDisturbed

FrInv ==
  /\ FrTypes /\ FrBefore
  /\ frState = "READY" => FrRest
  /\ frState # "READY" => FrWork

LEMMA FrInitLemma == FrInit => FrInv
<1> SUFFICES ASSUME FrInit PROVE FrInv
  OBVIOUS
<1>1. /\ frMain = "wait" /\ frPc = "sense" /\ frDisturbed = FALSE /\ frDev = 0
      /\ frState = "READY" /\ frPower = 0 /\ frIntegral = 0
  BY Zenon DEF FrInit
<1>5. frSeen \in FrSeeings /\ frSeen.dev = 0
  <2>1. frSeen = [disturbed |-> FALSE, dev |-> 0]
    BY Zenon DEF FrInit
  <2>2. [disturbed |-> FALSE, dev |-> 0] \in FrSeeings
    BY DEF FrSeeings
  <2> QED
    BY <2>1, <2>2, Zenon
<1>2. FrTypes
  <2>1. frPower \in Int /\ 0 <= frPower /\ frPower <= 0 /\ frDev \in Int /\ frIntegral \in Int
    BY <1>1
  <2>2. FrWithinPower(frPower)
    BY <2>1, SMT DEF FrWithinPower
  <2>3. /\ frMain \in {"wait", "freq", "log", "cache", "done"} /\ frDisturbed \in BOOLEAN
        /\ frPc \in {"sense", "write", "regulate", "log", "turbines"}
        /\ frState \in {"READY", "ACTIVE", "RECOVERY"}
    BY <1>1
  <2> QED
    BY <1>5, <2>1, <2>2, <2>3, Zenon DEF FrTypes
<1>3. FrBefore
  BY <1>1, <1>5 DEF FrBefore
<1>4. FrRest
  <2>1. frPower \in Int /\ 0 <= frPower /\ frPower <= 0 /\ frDev \in Int /\ 0 <= frDev /\ frDev <= 0
    BY <1>1
  <2>2. frPower <= 90 /\ -3000 < frDev
    BY <2>1
  <2> QED
    BY <1>1, <1>5, <2>1, <2>2, SMT DEF FrRest
<1> QED
  BY <1>1, <1>2, <1>3, <1>4, Zenon DEF FrInv

LEMMA FrTriggerLemma == ASSUME FrInv, FrTrigger PROVE FrInv'
<1>1. /\ frMain = "wait" /\ frMain' = "freq" /\ frDisturbed' = TRUE
      /\ UNCHANGED <<frPc, frSeen, frDev, frState, frPower, frIntegral>>
  BY Zenon DEF FrTrigger, frControl
<1>2. FrTypes /\ FrBefore /\ frState = "READY" /\ FrRest
  BY <1>1 DEF FrInv, FrBefore
<1>3. FrTypes'
  BY <1>1, <1>2 DEF FrTypes, FrSeeings
<1>4. FrBefore'
  BY <1>1, <1>2 DEF FrBefore
<1>5. frDev = 0 /\ frSeen.dev = 0 /\ frPower = 0
  BY <1>1, <1>2 DEF FrBefore
<1>6. FrRest'
  BY <1>1, <1>2, <1>5 DEF FrRest
<1> QED
  BY <1>1, <1>2, <1>3, <1>4, <1>6, Zenon DEF FrInv

LEMMA FrTriggerFreqLemma == ASSUME FrInv, FrTriggerFreq PROVE FrInv'
<1>1. /\ frMain = "freq" /\ frMain' = "log" /\ frDev' = -FrDip
      /\ UNCHANGED <<frPc, frSeen, frDisturbed, frState, frPower, frIntegral>>
  BY Zenon DEF FrTriggerFreq, frControl
<1>2. FrTypes /\ FrBefore /\ frState = "READY" /\ FrRest
  BY <1>1 DEF FrInv, FrBefore
<1>3. -FrDip \in Int
  BY FrDipAssumption
<1>4. FrTypes'
  BY <1>1, <1>2, <1>3 DEF FrTypes, FrSeeings
<1>5. FrBefore'
  BY <1>1 DEF FrBefore
<1>6. frDisturbed /\ frSeen.dev = 0 /\ frPower = 0
  BY <1>1, <1>2 DEF FrBefore
<1>7. FrRest'
  BY <1>1, <1>2, <1>6 DEF FrRest
<1> QED
  BY <1>1, <1>2, <1>4, <1>5, <1>7, Zenon DEF FrInv

(* The steps that touch neither the grid nor the regulation.                   *)
LEMMA FrOthersLemma ==
  ASSUME FrInv,
         UNCHANGED <<frDisturbed, frDev, frState, frPower, frIntegral, frSeen>>,
         (frMain' = frMain)
           \/ (frMain \notin {"wait", "freq"} /\ frMain' \in {"log", "cache", "done"}),
         (frPc' = frPc)
           \/ (frPc \in {"log", "turbines"} /\ frPc' \in {"sense", "turbines"})
  PROVE  FrInv'
<1>1. FrTypes'
  BY DEF FrInv, FrTypes, FrSeeings
<1>2. FrBefore'
  BY DEF FrInv, FrBefore
<1>3. frState = "READY" => FrRest'
  BY DEF FrInv, FrRest
<1>4. frState # "READY" => FrWork'
  BY DEF FrInv, FrWork, FrAnswered, FrPowered
<1> QED
  BY <1>1, <1>2, <1>3, <1>4 DEF FrInv

LEMMA FrSenseLemma == ASSUME FrInv, FrSense PROVE FrInv'
<1>1. /\ frPc = "sense" /\ frPc' = "write" /\ frSeen' = [disturbed |-> frDisturbed, dev |-> frDev]
      /\ UNCHANGED <<frMain, frDisturbed, frDev, frState, frPower, frIntegral>>
  BY Zenon DEF FrSense, frGrid, frControl
<1>2. FrTypes /\ FrBefore
  BY DEF FrInv
<1>3. frSeen'.dev = frDev /\ frSeen' \in FrSeeings
  BY <1>1, <1>2 DEF FrTypes, FrSeeings
<1>4. (frDisturbed => frSeen'.disturbed) /\ (frSeen'.disturbed => frDisturbed)
  BY <1>1
<1>5. FrTypes'
  BY <1>1, <1>2, <1>3 DEF FrTypes, FrSeeings
<1>6. FrBefore'
  BY <1>1, <1>2, <1>3 DEF FrBefore
<1>7. frState = "READY" => FrRest'
  BY <1>1, <1>3, <1>4 DEF FrInv, FrRest
<1>8. frState # "READY" => FrWork'
  BY <1>1, <1>3, <1>4 DEF FrInv, FrWork, FrPowered
<1> QED
  BY <1>1, <1>5, <1>6, <1>7, <1>8 DEF FrInv

LEMMA FrWriteLemma == ASSUME FrInv, FrWrite PROVE FrInv'
<1>1. /\ frPc = "write" /\ frPc' = "regulate"
      /\ frDev' = IF frSeen.disturbed THEN FrAnswer(frSeen.dev, frPower) ELSE 0
      /\ frSeen' = [frSeen EXCEPT !.dev = frDev']
      /\ UNCHANGED <<frMain, frDisturbed, frState, frPower, frIntegral>>
  BY SMT DEF FrWrite, frControl, FrAnswer
<1>2. FrTypes /\ FrBefore
  BY DEF FrInv
<1>3. frSeen \in FrSeeings
  BY <1>2 DEF FrTypes
<1>4. frSeen'.dev = frDev' /\ (frDev' \in Int => frSeen' \in FrSeeings)
  BY <1>1, <1>3 DEF FrSeeings
<1>5. ASSUME frDev' \in Int PROVE FrTypes'
  BY <1>1, <1>2, <1>4, <1>5 DEF FrTypes, FrWithinPower, FrSeeings
<1>6. FrAnswer(0, 0) = 0 /\ FrAnswer(-FrDip, 0) = -FrDip
  BY FrDipAssumption, SMT DEF FrAnswer, FrClamp
<1>7. CASE frState = "READY"
  <2>1. FrRest
    BY <1>7 DEF FrInv
  <2>2. frDisturbed => frDev' \in {0, -FrDip}
    BY <1>1, <2>1, <1>6, SMT DEF FrRest
  <2>3. ~ frDisturbed => frDev' = 0
    BY <1>1, <2>1, SMT DEF FrRest
  <2>4. frDev' \in Int
    <3>1. -FrDip \in Int
      BY FrDipAssumption, SMT
    <3> QED
      BY <1>2, <2>2, <2>3, <3>1 DEF FrTypes
  <2>5. FrBefore'
    BY <1>1, <1>2, <1>4, <1>6, SMT DEF FrBefore
  <2>6. FrRest'
    BY <1>1, <1>2, <1>4, <2>1, <2>2, <2>3, SMT DEF FrRest, FrTypes
  <2> QED
    BY <1>1, <1>5, <1>7, <2>4, <2>5, <2>6 DEF FrInv
<1>8. CASE frState # "READY"
  <2>1. FrWork /\ frDev \in Int /\ frIntegral \in Int
    BY <1>2, <1>8 DEF FrInv, FrTypes
  <2>2. FrPowered(frState, frIntegral, frDev, frPower)
    BY <1>1, <2>1 DEF FrWork
  <2>3. frDev' = FrAnswer(frDev, FrRegulation(frIntegral, frDev))
    BY <1>1, <2>1, <2>2, SMT DEF FrWork, FrPowered
  <2>4. -500000 <= frDev /\ frDev <= -3000 /\ frIntegral <= 0 /\ FrBudget(frIntegral, frDev)
    BY <2>1, <2>2, SMT DEF FrWork, FrPowered, FrAboveFloor
  <2>5. /\ frDev' \in Int /\ -500000 <= frDev' /\ frDev' <= 0
        /\ frDev <= -20000 => frDev' <= -3000
        /\ FrIntegrated(frIntegral, frDev') \in Int /\ FrIntegrated(frIntegral, frDev') <= 0
        /\ FrBudget(FrIntegrated(frIntegral, frDev'), frDev')
    BY <2>1, <2>3, <2>4, FrAnswerLemma, SMT
  <2>6. FrAnswered(frState, frIntegral, frDev')
    BY <2>2, <2>5, SMT DEF FrAnswered, FrPowered
  <2>7. FrAboveFloor(frDev')
    BY <2>5, SMT DEF FrAboveFloor
  <2>8. FrWork'
    <3>1. frDev' <= 0
      BY <2>5, SMT
    <3> QED
      BY <1>1, <1>4, <2>1, <2>6, <2>7, <3>1 DEF FrWork
  <2>9. FrBefore'
    BY <1>1, <2>1 DEF FrBefore, FrWork
  <2>10. FrTypes'
    <3>1. frDev' \in Int
      BY <2>5, SMT
    <3> QED
      BY <1>5, <3>1
  <2> QED
    BY <1>1, <1>8, <2>8, <2>9, <2>10 DEF FrInv
<1> QED
  BY <1>7, <1>8

LEMMA FrRegulateLemma ==
  ASSUME FrInv, NEW dev \in {frDev, frSeen.dev}, FrRegulate(dev)
  PROVE  FrInv'
<1> DEFINE state == FrNextState(dev)
           done == state = "READY" /\ frState # "READY"
           integral == FrIntegrated(IF done THEN 0 ELSE frIntegral, dev)
<1>1. /\ frPc = "regulate" /\ frPc' = IF state = "READY" THEN "sense" ELSE "log"
      /\ frState' = state /\ frIntegral' = integral /\ frPower' = FrRegulation(integral, dev)
      /\ UNCHANGED <<frMain, frSeen, frDev>>
  BY SMT DEF FrRegulate
<1>2. (frDisturbed' => frDisturbed /\ ~ done) /\ (frDisturbed /\ ~ done => frDisturbed')
      /\ frDisturbed' \in BOOLEAN
  <2>1. frDisturbed' = (frDisturbed /\ ~ done)
    BY Zenon DEF FrRegulate
  <2> HIDE DEF done
  <2> QED
    BY <2>1, Zenon
<1>3. FrTypes /\ FrBefore
  BY DEF FrInv
<1>4. ASSUME FrRegulation(integral, dev) \in Int, integral \in Int,
             FrWithinPower(FrRegulation(integral, dev)),
             state \in {"READY", "ACTIVE", "RECOVERY"}
      PROVE  FrTypes'
  BY <1>1, <1>2, <1>3, <1>4, SMT DEF FrTypes, FrWithinPower, FrSeeings
<1>5. CASE frState = "READY"
  <2>1. FrRest
    BY <1>5 DEF FrInv
  <2>2. dev = 0 \/ (dev = -FrDip /\ frDev = -FrDip /\ frDisturbed)
    <3>1. CASE frDisturbed
      BY <1>1, <2>1, <3>1, SMT DEF FrRest
    <3>2. CASE ~ frDisturbed
      BY <1>1, <2>1, <3>2, SMT DEF FrRest
    <3> QED
      BY <1>3, <3>1, <3>2 DEF FrTypes
  <2>3. ~ done
    BY <1>5
  <2>4. CASE dev = 0
    <3>1. state = "READY"
      BY <1>5, <2>4, SMT DEF FrNextState, FrAbs
    <3>2. integral = 0 /\ FrRegulation(integral, dev) = 0
      BY <2>1, <2>3, <2>4, FrReturnLemma, SMT DEF FrRest
    <3>3. FrTypes'
      BY <1>4, <3>1, <3>2, SMT DEF FrWithinPower
    <3>4. FrBefore'
      BY <1>1, <1>2, <1>3, <2>3, <3>1, <3>2 DEF FrBefore
    <3>5. FrRest'
      BY <1>1, <1>2, <2>1, <2>3, <3>1, <3>2, SMT DEF FrRest
    <3> QED
      BY <1>1, <3>1, <3>3, <3>4, <3>5 DEF FrInv
  <2>5. CASE dev = -FrDip /\ frDev = -FrDip /\ frDisturbed
    <3>1. state = "ACTIVE"
      BY <1>5, <2>5, FrDipAssumption, FrDipLemma, SMT DEF FrNextState
    <3>2. integral = FrIntegrated(0, -FrDip)
      BY <2>1, <2>3, <2>5, SMT DEF FrRest
    <3>3. FrDip \in Int /\ 100001 <= FrDip /\ FrDip <= 500000
      BY FrDipAssumption, SMT
    <3>4. integral \in Int /\ integral <= 0 /\ FrBudget(integral, dev)
      BY <2>5, <3>2, <3>3, FrDipLemma, SMT
    <3>5. dev \in Int /\ -500000 <= dev /\ dev <= -20000 /\ dev <= -3000 /\ dev <= 0
      BY <2>5, <3>3, SMT
    <3>6. FrRegulation(integral, dev) \in Int /\ FrWithinPower(FrRegulation(integral, dev))
      BY <3>4, <3>5, FrAnswerLemma, SMT DEF FrWithinPower
    <3>7. FrTypes'
      BY <1>4, <3>1, <3>4, <3>6
    <3>8. frMain \notin {"wait", "freq"}
      BY <1>3, <2>5, <3>3, SMT DEF FrBefore
    <3>9. FrBefore'
      BY <1>1, <3>8 DEF FrBefore
    <3>10. FrPowered(state, integral, dev, FrRegulation(integral, dev))
      BY <3>4, <3>5, SMT DEF FrPowered
    <3>11. FrAboveFloor(dev)
      BY <3>5, SMT DEF FrAboveFloor
    <3>12. FrWork'
      <4>1. frDisturbed' /\ frPc' = "log" /\ frDev' = dev
        BY <1>1, <1>2, <2>3, <2>5, <3>1
      <4> QED
        BY <1>1, <3>4, <3>5, <3>8, <3>10, <3>11, <4>1, SMT DEF FrWork
    <3> QED
      BY <1>1, <3>1, <3>7, <3>9, <3>12 DEF FrInv
  <2> QED
    BY <2>2, <2>4, <2>5
<1>6. CASE frState # "READY"
  <2>1. FrWork /\ frDev \in Int /\ frIntegral \in Int /\ frState \in {"ACTIVE", "RECOVERY"}
    BY <1>3, <1>6 DEF FrInv, FrTypes
  <2>2. dev = frDev /\ dev \in Int /\ dev <= 0 /\ FrAnswered(frState, frIntegral, dev)
        /\ FrAboveFloor(dev) /\ frMain \notin {"wait", "freq"} /\ frDisturbed
    BY <1>1, <2>1 DEF FrWork
  <2>3. FrBefore'
    BY <1>1, <2>2 DEF FrBefore
  <2>4. CASE state = "READY"
    <3>1. frState = "RECOVERY" /\ -3000 < dev
      BY <1>6, <2>1, <2>2, <2>4, SMT DEF FrNextState, FrAbs
    <3>2. done
      BY <1>6, <2>4
    <3>3. integral = 0 /\ FrRegulation(integral, dev) \in Int
          /\ 0 <= FrRegulation(integral, dev) /\ FrRegulation(integral, dev) <= 90
      BY <2>2, <3>1, <3>2, FrReturnLemma, SMT
    <3>4. FrWithinPower(FrRegulation(integral, dev))
      BY <3>3, SMT DEF FrWithinPower
    <3>5. FrTypes'
      BY <1>4, <2>4, <3>3, <3>4, SMT
    <3>6. FrRest'
      BY <1>1, <1>2, <2>2, <2>4, <3>1, <3>2, <3>3, SMT DEF FrRest
    <3> QED
      BY <1>1, <2>3, <2>4, <3>5, <3>6 DEF FrInv
  <2>5. CASE state # "READY"
    <3>1. /\ state \in {"ACTIVE", "RECOVERY"} /\ dev <= -3000
          /\ state = "ACTIVE" => dev <= -20000
      BY <2>1, <2>2, <2>5, SMT DEF FrNextState, FrAbs, FrAnswered
    <3>2. ~ done
      BY <2>5
    <3>3. integral = FrIntegrated(frIntegral, dev)
      BY <3>2
    <3>4. integral \in Int /\ integral <= 0 /\ FrBudget(integral, dev)
      BY <2>2, <3>3, SMT DEF FrAnswered
    <3>5. FrRegulation(integral, dev) \in Int /\ FrWithinPower(FrRegulation(integral, dev))
      BY <2>2, <3>1, <3>4, FrAnswerLemma, SMT DEF FrWithinPower, FrAboveFloor
    <3>6. FrPowered(state, integral, dev, FrRegulation(integral, dev))
      BY <3>1, <3>4 DEF FrPowered
    <3>7. FrTypes'
      BY <1>4, <3>1, <3>4, <3>5
    <3>8. FrWork'
      BY <1>1, <1>2, <2>2, <2>5, <3>2, <3>4, <3>6, SMT DEF FrWork
    <3> QED
      BY <1>1, <2>3, <2>5, <3>7, <3>8 DEF FrInv
  <2> QED
    BY <2>4, <2>5
<1> QED
  BY <1>5, <1>6

LEMMA FrKept == FrSpec => []FrInv
<1>1. FrInv /\ [FrNext]_frVars => FrInv'
  <2> SUFFICES ASSUME FrInv, [FrNext]_frVars PROVE FrInv'
    OBVIOUS
  <2>1. CASE FrTrigger
    BY <2>1, FrTriggerLemma
  <2>2. CASE FrTriggerFreq
    BY <2>2, FrTriggerFreqLemma
  <2>3. CASE FrSense
    BY <2>3, FrSenseLemma
  <2>4. CASE FrWrite
    BY <2>4, FrWriteLemma
  <2>5. ASSUME NEW dev \in {frDev, frSeen.dev}, FrRegulate(dev) PROVE FrInv'
    BY <2>5, FrRegulateLemma
  <2>6. CASE FrLogDisturbance \/ FrCacheDisturbance
    <3>1. /\ UNCHANGED <<frDisturbed, frDev, frState, frPower, frIntegral, frSeen, frPc>>
          /\ frMain \notin {"wait", "freq"} /\ frMain' \in {"log", "cache", "done"}
      BY <2>6, SMT DEF FrLogDisturbance, FrCacheDisturbance, frGrid, frControl
    <3> QED
      BY <3>1, FrOthersLemma
  <2>7. CASE FrLogCycle \/ FrLogTurbines
    <3>1. /\ UNCHANGED <<frDisturbed, frDev, frState, frPower, frIntegral, frSeen, frMain>>
          /\ frPc \in {"log", "turbines"} /\ frPc' \in {"sense", "turbines"}
      BY <2>7, SMT DEF FrLogCycle, FrLogTurbines, frGrid, frControl
    <3> QED
      BY <3>1, FrOthersLemma
  <2>8. CASE FrSnapshot \/ FrFlush \/ UNCHANGED frVars
    <3>1. UNCHANGED <<frDisturbed, frDev, frState, frPower, frIntegral, frSeen, frMain, frPc>>
      BY <2>8, SMT DEF FrSnapshot, FrFlush, frVars, frGrid, frControl
    <3> QED
      BY <3>1, FrOthersLemma
  <2> QED
    BY <2>1, <2>2, <2>3, <2>4, <2>5, <2>6, <2>7, <2>8 DEF FrNext
<1> QED
  BY <1>1, FrInitLemma, PTL DEF FrSpec

(* The ranges of the controller's variables and the grid's, for every dip of   *)
(* 0.1 to 0.5 Hz (FrequencySimulator::getFrequency clamps the frequency).      *)
THEOREM FrequencyTypeCorrect == FrSpec => []FrTypeOK
<1>1. FrInv => FrTypeOK
  <2> SUFFICES ASSUME FrInv PROVE FrTypeOK
    OBVIOUS
  <2>1. FrTypes
    BY DEF FrInv
  <2>2. frDev <= 0 /\ -500000 <= frDev
    <3>1. CASE frState = "READY"
      BY <2>1, <3>1, FrDipAssumption, SMT DEF FrInv, FrRest, FrTypes
    <3>2. CASE frState # "READY"
      BY <3>2, SMT DEF FrInv, FrWork, FrAboveFloor
    <3> QED
      BY <3>1, <3>2
  <2>3. frDev <= 200000
    BY <2>1, <2>2, SMT DEF FrTypes
  <2>4. frPower \in Int /\ -1500000 <= frPower /\ frPower <= 1500000
    BY <2>1, SMT DEF FrTypes, FrWithinPower
  <2> QED
    BY <2>1, <2>2, <2>3, <2>4, SMT DEF FrTypes, FrTypeOK
<1> QED
  BY <1>1, FrKept, PTL

(* The support never carries the grid past its nominal frequency, however the  *)
(* threads of logging and control interleave and for every dip                 *)
(* (FRController::runLoop, lines 58-71).                                       *)
THEOREM FrequencyNeverOvershoots == FrSpec => []FrNoOvershoot
<1>1. FrInv => FrNoOvershoot
  <2> SUFFICES ASSUME FrInv PROVE frDev <= 0
    BY DEF FrNoOvershoot
  <2>1. CASE frState = "READY"
    BY <2>1, FrDipAssumption, SMT DEF FrInv, FrRest, FrTypes
  <2>2. CASE frState # "READY"
    BY <2>2, SMT DEF FrInv, FrWork
  <2> QED
    BY <2>1, <2>2
<1> QED
  BY <1>1, FrKept, PTL

-----------------------------------------------------------------------------
(*                             Wind disturbance                              *)

WdPids == [integral : Int, error : Int, out : Int]

LEMMA WdClampLemma ==
  ASSUME NEW x \in Int, NEW lo \in Int, NEW hi \in Int, lo <= hi
  PROVE  WdClamp(x, lo, hi) \in Int /\ lo <= WdClamp(x, lo, hi) /\ WdClamp(x, lo, hi) <= hi
BY SMT DEF WdClamp

LEMMA WdPidLemma ==
  ASSUME NEW pid \in WdPids, NEW error \in Int, NEW kp \in Int, NEW ki \in Int, NEW kd \in Int,
         NEW scale \in Int, 0 <= scale, NEW limit \in Int, 0 <= limit
  PROVE  /\ WdPid(pid, error, kp, ki, kd, scale, limit) \in WdPids
         /\ WdPid(pid, error, kp, ki, kd, scale, limit).error = error
         /\ -3 * scale <= WdPid(pid, error, kp, ki, kd, scale, limit).integral
<1> DEFINE integral == WdClamp(pid.integral + error \div 20, -3 * scale, 3 * scale)
           out == (kp * error + ki * integral + kd * 20 * (error - pid.error)) \div 100
<1>1. pid.integral \in Int /\ pid.error \in Int
  BY DEF WdPids
<1>2. integral \in Int /\ -3 * scale <= integral
  <2> DEFINE sum == pid.integral + error \div 20
             least == -3 * scale
             most == 3 * scale
  <2>1. sum \in Int /\ least \in Int /\ most \in Int /\ least <= most
    BY <1>1, SMT
  <2> HIDE DEF sum, least, most
  <2>2. WdClamp(sum, least, most) \in Int /\ least <= WdClamp(sum, least, most)
    BY <2>1, WdClampLemma
  <2> QED
    BY <2>2 DEF sum, least, most
<1> HIDE DEF integral
<1>3. out \in Int
  <2>1. kp * error \in Int /\ ki * integral \in Int /\ kd * 20 * (error - pid.error) \in Int
    BY <1>1, <1>2, SMT
  <2> QED
    BY <2>1, SMT
<1> HIDE DEF out
<1>4. WdClamp(out, -limit, limit) \in Int
  <2>1. -limit \in Int /\ -limit <= limit
    BY SMT
  <2> QED
    BY <1>3, <2>1, WdClampLemma
<1>5. WdPid(pid, error, kp, ki, kd, scale, limit)
        = [integral |-> integral, error |-> error, out |-> WdClamp(out, -limit, limit)]
  BY DEF WdPid, integral, out
<1> QED
  BY <1>2, <1>4, <1>5 DEF WdPids

(* A turn of the control adds at most 0.015 degrees of pitch.                  *)
LEMMA WdPitchLemma ==
  ASSUME NEW start \in Int, NEW out \in Int, 0 <= start
  PROVE  LET pitch == WdClamp(start + WdClamp(out \div 4, -15000, 15000), 0, WdMaxPitch)
         IN  pitch \in Int /\ 0 <= pitch /\ pitch <= WdMaxPitch /\ pitch <= start + 15000
BY SMT DEF WdClamp, WdMaxPitch

LEMMA WdRotorLemma ==
  ASSUME NEW start \in Int, NEW out \in Int
  PROVE  LET rotor == WdClamp(start + out \div 20, 175000, 180000)
         IN  rotor \in Int /\ 175000 <= rotor /\ rotor <= 180000
BY SMT DEF WdClamp

(* With the rotor at its rated speed and no error before, the integral alone   *)
(* moves it, by 0.03 rpm.                                                     *)
LEMMA WdRatedLemma ==
  ASSUME NEW pid \in WdPids, pid.error = 0
  PROVE  179997 <= WdClamp(180000 + WdPid(pid, 0, 1000, 20, 10, 100, 2500).out \div 20,
                           175000, 180000)
<1> DEFINE integral == WdClamp(pid.integral + 0 \div 20, -3 * 100, 3 * 100)
           out == (1000 * 0 + 20 * integral + 10 * 20 * (0 - pid.error)) \div 100
<1>1. pid.integral \in Int
  BY DEF WdPids
<1>2. integral \in Int /\ -300 <= integral /\ integral <= 300
  BY <1>1, SMT DEF WdClamp
<1>3. out = (20 * integral) \div 100
  <2>1. (1000 * 0 + 20 * integral + 10 * 20 * (0 - pid.error)) = 20 * integral
    BY <1>2, SMT
  <2> QED
    BY <2>1
<1>4. WdPid(pid, 0, 1000, 20, 10, 100, 2500).out = WdClamp(out, -2500, 2500)
  BY DEF WdPid
<1> HIDE DEF integral, out
<1>5. out \in Int /\ -60 <= out /\ out <= 60
  BY <1>2, <1>3, SMT
<1>6. WdClamp(out, -2500, 2500) = out
  BY <1>5, SMT DEF WdClamp
<1>7. out \div 20 \in Int /\ -3 <= out \div 20
  BY <1>5, SMT
<1> QED
  BY <1>4, <1>6, <1>7, SMT DEF WdClamp

LEMMA WdPowerLemma ==
  ASSUME NEW wind \in Int, NEW pitch \in Int, NEW rotor \in Int
  PROVE  WdPowerOf(wind, pitch, rotor) \in Int /\ 0 <= WdPowerOf(wind, pitch, rotor)
         /\ WdPowerOf(wind, pitch, rotor) <= WdTarget
<1> DEFINE pitchEff == WdClamp(100000 - pitch \div 363, 80000, 100000)
           pitched == (WdMaxPower(wind) * pitchEff) \div 100
           rotorEff == WdClamp(rotor \div 10, 17100, 18000)
           power == ((pitched \div 100) * rotorEff) \div 180
<1>1. pitchEff \in Int
  BY SMT DEF WdClamp
<1>2. WdMaxPower(wind) \in Int
  <2>1. wind * wind * wind \in Int
    BY SMT
  <2>2. (wind * wind * wind) \div 100 \in Int
    BY <2>1, SMT
  <2> QED
    BY <2>2, SMT DEF WdMaxPower
<1> HIDE DEF pitchEff
<1>3. pitched \in Int
  <2>1. WdMaxPower(wind) * pitchEff \in Int
    BY <1>1, <1>2, SMT
  <2> QED
    BY <2>1, SMT
<1> HIDE DEF pitched
<1>4. rotorEff \in Int
  BY SMT DEF WdClamp
<1> HIDE DEF rotorEff
<1>5. power \in Int
  <2>1. (pitched \div 100) * rotorEff \in Int
    BY <1>3, <1>4, SMT
  <2> QED
    BY <2>1, SMT
<1>6. WdPowerOf(wind, pitch, rotor) = WdClamp(power, 0, WdTarget)
  BY DEF WdPowerOf, power, pitched, pitchEff, rotorEff
<1> HIDE DEF power
<1>7. WdTarget \in Int /\ 0 <= WdTarget
  BY SMT DEF WdTarget
<1> QED
  BY <1>5, <1>6, <1>7, WdClampLemma, SMT

(* At 12 m/s a hundredth of a degree of pitch and 0.03 rpm cost less than a    *)
(* thousandth of the power.                                                   *)
LEMMA WdFullLemma ==
  ASSUME NEW pitch \in Int, 0 <= pitch, pitch <= 15000, NEW rotor \in Int, 179997 <= rotor, rotor <= 180000
  PROVE  WdTarget - WdTarget \div 1000 <= WdPowerOf(120, pitch, rotor)
<1> DEFINE pitchEff == WdClamp(100000 - pitch \div 363, 80000, 100000)
           pitched == (2500 * pitchEff) \div 100
           rotorEff == WdClamp(rotor \div 10, 17100, 18000)
           power == ((pitched \div 100) * rotorEff) \div 180
<1>1. pitchEff \in Int /\ 99958 <= pitchEff /\ pitchEff <= 100000
  BY SMT DEF WdClamp
<1>2. WdMaxPower(120) = 2500
  BY SMT DEF WdMaxPower
<1> HIDE DEF pitchEff
<1>3. pitched \in Int /\ 2498950 <= pitched /\ pitched <= 2500000
  BY <1>1, SMT
<1> HIDE DEF pitched
<1>4. pitched \div 100 \in Int /\ 24989 <= pitched \div 100 /\ pitched \div 100 <= 25000
  BY <1>3, SMT
<1>5. rotorEff = 17999 \/ rotorEff = 18000
  BY SMT DEF WdClamp
<1> HIDE DEF rotorEff
<1>6. power \in Int /\ 2497500 <= power /\ power <= 2500000
  BY <1>4, <1>5, SMT
<1>7. WdPowerOf(120, pitch, rotor) = WdClamp(power, 0, WdTarget)
  BY <1>2 DEF WdPowerOf, power, pitched, pitchEff, rotorEff
<1> HIDE DEF power
<1> QED
  BY <1>6, <1>7, SMT DEF WdClamp, WdTarget

-----------------------------------------------------------------------------
(* A turn, in the values it works with.                                       *)
WdBefore == [pitch |-> wdPitch, rotor |-> wdRotor, power |-> wdPower]
WdWarns == wdTime >= 18 /\ ~ wdWarned
WdCalms == wdTime >= 80 /\ ~ wdStable
WdModeNow == IF WdCalms THEN "ECO" ELSE IF WdWarns THEN "SUPPRESS" ELSE wdMode
WdReady(wind) == IF WdWarns THEN WdPrepared(wind) ELSE WdBefore
WdStart(wind) == IF WdModeNow = "SUPPRESS" THEN WdReady(wind) ELSE WdReset(wind, WdReady(wind))
WdAfter(wind) == WdExecute(wind, WdStart(wind).pitch, WdStart(wind).rotor, WdStart(wind).power)

WdStates == [pitch : Int, rotor : Int, power : Int]

WdTypes ==
  /\ wdTime \in Int /\ 0 <= wdTime /\ wdTime <= 122
  /\ wdNoise \in Int /\ wdMode \in {"ECO", "SUPPRESS"}
  /\ wdPitch \in Int /\ 0 <= wdPitch /\ wdPitch <= WdMaxPitch
  /\ wdRotor \in Int /\ 175000 <= wdRotor /\ wdRotor <= 180000
  /\ wdPower \in Int /\ 0 <= wdPower /\ wdPower <= WdTarget
  /\ wdPitchPid \in WdPids /\ wdRotorPid \in WdPids

(* The two switches happen once, at their seconds.                            *)
WdModes ==
  /\ wdWarned <=> wdTime > 18
  /\ wdStable <=> wdTime > 80
  /\ (wdTime <= 18 \/ wdTime > 80) => wdMode = "ECO"
  /\ (18 < wdTime /\ wdTime <= 80) => wdMode = "SUPPRESS"

(* How much pitch there can be, whatever the wind was: the preparation and a   *)
(* turn's worth per second of suppression, given back from the calm on.       *)
WdPitchBound(time, pitch) ==
  /\ time <= 18 => pitch <= 15000
  /\ (18 < time /\ time <= 80) => pitch <= 330000 + 15000 * (time - 19)
  /\ (80 < time /\ time < 95) => pitch <= 1245000 - 85000 * (time - 80)
  /\ 95 <= time => pitch <= 15000

WdInv ==
  /\ WdTypes /\ WdModes
  /\ WdPitchBound(wdTime, wdPitch)
  /\ 85 < wdTime => wdRotorPid.error = 0
  /\ wdTime > 96 => WdTarget - WdTarget \div 1000 <= wdPower

LEMMA WdWindLemma ==
  ASSUME WdTypes, NEW noise \in Int
  PROVE  /\ WdWindAt(wdTime, noise) \in Int
         /\ 85 <= wdTime => WdWindAt(wdTime, noise) <= 130
         /\ 90 <= wdTime => WdWindAt(wdTime, noise) = 120
BY SMT DEF WdTypes, WdWindAt

(* What a turn starts from.                                                   *)
LEMMA WdReadyLemma ==
  ASSUME WdTypes, NEW wind \in Int
  PROVE  /\ WdReady(wind) \in WdStates
         /\ 0 <= WdReady(wind).pitch /\ WdReady(wind).pitch <= WdMaxPitch
         /\ WdReady(wind).pitch <= IF WdWarns THEN wdPitch + 300000 ELSE wdPitch
<1>1. wdPitch \in Int /\ 0 <= wdPitch /\ wdPitch <= WdMaxPitch /\ wdRotor \in Int /\ wdPower \in Int
  BY DEF WdTypes
<1>2. CASE WdWarns
  <2> DEFINE pitch == WdClamp(wdPitch + 300000, 0, 1000000)
  <2>1. pitch \in Int /\ 0 <= pitch /\ pitch <= WdMaxPitch /\ pitch <= wdPitch + 300000
    BY <1>1, SMT DEF WdClamp, WdMaxPitch
  <2>2. WdReady(wind) = [pitch |-> pitch, rotor |-> wdRotor, power |-> WdPowerOf(wind, pitch, wdRotor)]
    BY <1>2 DEF WdReady, WdPrepared
  <2> HIDE DEF pitch
  <2>3. WdPowerOf(wind, pitch, wdRotor) \in Int
    BY <1>1, <2>1, WdPowerLemma
  <2> QED
    BY <1>1, <1>2, <2>1, <2>2, <2>3, SMT DEF WdStates
<1>3. CASE ~ WdWarns
  <2>1. WdReady(wind) = [pitch |-> wdPitch, rotor |-> wdRotor, power |-> wdPower]
    BY <1>3 DEF WdReady, WdBefore
  <2> QED
    BY <1>1, <1>3, <2>1, SMT DEF WdStates
<1> QED
  BY <1>2, <1>3

LEMMA WdStartLemma ==
  ASSUME WdTypes, NEW wind \in Int
  PROVE  /\ WdStart(wind) \in WdStates
         /\ 0 <= WdStart(wind).pitch
         /\ WdModeNow = "SUPPRESS" =>
              WdStart(wind).pitch <= IF WdWarns THEN wdPitch + 300000 ELSE wdPitch
         /\ WdModeNow # "SUPPRESS" =>
              /\ WdStart(wind).rotor = 180000
              /\ WdStart(wind).pitch = 0
                   \/ WdStart(wind).pitch <= (IF WdWarns THEN wdPitch + 200000 ELSE wdPitch - 100000)
<1>1. /\ WdReady(wind) \in WdStates
      /\ 0 <= WdReady(wind).pitch /\ WdReady(wind).pitch <= WdMaxPitch
      /\ WdReady(wind).pitch <= IF WdWarns THEN wdPitch + 300000 ELSE wdPitch
  BY WdReadyLemma
<1>2. CASE WdModeNow = "SUPPRESS"
  BY <1>1, <1>2 DEF WdStart
<1>3. CASE WdModeNow # "SUPPRESS"
  <2> DEFINE was == WdReady(wind).pitch
             pitch == WdClamp(was - 100000, 0, WdMaxPitch)
  <2>1. was \in Int /\ wdPitch \in Int
    BY <1>1 DEF WdStates, WdTypes
  <2>2. WdStart(wind) = [pitch |-> pitch, rotor |-> 180000,
                         power |-> WdPowerOf(wind, pitch, 180000)]
    BY <1>3 DEF WdStart, WdReset
  <2>3. 0 <= was /\ was <= WdMaxPitch
    BY <1>1
  <2>4. was <= IF WdWarns THEN wdPitch + 300000 ELSE wdPitch
    BY <1>1
  <2> HIDE DEF was
  <2>5. pitch \in Int /\ 0 <= pitch /\ (pitch = 0 \/ pitch <= was - 100000)
    BY <2>1, <2>3, SMT DEF WdClamp, WdMaxPitch
  <2> HIDE DEF pitch
  <2>6. pitch = 0 \/ pitch <= (IF WdWarns THEN wdPitch + 200000 ELSE wdPitch - 100000)
    BY <2>1, <2>4, <2>5, SMT
  <2>7. WdPowerOf(wind, pitch, 180000) \in Int
    BY <2>5, WdPowerLemma
  <2>8. WdStart(wind) \in WdStates
    BY <2>2, <2>5, <2>7, SMT DEF WdStates
  <2> QED
    BY <1>3, <2>2, <2>5, <2>6, <2>8, SMT
<1> QED
  BY <1>2, <1>3

(* What a turn leaves.                                                        *)
LEMMA WdAfterLemma ==
  ASSUME WdTypes, NEW wind \in Int
  PROVE  /\ WdAfter(wind).pitch \in Int /\ 0 <= WdAfter(wind).pitch
         /\ WdAfter(wind).pitch <= WdMaxPitch
         /\ WdAfter(wind).pitch <= WdStart(wind).pitch + 15000
         /\ WdAfter(wind).rotor \in Int /\ 175000 <= WdAfter(wind).rotor
         /\ WdAfter(wind).rotor <= 180000
         /\ WdAfter(wind).power \in Int /\ 0 <= WdAfter(wind).power
         /\ WdAfter(wind).power <= WdTarget
         /\ WdAfter(wind).power = WdPowerOf(wind, WdAfter(wind).pitch, WdAfter(wind).rotor)
         /\ WdAfter(wind).pitchPid \in WdPids /\ WdAfter(wind).rotorPid \in WdPids
         /\ (wind <= 130 /\ WdStart(wind).rotor = 180000) =>
              /\ WdAfter(wind).rotorPid.error = 0
              /\ wdRotorPid.error = 0 => 179997 <= WdAfter(wind).rotor
<1> DEFINE start == WdStart(wind).pitch
           speed == WdStart(wind).rotor
           given == WdStart(wind).power
           pitchPid == WdPid(wdPitchPid, WdTarget - given, 180, 6, 4, 1000000, 500000)
           pitch == WdClamp(start + WdClamp(pitchPid.out \div 4, -15000, 15000), 0, WdMaxPitch)
           setpoint == IF wind > 130 THEN 179000 ELSE 180000
           rotorPid == WdPid(wdRotorPid, setpoint - speed, 1000, 20, 10, 100, 2500)
           rotor == WdClamp(speed + rotorPid.out \div 20, 175000, 180000)
<1>1. WdAfter(wind) = [pitch |-> pitch, rotor |-> rotor, power |-> WdPowerOf(wind, pitch, rotor),
                       pitchPid |-> pitchPid, rotorPid |-> rotorPid]
  BY SMT DEF WdAfter, WdExecute
<1>2. start \in Int /\ 0 <= start /\ speed \in Int /\ given \in Int
  BY WdStartLemma DEF WdStates
<1> HIDE DEF start, speed, given
<1>3. pitchPid \in WdPids
  <2>1. WdTarget - given \in Int
    BY <1>2, SMT DEF WdTarget
  <2>2. wdPitchPid \in WdPids
    BY DEF WdTypes
  <2> QED
    BY <2>1, <2>2, WdPidLemma, SMT
<1>4. setpoint - speed \in Int
  BY <1>2, SMT
<1>5. rotorPid \in WdPids /\ rotorPid.error = setpoint - speed
  <2>1. wdRotorPid \in WdPids
    BY DEF WdTypes
  <2> QED
    <3> DEFINE error == setpoint - speed
    <3>1. error \in Int
      BY <1>4
    <3> HIDE DEF error
    <3>2. /\ WdPid(wdRotorPid, error, 1000, 20, 10, 100, 2500) \in WdPids
          /\ WdPid(wdRotorPid, error, 1000, 20, 10, 100, 2500).error = error
      BY <2>1, <3>1, WdPidLemma, SMT
    <3> QED
      BY <3>2 DEF error
<1>6. pitchPid.out \in Int /\ rotorPid.out \in Int
  BY <1>3, <1>5 DEF WdPids
<1>7. (wind <= 130 /\ speed = 180000) =>
        /\ rotorPid.error = 0
        /\ wdRotorPid.error = 0 => 179997 <= rotor
  <2> SUFFICES ASSUME wind <= 130, speed = 180000
               PROVE  /\ rotorPid.error = 0
                      /\ wdRotorPid.error = 0 => 179997 <= rotor
    OBVIOUS
  <2>1. setpoint - speed = 0
    BY SMT
  <2>2. wdRotorPid \in WdPids
    BY DEF WdTypes
  <2>3. rotorPid = WdPid(wdRotorPid, 0, 1000, 20, 10, 100, 2500)
    BY <2>1
  <2> HIDE DEF rotorPid, setpoint
  <2>4. rotor = WdClamp(180000 + WdPid(wdRotorPid, 0, 1000, 20, 10, 100, 2500).out \div 20,
                        175000, 180000)
    BY <2>3, SMT
  <2> HIDE DEF rotor
  <2> QED
    BY <1>5, <2>1, <2>2, <2>4, WdRatedLemma, SMT
<1> HIDE DEF pitchPid, rotorPid
<1>8. pitch \in Int /\ 0 <= pitch /\ pitch <= WdMaxPitch /\ pitch <= start + 15000
  BY <1>2, <1>6, WdPitchLemma, SMT
<1>9. rotor \in Int /\ 175000 <= rotor /\ rotor <= 180000
  BY <1>2, <1>6, WdRotorLemma, SMT
<1> HIDE DEF pitch, rotor
<1>10. WdPowerOf(wind, pitch, rotor) \in Int /\ 0 <= WdPowerOf(wind, pitch, rotor)
       /\ WdPowerOf(wind, pitch, rotor) <= WdTarget
  <2>1. pitch \in Int /\ rotor \in Int
    BY <1>8, <1>9, SMT
  <2> QED
    BY <2>1, WdPowerLemma, SMT
<1>11. /\ WdAfter(wind).pitch = pitch /\ WdAfter(wind).rotor = rotor
       /\ WdAfter(wind).power = WdPowerOf(wind, pitch, rotor)
       /\ WdAfter(wind).pitchPid = pitchPid /\ WdAfter(wind).rotorPid = rotorPid
  BY <1>1
<1>12. (wind <= 130 /\ WdStart(wind).rotor = 180000) =>
        /\ WdAfter(wind).rotorPid.error = 0
        /\ wdRotorPid.error = 0 => 179997 <= WdAfter(wind).rotor
  BY <1>7, <1>11 DEF speed
<1>13. WdAfter(wind).pitch <= WdStart(wind).pitch + 15000
  BY <1>8, <1>11 DEF start
<1> QED
  BY <1>3, <1>5, <1>8, <1>9, <1>10, <1>11, <1>12, <1>13, SMT

LEMMA WdStepLemma ==
  ASSUME WdInv, NEW noise \in Int, WdStep(noise)
  PROVE  WdInv'
<1> DEFINE wind == WdWindAt(wdTime, noise)
<1>1. /\ wdTime <= 120 /\ wdTime' = wdTime + 1 /\ wdNoise' = noise /\ wdMode' = WdModeNow
      /\ wdPitch' = WdAfter(wind).pitch /\ wdRotor' = WdAfter(wind).rotor
      /\ wdPower' = WdAfter(wind).power
      /\ wdPitchPid' = WdAfter(wind).pitchPid /\ wdRotorPid' = WdAfter(wind).rotorPid
  BY Zenon DEF WdStep, WdAfter, WdStart, WdReady, WdModeNow, WdWarns, WdCalms, WdBefore
<1>2. wdWarned' = (wdWarned \/ WdWarns) /\ wdStable' = (wdStable \/ WdCalms)
  BY Zenon DEF WdStep, WdWarns, WdCalms
<1>3. WdTypes /\ WdModes /\ WdPitchBound(wdTime, wdPitch)
  BY DEF WdInv
<1>4. wdTime \in Int /\ 0 <= wdTime /\ wdPitch \in Int
  BY <1>3, SMT DEF WdTypes
<1>5. /\ wind \in Int
      /\ 85 <= wdTime => wind <= 130
      /\ 90 <= wdTime => wind = 120
  BY <1>3, WdWindLemma
<1> HIDE DEF wind
<1>6. WdTypes'
  <2>1. WdModeNow \in {"ECO", "SUPPRESS"}
    BY <1>3 DEF WdModeNow, WdTypes
  <2>2. wdTime' \in Int /\ 0 <= wdTime' /\ wdTime' <= 122
    BY <1>1, <1>4, SMT
  <2>3. /\ wdPitch' \in Int /\ 0 <= wdPitch' /\ wdPitch' <= WdMaxPitch
        /\ wdRotor' \in Int /\ 175000 <= wdRotor' /\ wdRotor' <= 180000
        /\ wdPower' \in Int /\ 0 <= wdPower' /\ wdPower' <= WdTarget
        /\ wdPitchPid' \in WdPids /\ wdRotorPid' \in WdPids
    BY <1>1, <1>3, <1>5, WdAfterLemma, SMT
  <2>4. WdMaxPitch' = WdMaxPitch /\ WdTarget' = WdTarget
    BY DEF WdMaxPitch, WdTarget
  <2> QED
    BY <1>1, <2>1, <2>2, <2>3, <2>4, SMT DEF WdTypes, WdPids
<1>7. WdWarns <=> wdTime = 18
  BY <1>3, <1>4, SMT DEF WdModes, WdWarns
<1>8. WdCalms <=> wdTime = 80
  BY <1>3, <1>4, SMT DEF WdModes, WdCalms
<1>9. (wdTime < 18 \/ 80 <= wdTime) => WdModeNow = "ECO"
  BY <1>3, <1>4, <1>7, <1>8, SMT DEF WdModes, WdModeNow
<1>10. (18 <= wdTime /\ wdTime < 80) => WdModeNow = "SUPPRESS"
  BY <1>3, <1>4, <1>7, <1>8, SMT DEF WdModes, WdModeNow
<1>11. WdModes'
  <2>1. wdWarned' <=> wdTime' > 18
    <3>1. wdTime' > 18 <=> (wdTime > 18 \/ wdTime = 18)
      BY <1>1, <1>4, SMT
    <3>2. wdWarned <=> wdTime > 18
      BY <1>3 DEF WdModes
    <3> QED
      BY <1>2, <1>7, <3>1, <3>2, Zenon
  <2>2. wdStable' <=> wdTime' > 80
    <3>1. wdTime' > 80 <=> (wdTime > 80 \/ wdTime = 80)
      BY <1>1, <1>4, SMT
    <3>2. wdStable <=> wdTime > 80
      BY <1>3 DEF WdModes
    <3> QED
      BY <1>2, <1>8, <3>1, <3>2, Zenon
  <2>3. (wdTime' <= 18 \/ wdTime' > 80) => wdMode' = "ECO"
    BY <1>1, <1>4, <1>9, SMT
  <2>4. (18 < wdTime' /\ wdTime' <= 80) => wdMode' = "SUPPRESS"
    BY <1>1, <1>4, <1>10, SMT
  <2> QED
    BY <2>1, <2>2, <2>3, <2>4 DEF WdModes
<1>12. /\ 0 <= WdStart(wind).pitch /\ WdStart(wind).pitch \in Int
       /\ WdModeNow = "SUPPRESS" =>
            WdStart(wind).pitch <= IF WdWarns THEN wdPitch + 300000 ELSE wdPitch
       /\ WdModeNow # "SUPPRESS" =>
            /\ WdStart(wind).rotor = 180000
            /\ WdStart(wind).pitch = 0
                 \/ WdStart(wind).pitch <= (IF WdWarns THEN wdPitch + 200000 ELSE wdPitch - 100000)
  <2>1. WdStart(wind) \in WdStates
    BY <1>3, <1>5, WdStartLemma, SMT
  <2>2. WdStart(wind).pitch \in Int
    BY <2>1 DEF WdStates
  <2> QED
    BY <1>3, <1>5, <2>2, WdStartLemma, SMT
<1>13. wdPitch' \in Int /\ wdPitch' <= WdStart(wind).pitch + 15000
  BY <1>1, <1>3, <1>5, WdAfterLemma, SMT
<1>14. WdPitchBound(wdTime', wdPitch')
  <2> DEFINE start == WdStart(wind).pitch
             next == wdPitch'
  <2>1. start \in Int /\ next \in Int /\ next <= start + 15000
    BY <1>12, <1>13
  <2> HIDE DEF next
  <2>2. CASE wdTime < 18
    <3>1. start = 0 \/ start <= wdPitch - 100000
      BY <1>4, <1>7, <1>9, <1>12, <2>2, SMT
    <3>2. wdPitch <= 15000
      BY <1>3, <1>4, <2>2, SMT DEF WdPitchBound
    <3> HIDE DEF start
    <3>3. next <= 15000
      BY <1>4, <2>1, <3>1, <3>2, SMT
    <3> QED
      BY <1>1, <1>4, <2>2, <3>3, SMT DEF WdPitchBound, next
  <2>3. CASE wdTime = 18
    <3>1. start <= wdPitch + 300000
      BY <1>4, <1>7, <1>10, <1>12, <2>3, SMT
    <3>2. wdPitch <= 15000
      BY <1>3, <1>4, <2>3, SMT DEF WdPitchBound
    <3> HIDE DEF start
    <3>3. next <= 330000
      BY <1>4, <2>1, <3>1, <3>2, SMT
    <3> QED
      BY <1>1, <1>4, <2>3, <3>3, SMT DEF WdPitchBound, next
  <2>4. CASE 18 < wdTime /\ wdTime < 80
    <3>1. start <= wdPitch
      BY <1>4, <1>7, <1>10, <1>12, <2>4, SMT
    <3>2. wdPitch <= 330000 + 15000 * (wdTime - 19)
      BY <1>3, <1>4, <2>4, SMT DEF WdPitchBound
    <3> HIDE DEF start
    <3>3. next <= 330000 + 15000 * (wdTime + 1 - 19)
      BY <1>4, <2>1, <3>1, <3>2, SMT
    <3> QED
      BY <1>1, <1>4, <2>4, <3>3, SMT DEF WdPitchBound, next
  <2>5. CASE 80 <= wdTime /\ wdTime < 95
    <3>1. start = 0 \/ start <= wdPitch - 100000
      BY <1>4, <1>7, <1>9, <1>12, <2>5, SMT
    <3>2. wdPitch <= 1245000 - 85000 * (wdTime - 80)
      BY <1>3, <1>4, <2>5, SMT DEF WdPitchBound
    <3> HIDE DEF start
    <3>3. next <= 15000 \/ next <= 1245000 - 85000 * (wdTime + 1 - 80)
      BY <1>4, <2>1, <3>1, <3>2, SMT
    <3> QED
      BY <1>1, <1>4, <2>1, <2>5, <3>3, SMT DEF WdPitchBound, next
  <2>6. CASE 95 <= wdTime
    <3>1. start = 0 \/ start <= wdPitch - 100000
      BY <1>4, <1>7, <1>9, <1>12, <2>6, SMT
    <3>2. wdPitch <= 15000
      BY <1>3, <1>4, <2>6, SMT DEF WdPitchBound
    <3> HIDE DEF start
    <3>3. next <= 15000
      BY <1>4, <2>1, <3>1, <3>2, SMT
    <3> QED
      BY <1>1, <1>4, <2>6, <3>3, SMT DEF WdPitchBound, next
  <2> QED
    BY <1>4, <2>2, <2>3, <2>4, <2>5, <2>6, SMT
<1>15. ASSUME 85 <= wdTime
       PROVE  /\ wdRotorPid'.error = 0
              /\ wdRotorPid.error = 0 => 179997 <= wdRotor'
  <2>1. wind <= 130 /\ WdStart(wind).rotor = 180000
    BY <1>4, <1>5, <1>9, <1>12, <1>15, SMT
  <2> QED
    BY <1>1, <1>3, <1>5, <2>1, WdAfterLemma, SMT
<1>16. 85 < wdTime' => wdRotorPid'.error = 0
  BY <1>1, <1>4, <1>15, SMT
<1>17. wdTime' > 96 => WdTarget' - WdTarget' \div 1000 <= wdPower'
  <2> SUFFICES ASSUME wdTime' > 96 PROVE WdTarget' - WdTarget' \div 1000 <= wdPower'
    OBVIOUS
  <2>1. 96 <= wdTime
    BY <1>1, <1>4, SMT
  <2>2. wind = 120 /\ 179997 <= wdRotor'
    BY <1>4, <1>5, <1>15, <2>1, SMT DEF WdInv
  <2>3. wdPitch' <= 15000
    BY <1>1, <1>4, <1>14, <2>1, SMT DEF WdPitchBound
  <2>4. /\ wdPower' = WdPowerOf(wind, wdPitch', wdRotor')
        /\ wdPitch' \in Int /\ 0 <= wdPitch' /\ wdRotor' \in Int /\ wdRotor' <= 180000
    BY <1>1, <1>3, <1>5, WdAfterLemma, SMT
  <2>5. WdTarget - WdTarget \div 1000 <= WdPowerOf(120, wdPitch', wdRotor')
    BY <2>2, <2>3, <2>4, WdFullLemma, SMT
  <2> QED
    BY <2>2, <2>4, <2>5, SMT DEF WdTarget
<1> QED
  BY <1>6, <1>11, <1>14, <1>16, <1>17, SMT DEF WdInv

LEMMA WdInitLemma == WdInit => WdInv
<1> SUFFICES ASSUME WdInit PROVE WdInv
  OBVIOUS
<1>1. /\ wdTime = 0 /\ wdNoise = 0 /\ wdMode = "ECO" /\ wdWarned = FALSE /\ wdStable = FALSE
      /\ wdPitch = 0 /\ wdRotor = 180000 /\ wdPower = WdTarget
      /\ wdPitchPid = [integral |-> 0, error |-> 0, out |-> 0]
      /\ wdRotorPid = [integral |-> 0, error |-> 0, out |-> 0]
  BY SMT DEF WdInit
<1>2. wdPitchPid \in WdPids /\ wdRotorPid \in WdPids
  BY <1>1, SMT DEF WdPids
<1>3. WdTypes
  BY <1>1, <1>2, SMT DEF WdTypes, WdMaxPitch, WdTarget
<1>4. WdModes
  BY <1>1, SMT DEF WdModes
<1>5. WdPitchBound(wdTime, wdPitch)
  BY <1>1, SMT DEF WdPitchBound
<1> QED
  BY <1>1, <1>3, <1>4, <1>5, SMT DEF WdInv

LEMMA WdKept == WdSpec => []WdInv
<1>1. WdInv /\ [WdNext]_wdVars => WdInv'
  <2> SUFFICES ASSUME WdInv, [WdNext]_wdVars PROVE WdInv'
    OBVIOUS
  <2>1. ASSUME NEW noise \in WdNoises \cup {wdNoise}, WdStep(noise) PROVE WdInv'
    <3>1. noise \in Int
      BY WdNoisesAssumption, SMT DEF WdInv, WdTypes
    <3> QED
      BY <2>1, <3>1, WdStepLemma
  <2>2. CASE WdEnd
    <3>1. /\ wdTime = 121 /\ wdTime' = 122
          /\ UNCHANGED <<wdNoise, wdMode, wdWarned, wdStable, wdPitch, wdRotor, wdPower,
                         wdPitchPid, wdRotorPid>>
      BY <2>2, SMT DEF WdEnd, wdTurbine
    <3>2. WdTypes'
      BY <3>1, SMT DEF WdInv, WdTypes, WdPids, WdMaxPitch, WdTarget
    <3>3. WdModes'
      BY <3>1, SMT DEF WdInv, WdModes
    <3>4. WdPitchBound(wdTime', wdPitch')
      BY <3>1, SMT DEF WdInv, WdPitchBound
    <3> QED
      BY <3>1, <3>2, <3>3, <3>4, SMT DEF WdInv, WdTarget
  <2>3. CASE UNCHANGED wdVars
    <3>1. UNCHANGED <<wdTime, wdNoise, wdMode, wdWarned, wdStable, wdPitch, wdRotor, wdPower,
                      wdPitchPid, wdRotorPid>>
      BY <2>3, SMT DEF wdVars, wdTurbine
    <3>2. WdTypes'
      BY <3>1, SMT DEF WdInv, WdTypes, WdPids, WdMaxPitch, WdTarget
    <3>3. WdModes'
      BY <3>1, SMT DEF WdInv, WdModes
    <3>4. WdPitchBound(wdTime', wdPitch')
      BY <3>1, SMT DEF WdInv
    <3> QED
      BY <3>1, <3>2, <3>3, <3>4, SMT DEF WdInv, WdTarget
  <2> QED
    BY <2>1, <2>2, <2>3 DEF WdNext
<1> QED
  BY <1>1, WdInitLemma, PTL DEF WdSpec

(* The ranges of the turbine's variables, whatever the winds are.              *)
THEOREM WindTypeCorrect == WdSpec => []WdTypeOK
<1>1. WdInv => WdTypeOK
  <2> SUFFICES ASSUME WdInv PROVE WdTypeOK
    OBVIOUS
  <2>1. WdTypes
    BY DEF WdInv
  <2>2. WdMaxPitch \in Int /\ WdTarget \in Int
    BY SMT DEF WdMaxPitch, WdTarget
  <2>3. wdPitch \in 0..WdMaxPitch /\ wdPower \in 0..WdTarget
    BY <2>1, <2>2, SMT DEF WdTypes
  <2>4. wdTime \in 0..122
    BY <2>1, SMT DEF WdTypes
  <2> QED
    BY <2>1, <2>3, <2>4, SMT DEF WdTypes, WdTypeOK
<1> QED
  BY <1>1, WdKept, PTL

(* Sixteen seconds after a disturbance the farm gives its full power again,    *)
(* whatever the winds were (WindTurbineController::resetSmooth, lines 101-108).*)
THEOREM WindFullPowerAgain == WdSpec => []WdFullPowerAgain
<1>1. WdInv => WdFullPowerAgain
  BY SMT DEF WdInv, WdTypes, WdFullPowerAgain, WdTarget
<1> QED
  BY <1>1, WdKept, PTL

-----------------------------------------------------------------------------
(*                            The baseline farm                              *)

LEMMA B1KnotsLemma ==
  ASSUME NEW j \in Int, 1 <= j, j <= 22
  PROVE  /\ B1Knots[j] \in Int /\ 137000 <= B1Knots[j] /\ B1Knots[j] <= 189000
         /\ B1Knots[j + 1] \in Int /\ 137000 <= B1Knots[j + 1] /\ B1Knots[j + 1] <= 189000
         /\ B1Knots[j + 1] - B1Knots[j] <= 10140 /\ B1Knots[j] - B1Knots[j + 1] <= 10140
<1>1. \/ j = 1 \/ j = 2 \/ j = 3 \/ j = 4 \/ j = 5 \/ j = 6 \/ j = 7 \/ j = 8
      \/ j = 9 \/ j = 10 \/ j = 11 \/ j = 12 \/ j = 13 \/ j = 14 \/ j = 15 \/ j = 16
      \/ j = 17 \/ j = 18 \/ j = 19 \/ j = 20 \/ j = 21 \/ j = 22
  BY SMT
<1> QED
  BY <1>1, SMT DEF B1Knots

(* A point of a straight line, and how far 1 and 30 seconds move it.           *)
LEMMA B1LineLemma ==
  ASSUME NEW rise \in Int, -10140 <= rise, rise <= 10140, NEW r \in Int, 0 <= r, r <= 60
  PROVE  /\ rise * r \in Int
         /\ rise * r <= 10140 * r /\ -10140 * r <= rise * r
         /\ rise * (60 - r) = 60 * rise - rise * r
         /\ 60 * rise - rise * r <= 10140 * (60 - r) /\ -10140 * (60 - r) <= 60 * rise - rise * r
         /\ rise * (r + 1) = rise * r + rise
         /\ rise * (r + 30) = rise * r + 30 * rise
         /\ rise * (r - 30) = rise * r - 30 * rise
BY SMT


\* The seconds in which the program looks at its plan, 30 s ahead included.
B1Span == 0..1229

LEMMA B1PlanParts ==
  ASSUME NEW t \in B1Span
  PROVE  \E j \in Int, r \in Int :
           /\ 1 <= j /\ j <= 21 /\ 0 <= r /\ r <= 59
           /\ t = 60 * (j - 1) + r
           /\ B1Plan(t) = B1Knots[j] + ((B1Knots[j + 1] - B1Knots[j]) * r) \div 60
<1> DEFINE j == t \div 60 + 1
           r == t % 60
<1>1. /\ j \in Int /\ r \in Int /\ 1 <= j /\ j <= 21 /\ 0 <= r /\ r <= 59
      /\ t = 60 * (j - 1) + r
  BY SMT DEF B1Span
<1>2. B1Plan(t) = B1Knots[j] + ((B1Knots[j + 1] - B1Knots[j]) * r) \div 60
  BY Zenon DEF B1Plan
<1> QED
  BY <1>1, <1>2, Zenon

(* The plan at t, given the quotient and the remainder of t by a minute.       *)
LEMMA B1PlanAt ==
  ASSUME NEW j \in Int, NEW r \in Int, 1 <= j, j <= 21, 0 <= r, r <= 59
  PROVE  B1Plan(60 * (j - 1) + r)
           = B1Knots[j] + ((B1Knots[j + 1] - B1Knots[j]) * r) \div 60
<1> DEFINE t == 60 * (j - 1) + r
<1>1. t \div 60 + 1 = j /\ t % 60 = r
  BY SMT
<1>2. B1Plan(t) = B1Knots[t \div 60 + 1]
                  + ((B1Knots[(t \div 60 + 1) + 1] - B1Knots[t \div 60 + 1]) * (t % 60)) \div 60
  BY Zenon DEF B1Plan
<1> QED
  BY <1>1, <1>2, Zenon

LEMMA B1Between ==
  ASSUME NEW a \in Int, NEW b \in Int, NEW r \in Int, NEW lo \in Int, NEW hi \in Int,
         lo <= a, a <= hi, lo <= b, b <= hi, 0 <= r, r <= 60
  PROVE  /\ a + ((b - a) * r) \div 60 \in Int
         /\ lo <= a + ((b - a) * r) \div 60 /\ a + ((b - a) * r) \div 60 <= hi
<1>1. (b - a) * r \in Int
  BY SMT
<1>2. \/ 0 <= (b - a) * r /\ (b - a) * r <= 60 * (b - a)
      \/ 60 * (b - a) <= (b - a) * r /\ (b - a) * r <= 0
  BY SMT
<1> DEFINE v == (b - a) * r
<1> HIDE DEF v
<1>3. v \in Int /\ ((0 <= v /\ v <= 60 * (b - a)) \/ (60 * (b - a) <= v /\ v <= 0))
  BY <1>1, <1>2, Zenon DEF v
<1>4. a + v \div 60 \in Int /\ lo <= a + v \div 60 /\ a + v \div 60 <= hi
  BY <1>3, SMT
<1> QED
  BY <1>4 DEF v

LEMMA B1PlanBounds ==
  ASSUME NEW t \in Int, 0 <= t, t <= 1229
  PROVE  B1Plan(t) \in Int /\ 137000 <= B1Plan(t) /\ B1Plan(t) <= 189000
<1>1. PICK j \in Int, r \in Int :
           /\ 1 <= j /\ j <= 21 /\ 0 <= r /\ r <= 59
           /\ t = 60 * (j - 1) + r
           /\ B1Plan(t) = B1Knots[j] + ((B1Knots[j + 1] - B1Knots[j]) * r) \div 60
  <2>1. t \in B1Span
    BY SMT DEF B1Span
  <2> QED
    BY <2>1, B1PlanParts, Zenon
<1>2. /\ B1Knots[j] \in Int /\ 137000 <= B1Knots[j] /\ B1Knots[j] <= 189000
      /\ B1Knots[j + 1] \in Int /\ 137000 <= B1Knots[j + 1] /\ B1Knots[j + 1] <= 189000
  BY <1>1, B1KnotsLemma, SMT
<1> DEFINE a == B1Knots[j]
           b == B1Knots[j + 1]
<1> HIDE DEF a, b
<1>3. /\ a \in Int /\ 137000 <= a /\ a <= 189000 /\ b \in Int /\ 137000 <= b /\ b <= 189000
      /\ B1Plan(t) = a + ((b - a) * r) \div 60
  BY <1>1, <1>2, SMT DEF a, b
<1>4. 0 <= r /\ r <= 60 /\ 137000 \in Int /\ 189000 \in Int
  BY <1>1, SMT
<1>5. /\ a + ((b - a) * r) \div 60 \in Int
      /\ 137000 <= a + ((b - a) * r) \div 60 /\ a + ((b - a) * r) \div 60 <= 189000
  BY <1>3, <1>4, B1Between, SMT
<1> QED
  BY <1>3, <1>5, SMT

(* How far one second and thirty seconds move a point of a line, or of two     *)
(* lines that meet, none steeper than 169 a second.                            *)
LEMMA B1OneLine ==
  ASSUME NEW a \in Int, NEW b \in Int, NEW r \in Int, NEW n \in {1, 30},
         b - a <= 10140, a - b <= 10140, 0 <= r, r + n <= 60
  PROVE  /\ (a + ((b - a) * (r + n)) \div 60) - (a + ((b - a) * r) \div 60) <= 170 * n
         /\ (a + ((b - a) * r) \div 60) - (a + ((b - a) * (r + n)) \div 60) <= 170 * n
<1> DEFINE v == (b - a) * r
           u == (b - a) * (r + n)
<1>1. v \in Int /\ u \in Int /\ u = v + n * (b - a)
  BY SMT
<1> HIDE DEF v, u
<1>2. CASE n = 1
  <2>1. u <= v + 10140 /\ v <= u + 10140
    BY <1>1, <1>2, SMT
  <2>2. /\ (a + u \div 60) - (a + v \div 60) <= 170
        /\ (a + v \div 60) - (a + u \div 60) <= 170
    BY <1>1, <2>1, SMT
  <2> QED
    BY <1>2, <2>2, SMT DEF u, v
<1>3. CASE n = 30
  <2>1. u <= v + 304200 /\ v <= u + 304200
    BY <1>1, <1>3, SMT
  <2>2. /\ (a + u \div 60) - (a + v \div 60) <= 5100
        /\ (a + v \div 60) - (a + u \div 60) <= 5100
    BY <1>1, <2>1, SMT
  <2> QED
    BY <1>3, <2>2, SMT DEF u, v
<1> QED
  BY <1>2, <1>3

LEMMA B1TwoLines ==
  ASSUME NEW a \in Int, NEW b \in Int, NEW c \in Int, NEW r \in Int, NEW n \in {1, 30},
         b - a <= 10140, a - b <= 10140, c - b <= 10140, b - c <= 10140,
         0 <= r, r <= 60, r + n >= 60, r + n <= 120
  PROVE  /\ (b + ((c - b) * (r + n - 60)) \div 60) - (a + ((b - a) * r) \div 60) <= 170 * n
         /\ (a + ((b - a) * r) \div 60) - (b + ((c - b) * (r + n - 60)) \div 60) <= 170 * n
<1> DEFINE v == (b - a) * r
           u == (c - b) * (r + n - 60)
<1>1. v \in Int /\ u \in Int
  BY SMT
<1>2. 60 * (b - a) - v <= 10140 * (60 - r) /\ v - 60 * (b - a) <= 10140 * (60 - r)
  <2>1. (b - a) * (60 - r) <= 10140 * (60 - r) /\ -10140 * (60 - r) <= (b - a) * (60 - r)
    BY SMT
  <2>2. (b - a) * (60 - r) = 60 * (b - a) - v
    BY SMT
  <2> QED
    BY <2>1, <2>2, <1>1, SMT
<1>3. u <= 10140 * (r + n - 60) /\ -u <= 10140 * (r + n - 60)
  <2>1. (c - b) * (r + n - 60) <= 10140 * (r + n - 60)
        /\ -10140 * (r + n - 60) <= (c - b) * (r + n - 60)
    BY SMT
  <2> QED
    BY <2>1, <1>1, SMT
<1> HIDE DEF v, u
<1>4. /\ (60 * b + u) - (60 * a + v) <= 10140 * n
      /\ (60 * a + v) - (60 * b + u) <= 10140 * n
  BY <1>1, <1>2, <1>3, SMT
<1>5. CASE n = 1
  <2>1. /\ (b + u \div 60) - (a + v \div 60) <= 170
        /\ (a + v \div 60) - (b + u \div 60) <= 170
    BY <1>1, <1>4, <1>5, SMT
  <2> QED
    BY <1>5, <2>1, SMT DEF u, v
<1>6. CASE n = 30
  <2>1. /\ (b + u \div 60) - (a + v \div 60) <= 5100
        /\ (a + v \div 60) - (b + u \div 60) <= 5100
    BY <1>1, <1>4, <1>6, SMT
  <2> QED
    BY <1>6, <2>1, SMT DEF u, v
<1> QED
  BY <1>5, <1>6

LEMMA B1PlanMoves ==
  ASSUME NEW t \in Int, NEW n \in {1, 30}, 0 <= t, t + n <= 1229
  PROVE  B1Plan(t + n) - B1Plan(t) <= 170 * n /\ B1Plan(t) - B1Plan(t + n) <= 170 * n
<1>1. PICK j \in Int, r \in Int :
           /\ 1 <= j /\ j <= 21 /\ 0 <= r /\ r <= 59
           /\ t = 60 * (j - 1) + r
           /\ B1Plan(t) = B1Knots[j] + ((B1Knots[j + 1] - B1Knots[j]) * r) \div 60
  <2>1. t \in B1Span
    BY SMT DEF B1Span
  <2> QED
    BY <2>1, B1PlanParts, Zenon
<1> DEFINE a == B1Knots[j]
           b == B1Knots[j + 1]
           c == B1Knots[j + 2]
<1>2. a \in Int /\ b \in Int /\ b - a <= 10140 /\ a - b <= 10140
  BY <1>1, B1KnotsLemma, SMT
<1>3. (j + 1) + 1 = j + 2 /\ j + 1 \in Int /\ 1 <= j + 1 /\ j + 1 <= 22
  BY <1>1, SMT
<1>4. c \in Int /\ c - b <= 10140 /\ b - c <= 10140
  BY <1>3, B1KnotsLemma, SMT
<1>5. CASE r + n <= 59
  <2>1. t + n = 60 * (j - 1) + (r + n) /\ r + n \in Int /\ 0 <= r + n
    BY <1>1, SMT
  <2>2. B1Plan(t + n) = a + ((b - a) * (r + n)) \div 60
    BY <1>1, <1>5, <2>1, B1PlanAt, SMT
  <2> HIDE DEF a, b, c
  <2>3. /\ (a + ((b - a) * (r + n)) \div 60) - (a + ((b - a) * r) \div 60) <= 170 * n
        /\ (a + ((b - a) * r) \div 60) - (a + ((b - a) * (r + n)) \div 60) <= 170 * n
    <3>1. r + n <= 60
      BY <1>1, <1>5, SMT
    <3> QED
      BY <1>1, <1>2, <3>1, B1OneLine, SMT
  <2>4. B1Plan(t) = a + ((b - a) * r) \div 60
    BY <1>1, Zenon DEF a, b
  <2> QED
    BY <2>2, <2>3, <2>4, Zenon
<1>6. CASE r + n >= 60
  <2>1. /\ t + n = 60 * ((j + 1) - 1) + (r + n - 60) /\ r + n - 60 \in Int
        /\ 0 <= r + n - 60 /\ r + n - 60 <= 59 /\ j + 1 <= 21
    BY <1>1, <1>6, SMT
  <2>2. B1Plan(t + n) = b + ((c - b) * (r + n - 60)) \div 60
    <3>1. B1Plan(60 * ((j + 1) - 1) + (r + n - 60))
            = B1Knots[j + 1] + ((B1Knots[(j + 1) + 1] - B1Knots[j + 1]) * (r + n - 60)) \div 60
      BY <1>3, <2>1, B1PlanAt, Zenon
    <3> QED
      BY <3>1, <2>1, <1>3, Zenon
  <2> HIDE DEF a, b, c
  <2>3. /\ (b + ((c - b) * (r + n - 60)) \div 60) - (a + ((b - a) * r) \div 60) <= 170 * n
        /\ (a + ((b - a) * r) \div 60) - (b + ((c - b) * (r + n - 60)) \div 60) <= 170 * n
    <3>1. r <= 60 /\ r + n <= 120
      BY <1>1, SMT
    <3> QED
      BY <1>1, <1>2, <1>4, <1>6, <3>1, B1TwoLines, SMT
  <2>4. B1Plan(t) = a + ((b - a) * r) \div 60
    BY <1>1, Zenon DEF a, b
  <2> QED
    BY <2>2, <2>3, <2>4, Zenon
<1> QED
  BY <1>1, <1>5, <1>6, SMT

-----------------------------------------------------------------------------
(* The feed-forward: at most 0.64 of a filtered prediction of 5.5 MW, and of   *)
(* its sign.                                                                   *)
LEMMA B1FeedforwardBounds ==
  ASSUME NEW f \in Int, -5500 <= f, f <= 5500
  PROVE  /\ B1Feedforward(f) \in Int
         /\ -3507 <= B1Feedforward(f) /\ B1Feedforward(f) <= 3507
         /\ f <= 0 => B1Feedforward(f) <= 0
<1> DEFINE a == B1Abs(f)
           doubt == (2000 * (a \div 100)) \div (B1Rated \div 100)
           conf == B1Clamp((85 * (1000 - doubt)) \div 100, 300, 950)
           p == conf * f
<1>1. a \in Int /\ 0 <= a /\ a <= 5500
  BY SMT DEF B1Abs
<1> HIDE DEF a
<1>2. doubt \in Int /\ 0 <= doubt /\ doubt <= 1000 /\ ~(2 * a > B1Rated \div 2)
  BY <1>1, SMT DEF B1Rated
<1> HIDE DEF doubt
<1>3. conf \in Int /\ 300 <= conf /\ conf <= 850
  BY <1>2, SMT DEF B1Clamp
<1>4. B1Feedforward(f) = B1Clamp((75 * (p \div 1000)) \div 100, -45000, 45000)
  BY <1>2, SMT DEF B1Feedforward, a, doubt
<1> HIDE DEF conf
<1>5. p \in Int /\ p <= 4675000 /\ -4675000 <= p /\ (f <= 0 => p <= 0)
  <2>1. p \in Int
    BY <1>3, SMT
  <2>2. CASE f <= 0
    <3>1. conf * f <= 0 /\ conf * f >= 850 * f
      BY <1>3, <2>2, SMT
    <3> QED
      BY <3>1, <2>1, <2>2, SMT
  <2>3. CASE f >= 0
    <3>1. conf * f >= 0 /\ conf * f <= 850 * f
      BY <1>3, <2>3, SMT
    <3> QED
      BY <3>1, <2>1, <2>3, SMT
  <2> QED
    BY <2>2, <2>3, SMT
<1> HIDE DEF p
<1> QED
  BY <1>4, <1>5, SMT DEF B1Clamp

(* A cycle of the turbines seen from the power they have: they move 0.7 of the *)
(* distance to the setpoint, or of 0.75 MW.                                    *)
B1Move(y) == (7 * B1Clamp(y, -750, 750)) \div 10

LEMMA B1MoveBounds ==
  ASSUME NEW y \in Int, -3507 <= y, y <= 720
  PROVE  /\ B1Move(y) \in Int /\ -525 <= B1Move(y) /\ B1Move(y) <= 504
         /\ y >= -720 => /\ -504 <= B1Move(y)
                         /\ -216 <= y - B1Move(y) /\ y - B1Move(y) <= 217
         /\ y >= 280 => B1Move(y) >= 196
         /\ y <= -280 => B1Move(y) <= -196
         /\ y < -720 => B1Move(y) <= -504
BY SMT DEF B1Move, B1Clamp

LEMMA B1MovedLemma ==
  ASSUME NEW p \in Int, NEW y \in Int, 130000 <= p, p <= 195000, -3507 <= y, y <= 720,
         b1Power = p, b1Command = p + y
  PROVE  B1Moved = p + B1Move(y)
BY SMT DEF B1Moved, B1Move, B1Clamp, B1WindLimit, B1Rated

-----------------------------------------------------------------------------
(* How the power lags behind the plan by e and the setpoint leads it by y:     *)
(* either the setpoint follows the plan, or it was pulled far below it by the  *)
(* feed-forward of the first cycle and rises.                                  *)
B1Follows(e, y) ==
  /\ -4600 <= e /\ e <= 4600
  /\ -720 <= y /\ y <= 720
  /\ e >= 3900 => y >= 280
  /\ e <= -3900 => y <= -280
B1Rises(e, y, i, d) ==
  /\ 0 <= e /\ 0 <= i /\ 0 <= d
  /\ y < -720 /\ e - 3507 <= y

(* The next lag.                                                               *)
LEMMA B1NextLag ==
  ASSUME NEW e \in Int, NEW y \in Int, NEW i \in Int, NEW d \in Int, NEW delta \in Int,
         -170 <= delta, delta <= 170, B1Follows(e, y) \/ B1Rises(e, y, i, d)
  PROVE  /\ -3507 <= y /\ y <= 720 /\ -4600 <= e /\ e <= 4600
         /\ -4600 <= e + delta - B1Move(y) /\ e + delta - B1Move(y) <= 4600
         /\ B1Rises(e, y, i, d) => /\ e + 334 <= e + delta - B1Move(y)
                                   /\ e + delta - B1Move(y) <= e + 695
<1>1. -3507 <= y /\ y <= 720 /\ -4600 <= e /\ e <= 4600
  BY SMT DEF B1Follows, B1Rises
<1> DEFINE m == B1Move(y)
<1>2. /\ m \in Int /\ -525 <= m /\ m <= 504
      /\ y >= -720 => -504 <= m
      /\ y >= 280 => m >= 196
      /\ y <= -280 => m <= -196
      /\ y < -720 => m <= -504
  BY <1>1, B1MoveBounds, SMT
<1> HIDE DEF m
<1>3. CASE B1Follows(e, y)
  <2>1. -4600 <= e + delta - m /\ e + delta - m <= 4600 /\ ~ B1Rises(e, y, i, d)
    BY <1>2, <1>3, SMT DEF B1Follows, B1Rises
  <2> QED
    BY <1>1, <2>1 DEF m
<1>4. CASE B1Rises(e, y, i, d)
  <2>1. /\ -4600 <= e + delta - m /\ e + delta - m <= 4600
        /\ e + 334 <= e + delta - m /\ e + delta - m <= e + 695
    BY <1>2, <1>4, SMT DEF B1Rises
  <2> QED
    BY <1>1, <2>1 DEF m
<1> QED
  BY <1>3, <1>4

(* The feedback for an error e2, the integral i2 and the derivative d2.        *)
B1Feedback(e2, i2, d2) == B1Clamp((120 * e2 + 15 * i2 + 3 * d2) \div 100, -B1Rated, B1Rated)

LEMMA B1FeedbackBounds ==
  ASSUME NEW e2 \in Int, NEW i2 \in Int, NEW d2 \in Int,
         -4600 <= e2, e2 <= 4600, -30000 <= i2, i2 <= 30000, -9200 <= d2, d2 <= 9200
  PROVE  /\ B1Feedback(B1Dead(e2), i2, d2) \in Int
         /\ -20000 <= B1Feedback(B1Dead(e2), i2, d2)
         /\ B1Feedback(B1Dead(e2), i2, d2) <= 20000
         /\ e2 >= 3900 => B1Feedback(B1Dead(e2), i2, d2) >= -96
         /\ e2 <= -3900 => B1Feedback(B1Dead(e2), i2, d2) <= 96
         /\ 0 <= e2 /\ 0 <= i2 /\ 0 <= d2 => B1Feedback(B1Dead(e2), i2, d2) >= 0
BY SMT DEF B1Dead, B1Abs, B1Feedback, B1Clamp, B1Rated

(* The next lead.                                                              *)
LEMMA B1NextLead ==
  ASSUME NEW e \in Int, NEW y \in Int, NEW i \in Int, NEW d \in Int, NEW m \in Int,
         NEW e2 \in Int, NEW i2 \in Int, NEW d2 \in Int, NEW ff \in Int, NEW out \in Int,
         NEW y2 \in Int,
         B1Follows(e, y) \/ B1Rises(e, y, i, d),
         m = B1Move(y),
         -4600 <= e2, e2 <= 4600,
         -3507 <= ff, ff <= 3507,
         B1Rises(e, y, i, d) => /\ e + 334 <= e2 /\ e2 <= e + 695
                                /\ 0 <= i2 /\ 0 <= d2 /\ 0 <= out,
         e2 >= 3900 => out >= -96,
         e2 <= -3900 => out <= 96,
         y2 = B1Clamp(e2 + ff + out, y - m - 500, y - m + 500)
  PROVE  B1Follows(e2, y2) \/ B1Rises(e2, y2, i2, d2)
<1>1. -3507 <= y /\ y <= 720
  BY SMT DEF B1Follows, B1Rises
<1>2. /\ -525 <= m /\ m <= 504
      /\ y >= -720 => -216 <= y - m /\ y - m <= 217
      /\ y < -720 => m <= -504
  BY <1>1, B1MoveBounds, SMT
<1>3. CASE B1Follows(e, y)
  <2>1. B1Follows(e2, y2)
    BY <1>2, <1>3, SMT DEF B1Follows, B1Clamp
  <2> QED
    BY <2>1
<1>4. CASE B1Rises(e, y, i, d)
  <2>1. /\ e + 334 <= e2 /\ e2 <= e + 695 /\ 0 <= i2 /\ 0 <= d2 /\ 0 <= out
        /\ 0 <= e /\ y < -720 /\ e - 3507 <= y
    BY <1>4 DEF B1Rises
  <2>2. y2 <= 304 /\ e2 - 3507 <= y2 /\ 0 <= e2 /\ e2 <= 3600
    BY <1>2, <2>1, SMT DEF B1Clamp
  <2>3. CASE y2 < -720
    BY <2>1, <2>2, <2>3, SMT DEF B1Rises
  <2>4. CASE y2 >= -720
    BY <2>2, <2>4, SMT DEF B1Follows
  <2> QED
    BY <2>3, <2>4, SMT
<1> QED
  BY <1>3, <1>4

-----------------------------------------------------------------------------
B1Lag == B1Plan(b1Time - 1) - b1Power
B1Lead == b1Setpoint - b1Power

B1Counts ==
  /\ b1Time \in Int /\ 0 <= b1Time /\ b1Time <= 1200
  /\ b1Noise \in Int /\ -400 <= b1Noise /\ b1Noise <= 392
  /\ b1Stats.cycles \in Int /\ b1Stats.qualified = b1Stats.cycles
B1Early ==
  /\ b1First /\ b1Time = 0
  /\ b1Command = B1Plan(0) /\ b1Power = B1Plan(0) /\ b1Setpoint = 0
  /\ b1Pid.integral = 0 /\ b1Pid.error = 0 /\ b1Pid.d = 0
B1LateTypes ==
  /\ b1Power \in Int /\ b1Setpoint \in Int
  /\ b1Filtered \in Int /\ -5500 <= b1Filtered /\ b1Filtered <= 5500
  /\ b1Pid.integral \in Int /\ -30000 <= b1Pid.integral /\ b1Pid.integral <= 30000
  /\ b1Pid.d \in Int /\ -9200 <= b1Pid.d /\ b1Pid.d <= 9200
B1Late ==
  /\ ~ b1First /\ 1 <= b1Time
  /\ B1LateTypes
  /\ b1Command = b1Setpoint
  /\ b1Pid.error = B1Dead(B1Lag)
  /\ B1Follows(B1Lag, B1Lead) \/ B1Rises(B1Lag, B1Lead, b1Pid.integral, b1Pid.d)

(* The inductive invariant: the lag and the lead bound each other, and as long *)
(* as they do no cycle misses the 2 %.                                         *)
B1Inv == B1Counts /\ (B1Early \/ B1Late)

(* The errors rand() can give, and more.                                       *)
B1Errors == {n \in Int : -400 <= n /\ n <= 392}
B1Turn == \E noise \in B1Errors : B1Loop(noise)

(* What the filter is given, and what it holds.                                *)
LEMMA B1SampleBounds ==
  ASSUME NEW x \in B1Errors, NEW t \in Int, 0 <= t, t <= 1199
  PROVE  /\ B1Plan(t) - B1Predicted(t, x) \in Int
         /\ -5500 <= B1Plan(t) - B1Predicted(t, x) /\ B1Plan(t) - B1Predicted(t, x) <= 5500
         /\ t = 0 => B1Plan(t) - B1Predicted(t, x) <= 0
<1>1. PICK a \in Int : a = B1Plan(t)
  <2>1. t <= 1229
    BY SMT
  <2> QED
    BY <2>1, B1PlanBounds
<1>2. PICK b \in Int : b = B1Plan(t + 30)
  <2>1. t + 30 \in Int /\ 0 <= t + 30 /\ t + 30 <= 1229
    BY SMT
  <2> QED
    BY <2>1, B1PlanBounds
<1>3. x \in Int /\ -400 <= x /\ x <= 392
  BY Zenon DEF B1Errors
<1>4. b - a <= 5100 /\ a - b <= 5100
  <2>1. 30 \in {1, 30} /\ t + 30 <= 1229
    BY SMT
  <2>2. B1Plan(t + 30) - B1Plan(t) <= 170 * 30 /\ B1Plan(t) - B1Plan(t + 30) <= 170 * 30
    BY <2>1, B1PlanMoves, SMT
  <2> QED
    BY <1>1, <1>2, <2>2, SMT
<1>5. B1Plan(t) - B1Predicted(t, x) = a - (b + x)
  BY <1>1, <1>2 DEF B1Predicted
<1>6. t = 0 => a - (b + x) <= 0
  <2>1. B1Plan(0) = 150000 /\ B1Plan(30) = 155068
    BY SMT DEF B1Plan, B1Knots
  <2>2. t = 0 => a = 150000 /\ b = 155068
    BY <1>1, <1>2, <2>1, SMT
  <2> QED
    BY <1>3, <2>2, SMT
<1>7. a - (b + x) \in Int /\ -5500 <= a - (b + x) /\ a - (b + x) <= 5500
  BY <1>3, <1>4, SMT
<1> DEFINE z == B1Plan(t) - B1Predicted(t, x)
<1> HIDE DEF z
<1>8. z = a - (b + x)
  BY <1>5 DEF z
<1>9. z \in Int /\ -5500 <= z /\ z <= 5500 /\ (t = 0 => z <= 0)
  BY <1>6, <1>7, <1>8, SMT
<1> QED
  BY <1>9 DEF z

LEMMA B1FilterBounds ==
  ASSUME NEW old \in Int, NEW x \in Int, -5500 <= x, x <= 5500,
         -5500 <= old, old <= 5500
  PROVE  /\ old + (15 * (x - old)) \div 100 \in Int
         /\ -5500 <= old + (15 * (x - old)) \div 100
         /\ old + (15 * (x - old)) \div 100 <= 5500
BY SMT

LEMMA B1DerivativeBounds ==
  ASSUME NEW d \in Int, NEW raw \in Int, -9200 <= d, d <= 9200, -9200 <= raw, raw <= 9200
  PROVE  /\ d + (3 * (raw - d)) \div 10 \in Int
         /\ -9200 <= d + (3 * (raw - d)) \div 10 /\ d + (3 * (raw - d)) \div 10 <= 9200
         /\ 0 <= d /\ 0 <= raw => 0 <= d + (3 * (raw - d)) \div 10
BY SMT

(* The dead band keeps signs and order.                                        *)
LEMMA B1DeadBounds ==
  ASSUME NEW e \in Int, NEW e2 \in Int, -4600 <= e, e <= 4600, -4600 <= e2, e2 <= 4600
  PROVE  /\ B1Dead(e) \in Int /\ B1Dead(e2) \in Int
         /\ -9200 <= B1Dead(e2) - B1Dead(e) /\ B1Dead(e2) - B1Dead(e) <= 9200
         /\ 0 <= e2 => 0 <= B1Dead(e2)
         /\ 0 <= e /\ e <= e2 => 0 <= B1Dead(e2) - B1Dead(e)
BY SMT DEF B1Dead, B1Abs

LEMMA B1PidLemma ==
  ASSUME NEW i \in Int, NEW p \in Int, NEW d \in Int, NEW error \in Int,
         b1Pid.integral = i, b1Pid.error = p, b1Pid.d = d
  PROVE  LET u == B1PidUpdate(error) IN
         /\ u.integral \in Int /\ -30000 <= u.integral /\ u.integral <= 30000
         /\ 0 <= i /\ 0 <= error => 0 <= u.integral
         /\ i = 0 /\ error = 0 => u.integral = 0
         /\ u.error = error
         /\ b1First => u.d = error - p
         /\ ~ b1First => u.d = d + (3 * ((error - p) - d)) \div 10
         /\ u.output = B1Feedback(error, u.integral, u.d)
<1> DEFINE frees == error * b1Pid.sign < 0
           add == IF ~ b1Pid.saturated \/ frees THEN error ELSE 0
           u == B1PidUpdate(error)
           raw == error - b1Pid.error
           d2 == IF b1First THEN raw ELSE b1Pid.d + (3 * (raw - b1Pid.d)) \div 10
           i2 == B1Clamp(b1Pid.integral + add, -30000, 30000)
<1>1. add \in Int /\ (add = error \/ add = 0)
  BY SMT
<1>2. /\ u.integral = i2 /\ u.error = error /\ u.d = d2
      /\ u.output = B1Feedback(error, i2, d2)
  BY SMT DEF B1PidUpdate, B1Feedback
<1> HIDE DEF add, u
<1>3. /\ i2 \in Int /\ -30000 <= i2 /\ i2 <= 30000
      /\ 0 <= i /\ 0 <= error => 0 <= i2
      /\ i = 0 /\ error = 0 => i2 = 0
  BY <1>1, SMT DEF B1Clamp
<1>4. (b1First => d2 = error - p) /\ (~ b1First => d2 = d + (3 * ((error - p) - d)) \div 10)
  BY Zenon
<1> HIDE DEF i2, d2
<1>5. /\ u.integral \in Int /\ -30000 <= u.integral /\ u.integral <= 30000
      /\ 0 <= i /\ 0 <= error => 0 <= u.integral
      /\ i = 0 /\ error = 0 => u.integral = 0
      /\ u.error = error
      /\ b1First => u.d = error - p
      /\ ~ b1First => u.d = d + (3 * ((error - p) - d)) \div 10
      /\ u.output = B1Feedback(error, u.integral, u.d)
  BY <1>2, <1>3, <1>4, SMT
<1> QED
  BY <1>5 DEF u

-----------------------------------------------------------------------------
(* What a turn of the loop assigns.                                            *)
LEMMA B1LoopAssigns ==
  ASSUME B1Turn
  PROVE  /\ b1Time < 1200 /\ b1Time' = b1Time + 1
         /\ b1Power' = B1Moved
         /\ b1Pid' = B1PidUpdate(B1Dead(B1Plan(b1Time) - B1Moved))
         /\ b1Setpoint' = B1SetpointAfter(B1Plan(b1Time), b1Filtered', b1Pid'.output)
         /\ ~ b1First'
         /\ b1Command' = B1Clamp(B1Dispatch(b1Setpoint'), 15000, B1Rated)
         /\ b1Stats' = B1StatsAfter(B1Plan(b1Time) - B1Moved)
BY SMT DEF B1Turn, B1Loop

LEMMA B1LoopDraws ==
  ASSUME B1Turn
  PROVE  \E noise \in B1Errors :
           /\ b1Noise' = noise
           /\ b1Filtered' = B1Filter(b1Filtered, B1Plan(b1Time) - B1Predicted(b1Time, noise))
<1>1. PICK noise \in B1Errors : B1Loop(noise)
  BY Zenon DEF B1Turn
<1>2. /\ b1Noise' = noise
      /\ b1Filtered' = B1Filter(b1Filtered, B1Plan(b1Time) - B1Predicted(b1Time, noise))
  BY <1>1, SMT DEF B1Loop
<1> QED
  BY <1>2, Zenon

LEMMA B1CommandIsSetpoint ==
  ASSUME NEW s \in Int, 15000 <= s, s <= 300000
  PROVE  B1Clamp(s, 15000, B1Rated) = s /\ B1Clamp(B1Dispatch(s), 15000, B1Rated) = s
BY SMT DEF B1Clamp, B1Dispatch, B1Rated

LEMMA B1LateStep ==
  ASSUME B1Counts, B1Late, B1Turn
  PROVE  /\ B1LateTypes' /\ b1Command' = b1Setpoint'
         /\ b1Pid'.error = B1Dead(B1Plan(b1Time) - b1Power')
         /\ \E e2 \in Int, y2 \in Int :
              /\ e2 = B1Plan(b1Time) - b1Power' /\ y2 = b1Setpoint' - b1Power'
              /\ -4600 <= e2 /\ e2 <= 4600
              /\ B1Follows(e2, y2) \/ B1Rises(e2, y2, b1Pid'.integral, b1Pid'.d)
<1>1. PICK t \in Int : t = b1Time /\ 1 <= t /\ t <= 1199
  <2>1. b1Time \in Int /\ 1 <= b1Time /\ b1Time < 1200
    BY B1LoopAssigns, SMT DEF B1Counts, B1Late
  <2> QED
    BY <2>1, SMT
<1>2. PICK pl \in Int : pl = B1Plan(b1Time - 1) /\ 137000 <= pl /\ pl <= 189000
  <2>1. t - 1 \in Int /\ 0 <= t - 1 /\ t - 1 <= 1229
    BY <1>1, SMT
  <2>2. B1Plan(t - 1) \in Int /\ 137000 <= B1Plan(t - 1) /\ B1Plan(t - 1) <= 189000
    BY <2>1, B1PlanBounds, SMT
  <2> QED
    BY <1>1, <2>2, SMT
<1>3. PICK q \in Int : q = B1Plan(b1Time) /\ 137000 <= q /\ q <= 189000
  <2>1. 0 <= t /\ t <= 1229
    BY <1>1, SMT
  <2>2. B1Plan(t) \in Int /\ 137000 <= B1Plan(t) /\ B1Plan(t) <= 189000
    BY <2>1, B1PlanBounds, SMT
  <2> QED
    BY <1>1, <2>2, SMT
<1>4. q - pl <= 170 /\ pl - q <= 170
  <2>1. t - 1 \in Int /\ 0 <= t - 1 /\ (t - 1) + 1 <= 1229 /\ 1 \in {1, 30}
        /\ (t - 1) + 1 = t
    BY <1>1, SMT
  <2>2. /\ B1Plan((t - 1) + 1) - B1Plan(t - 1) <= 170 * 1
        /\ B1Plan(t - 1) - B1Plan((t - 1) + 1) <= 170 * 1
    BY <2>1, B1PlanMoves, SMT
  <2>3. q - pl <= 170 * 1 /\ pl - q <= 170 * 1
    BY <1>1, <1>2, <1>3, <2>1, <2>2, SMT
  <2> QED
    BY <2>3, SMT
<1>5. PICK p \in Int, s \in Int, f \in Int, i \in Int, d \in Int :
        /\ p = b1Power /\ s = b1Setpoint /\ f = b1Filtered
        /\ i = b1Pid.integral /\ d = b1Pid.d
  BY SMT DEF B1Late, B1LateTypes
<1>6. /\ -5500 <= f /\ f <= 5500
      /\ -30000 <= i /\ i <= 30000
      /\ -9200 <= d /\ d <= 9200
  BY <1>5, SMT DEF B1Late, B1LateTypes
<1>7. PICK e \in Int, y \in Int : e = pl - p /\ y = s - p
  BY SMT
<1>8. B1Follows(e, y) \/ B1Rises(e, y, i, d)
  BY <1>2, <1>5, <1>7, SMT DEF B1Late, B1Lag, B1Lead
<1>9. PICK delta \in Int : delta = q - pl /\ -170 <= delta /\ delta <= 170
  BY <1>4, SMT
<1>10. /\ -3507 <= y /\ y <= 720 /\ -4600 <= e /\ e <= 4600
       /\ -4600 <= e + delta - B1Move(y) /\ e + delta - B1Move(y) <= 4600
       /\ B1Rises(e, y, i, d) => /\ e + 334 <= e + delta - B1Move(y)
                                 /\ e + delta - B1Move(y) <= e + 695
  BY <1>8, <1>9, B1NextLag, SMT
<1>11. PICK m \in Int : m = B1Move(y) /\ -525 <= m /\ m <= 504
  BY <1>10, B1MoveBounds, SMT
<1>12. 130000 <= p /\ p <= 195000 /\ s = p + y
  BY <1>2, <1>7, <1>10, SMT
<1>13. B1Moved = p + m
  <2>1. b1Power = p /\ b1Command = p + y
    BY <1>5, <1>12, SMT DEF B1Late
  <2> QED
    BY <1>10, <1>11, <1>12, <2>1, B1MovedLemma, SMT
<1>14. PICK e2 \in Int : e2 = q - (p + m) /\ -4600 <= e2 /\ e2 <= 4600
                         /\ (B1Rises(e, y, i, d) => e + 334 <= e2 /\ e2 <= e + 695)
  <2>1. q - (p + m) = e + delta - m
    BY <1>7, <1>9, <1>11, SMT
  <2> QED
    BY <1>10, <1>11, <2>1, SMT
<1>15. B1Plan(b1Time) - B1Moved = e2
  BY <1>3, <1>13, <1>14, SMT
\* The filter and the feed-forward.
<1>16. PICK f2 \in Int : f2 = b1Filtered' /\ -5500 <= f2 /\ f2 <= 5500
  <2>3. PICK noise \in B1Errors :
          b1Filtered' = B1Filter(b1Filtered, B1Plan(b1Time) - B1Predicted(b1Time, noise))
    BY B1LoopDraws, Zenon
  <2>1. PICK x \in Int : x = B1Plan(t) - B1Predicted(t, noise) /\ -5500 <= x /\ x <= 5500
    <3>1. 0 <= t /\ t <= 1199
      BY <1>1, SMT
    <3> QED
      BY <3>1, B1SampleBounds, SMT
  <2>2. b1Filtered' = f + (15 * (x - f)) \div 100
    <3>1. b1Filtered' = B1Filter(f, x)
      BY <1>1, <1>5, <2>1, <2>3, SMT
    <3> QED
      BY <3>1, Zenon DEF B1Filter, B1Late
  <2> QED
    BY <1>6, <2>1, <2>2, B1FilterBounds, SMT
<1>17. PICK ff \in Int : ff = B1Feedforward(f2) /\ -3507 <= ff /\ ff <= 3507
  BY <1>16, B1FeedforwardBounds, SMT
\* The controller.
<1>18. PICK D \in Int, D1 \in Int : D = B1Dead(e2) /\ D1 = B1Dead(e)
                                /\ -9200 <= D - D1 /\ D - D1 <= 9200
                                /\ (0 <= e2 => 0 <= D)
                                /\ (0 <= e /\ e <= e2 => 0 <= D - D1)
  BY <1>10, <1>14, B1DeadBounds, SMT
<1>19. b1Pid.integral = i /\ b1Pid.error = D1 /\ b1Pid.d = d /\ ~ b1First
  <2>1. B1Lag = e
    BY <1>2, <1>5, <1>7, SMT DEF B1Lag
  <2> QED
    BY <1>5, <1>18, <2>1, SMT DEF B1Late
<1>20. b1Pid' = B1PidUpdate(D)
  BY <1>15, <1>18, B1LoopAssigns, SMT
<1>21. /\ b1Pid'.integral \in Int /\ -30000 <= b1Pid'.integral /\ b1Pid'.integral <= 30000
       /\ 0 <= i /\ 0 <= D => 0 <= b1Pid'.integral
       /\ b1Pid'.error = D
       /\ b1Pid'.d = d + (3 * ((D - D1) - d)) \div 10
       /\ b1Pid'.output = B1Feedback(D, b1Pid'.integral, b1Pid'.d)
  BY <1>19, <1>20, B1PidLemma, SMT
<1>22. PICK i2 \in Int : i2 = b1Pid'.integral /\ -30000 <= i2 /\ i2 <= 30000
                         /\ (0 <= i /\ 0 <= D => 0 <= i2)
  BY <1>21, SMT
<1>23. PICK d2 \in Int : d2 = b1Pid'.d /\ -9200 <= d2 /\ d2 <= 9200
                         /\ (0 <= d /\ 0 <= D - D1 => 0 <= d2)
  <2>1. D - D1 \in Int
    BY SMT
  <2>2. /\ d + (3 * ((D - D1) - d)) \div 10 \in Int
        /\ -9200 <= d + (3 * ((D - D1) - d)) \div 10
        /\ d + (3 * ((D - D1) - d)) \div 10 <= 9200
        /\ (0 <= d /\ 0 <= D - D1 => 0 <= d + (3 * ((D - D1) - d)) \div 10)
    BY <1>6, <1>18, <2>1, B1DerivativeBounds, SMT
  <2> QED
    BY <1>21, <2>2, SMT
<1>24. PICK out \in Int : /\ out = b1Pid'.output
                          /\ -20000 <= out /\ out <= 20000
                          /\ (e2 >= 3900 => out >= -96)
                          /\ (e2 <= -3900 => out <= 96)
                          /\ (0 <= e2 /\ 0 <= i2 /\ 0 <= d2 => out >= 0)
  <2>1. b1Pid'.output = B1Feedback(B1Dead(e2), i2, d2)
    BY <1>18, <1>21, <1>22, <1>23, SMT
  <2>2. /\ B1Feedback(B1Dead(e2), i2, d2) \in Int
        /\ -20000 <= B1Feedback(B1Dead(e2), i2, d2)
        /\ B1Feedback(B1Dead(e2), i2, d2) <= 20000
        /\ e2 >= 3900 => B1Feedback(B1Dead(e2), i2, d2) >= -96
        /\ e2 <= -3900 => B1Feedback(B1Dead(e2), i2, d2) <= 96
        /\ 0 <= e2 /\ 0 <= i2 /\ 0 <= d2 => B1Feedback(B1Dead(e2), i2, d2) >= 0
    <3>1. /\ e2 \in Int /\ i2 \in Int /\ d2 \in Int
          /\ -4600 <= e2 /\ e2 <= 4600 /\ -30000 <= i2 /\ i2 <= 30000
          /\ -9200 <= d2 /\ d2 <= 9200
      BY <1>14, <1>22, <1>23, SMT
    <3> QED
      BY <3>1, B1FeedbackBounds, SMT
  <2> QED
    BY <2>1, <2>2, SMT
\* The setpoint.
<1>25. PICK y2 \in Int : y2 = B1Clamp(e2 + ff + out, y - m - 500, y - m + 500)
                         /\ -1500 <= y2 - (y - m) /\ y2 - (y - m) <= 1500
  <2> DEFINE z == B1Clamp(e2 + ff + out, y - m - 500, y - m + 500)
  <2>1. z \in Int /\ -1500 <= z - (y - m) /\ z - (y - m) <= 1500
    BY SMT DEF B1Clamp
  <2> HIDE DEF z
  <2>2. \E y2 \in Int : y2 = z /\ -1500 <= y2 - (y - m) /\ y2 - (y - m) <= 1500
    BY <2>1
  <2> QED
    BY <2>2 DEF z
<1>26. b1Setpoint' = p + m + y2
  <2>1. b1Setpoint' = B1SetpointAfter(q, f2, out)
    BY <1>3, <1>16, <1>24, B1LoopAssigns, SMT
  <2>2. b1Setpoint' = B1Clamp(B1Clamp(q + ff + out, s - 500, s + 500), 15000, B1Rated)
    BY <1>5, <1>17, <1>19, <2>1, SMT DEF B1SetpointAfter
  <2>3. B1Clamp(q + ff + out, s - 500, s + 500) = p + m + y2
    <3>1. q + ff + out = (p + m) + (e2 + ff + out) /\ s - 500 = (p + m) + (y - m - 500)
          /\ s + 500 = (p + m) + (y - m + 500)
      BY <1>12, <1>14, SMT
    <3> QED
      BY <1>25, <3>1, SMT DEF B1Clamp
  <2>4. p + m + y2 \in Int /\ 15000 <= p + m + y2 /\ p + m + y2 <= 300000
    BY <1>10, <1>11, <1>12, <1>25, SMT
  <2> QED
    BY <2>2, <2>3, <2>4, B1CommandIsSetpoint, SMT
<1>27. B1Follows(e2, y2) \/ B1Rises(e2, y2, i2, d2)
  <2>1. B1Rises(e, y, i, d) => /\ e + 334 <= e2 /\ e2 <= e + 695
                               /\ 0 <= i2 /\ 0 <= d2 /\ 0 <= out
    <3>1. SUFFICES ASSUME B1Rises(e, y, i, d)
                   PROVE  e + 334 <= e2 /\ e2 <= e + 695 /\ 0 <= i2 /\ 0 <= d2 /\ 0 <= out
      BY SMT
    <3>2. 0 <= e /\ 0 <= i /\ 0 <= d
      BY <3>1 DEF B1Rises
    <3>3. e + 334 <= e2 /\ e2 <= e + 695
      BY <1>14, <3>1, SMT
    <3>4. 0 <= e2 /\ e <= e2
      BY <3>2, <3>3, SMT
    <3> QED
      BY <1>18, <1>22, <1>23, <1>24, <3>2, <3>3, <3>4, SMT
  <2> QED
    BY <1>8, <1>11, <1>14, <1>17, <1>24, <1>25, <2>1, B1NextLead, SMT
\* Together.
<1>28. b1Power' = p + m
  BY <1>13, B1LoopAssigns, SMT
<1>29. B1LateTypes'
  <2>1. p + m \in Int /\ p + m + y2 \in Int
    BY SMT
  <2> QED
    BY <1>16, <1>21, <1>23, <1>26, <1>28, <2>1, SMT DEF B1LateTypes
<1>30. b1Command' = b1Setpoint'
  <2>1. b1Command' = B1Clamp(B1Dispatch(b1Setpoint'), 15000, B1Rated)
    BY B1LoopAssigns, SMT
  <2>2. p + m + y2 \in Int /\ 15000 <= p + m + y2 /\ p + m + y2 <= 300000
    BY <1>10, <1>11, <1>12, <1>25, SMT
  <2>3. B1Clamp(B1Dispatch(p + m + y2), 15000, B1Rated) = p + m + y2
    BY <2>2, B1CommandIsSetpoint, SMT
  <2> QED
    BY <1>26, <2>1, <2>3, SMT
<1>31. e2 = B1Plan(b1Time) - b1Power'
  BY <1>3, <1>14, <1>28, SMT
<1>32. y2 = b1Setpoint' - b1Power'
  <2>1. (p + m + y2) - (p + m) = y2
    BY SMT
  <2> QED
    BY <1>26, <1>28, <2>1, Zenon
<1>33. b1Pid'.error = B1Dead(B1Plan(b1Time) - b1Power')
  BY <1>18, <1>21, <1>31, SMT
<1>34. B1Follows(e2, y2) \/ B1Rises(e2, y2, b1Pid'.integral, b1Pid'.d)
  BY <1>22, <1>23, <1>27, SMT
<1> QED
  BY <1>14, <1>29, <1>30, <1>31, <1>32, <1>33, <1>34, SMT

(* The first turn: the turbines stand on the plan, the controller has seen no  *)
(* error, and the feed-forward alone moves the setpoint.                       *)
LEMMA B1EarlyStep ==
  ASSUME B1Counts, B1Early, B1Turn
  PROVE  /\ B1LateTypes' /\ b1Command' = b1Setpoint'
         /\ b1Pid'.error = B1Dead(B1Plan(b1Time) - b1Power')
         /\ \E e2 \in Int, y2 \in Int :
              /\ e2 = B1Plan(b1Time) - b1Power' /\ y2 = b1Setpoint' - b1Power'
              /\ -4600 <= e2 /\ e2 <= 4600
              /\ B1Follows(e2, y2) \/ B1Rises(e2, y2, b1Pid'.integral, b1Pid'.d)
<1>1. PICK p \in Int : p = B1Plan(0) /\ 137000 <= p /\ p <= 189000
  <2>1. 0 \in Int /\ 0 <= 0 /\ 0 <= 1229
    BY SMT
  <2> QED
    BY <2>1, B1PlanBounds, SMT
<1>2. b1Power = p /\ b1Command = p /\ b1Time = 0 /\ B1Plan(b1Time) = p /\ b1First
  BY <1>1, SMT DEF B1Early
<1>3. B1Moved = p
  <2>1. B1Move(0) = 0
    BY SMT DEF B1Move, B1Clamp
  <2>2. b1Power = p /\ b1Command = p + 0 /\ 130000 <= p /\ p <= 195000
    BY <1>1, <1>2, SMT
  <2>3. B1Moved = p + B1Move(0)
    BY <2>2, B1MovedLemma, SMT
  <2> QED
    BY <2>1, <2>3, SMT
<1>4. B1Plan(b1Time) - B1Moved = 0 /\ B1Dead(0) = 0
  BY <1>2, <1>3, SMT DEF B1Dead, B1Abs
<1>5. PICK f2 \in Int : f2 = b1Filtered' /\ -5500 <= f2 /\ f2 <= 0
  <2>3. PICK noise \in B1Errors :
          b1Filtered' = B1Filter(b1Filtered, B1Plan(b1Time) - B1Predicted(b1Time, noise))
    BY B1LoopDraws, Zenon
  <2>1. PICK x \in Int : x = B1Plan(0) - B1Predicted(0, noise) /\ -5500 <= x /\ x <= 0
    <3>1. 0 \in Int /\ 0 <= 0 /\ 0 <= 1199
      BY SMT
    <3> QED
      BY <3>1, B1SampleBounds, SMT
  <2>2. b1Filtered' = x
    BY <1>2, <2>1, <2>3, SMT DEF B1Filter
  <2> QED
    BY <2>1, <2>2, SMT
<1>6. PICK ff \in Int : ff = B1Feedforward(f2) /\ -3507 <= ff /\ ff <= 0
  <2>1. -5500 <= f2 /\ f2 <= 5500 /\ f2 <= 0
    BY <1>5, SMT
  <2> QED
    BY <2>1, B1FeedforwardBounds, SMT
<1>7. b1Pid' = B1PidUpdate(0)
  BY <1>4, B1LoopAssigns, SMT
<1>8. b1Pid'.integral = 0 /\ b1Pid'.error = 0 /\ b1Pid'.d = 0 /\ b1Pid'.output = 0
  <2>1. b1Pid.integral = 0 /\ b1Pid.error = 0 /\ b1Pid.d = 0 /\ 0 \in Int
    BY SMT DEF B1Early
  <2>2. LET u == B1PidUpdate(0) IN
        /\ 0 = 0 /\ 0 = 0 => u.integral = 0
        /\ u.error = 0
        /\ b1First => u.d = 0 - 0
        /\ u.output = B1Feedback(0, u.integral, u.d)
    BY <2>1, B1PidLemma, SMT
  <2>3. b1Pid'.integral = 0 /\ b1Pid'.error = 0 /\ b1Pid'.d = 0
        /\ b1Pid'.output = B1Feedback(0, 0, 0)
    BY <1>2, <1>7, <2>2, SMT
  <2>4. B1Feedback(0, 0, 0) = 0
    BY SMT DEF B1Feedback, B1Clamp, B1Rated
  <2> QED
    BY <2>3, <2>4, SMT
<1>9. b1Setpoint' = p + ff
  <2>1. b1Setpoint' = B1SetpointAfter(p, f2, 0)
    BY <1>2, <1>5, <1>8, B1LoopAssigns, SMT
  <2>2. b1Setpoint' = B1Clamp(p + ff + 0, 15000, B1Rated)
    BY <1>2, <1>6, <2>1, SMT DEF B1SetpointAfter
  <2>3. p + ff + 0 \in Int /\ 15000 <= p + ff + 0 /\ p + ff + 0 <= 300000 /\ p + ff + 0 = p + ff
    BY <1>1, <1>6, SMT
  <2> QED
    BY <2>2, <2>3, B1CommandIsSetpoint, SMT
<1>10. b1Power' = p
  BY <1>3, B1LoopAssigns, SMT
<1>11. B1LateTypes'
  <2>1. p + ff \in Int
    BY SMT
  <2> QED
    BY <1>5, <1>8, <1>9, <1>10, <2>1, SMT DEF B1LateTypes
<1>12. b1Command' = b1Setpoint'
  <2>1. p + ff \in Int /\ 15000 <= p + ff /\ p + ff <= 300000
    BY <1>1, <1>6, SMT
  <2>2. B1Clamp(B1Dispatch(p + ff), 15000, B1Rated) = p + ff
    BY <2>1, B1CommandIsSetpoint, SMT
  <2> QED
    BY <1>9, <2>2, B1LoopAssigns, SMT
<1>13. 0 = B1Plan(b1Time) - b1Power' /\ ff = b1Setpoint' - b1Power'
  <2>1. p - p = 0 /\ (p + ff) - p = ff
    BY SMT
  <2> QED
    BY <1>2, <1>9, <1>10, <2>1, SMT
<1>14. B1Follows(0, ff) \/ B1Rises(0, ff, 0, 0)
  BY <1>6, SMT DEF B1Follows, B1Rises
<1>15. b1Pid'.error = B1Dead(B1Plan(b1Time) - b1Power')
  BY <1>4, <1>8, <1>13, SMT
<1>16. /\ 0 \in Int /\ ff \in Int
       /\ -4600 <= 0 /\ 0 <= 4600
       /\ B1Follows(0, ff) \/ B1Rises(0, ff, b1Pid'.integral, b1Pid'.d)
  BY <1>8, <1>14, SMT
<1> QED
  BY <1>11, <1>12, <1>13, <1>15, <1>16, SMT

LEMMA B1LoopKeeps ==
  ASSUME B1Inv, B1Turn
  PROVE  B1Inv'
<1>1. B1Counts /\ (B1Early \/ B1Late)
  BY Zenon DEF B1Inv
<1>2. /\ B1LateTypes' /\ b1Command' = b1Setpoint'
      /\ b1Pid'.error = B1Dead(B1Plan(b1Time) - b1Power')
      /\ \E e2 \in Int, y2 \in Int :
           /\ e2 = B1Plan(b1Time) - b1Power' /\ y2 = b1Setpoint' - b1Power'
           /\ -4600 <= e2 /\ e2 <= 4600
           /\ B1Follows(e2, y2) \/ B1Rises(e2, y2, b1Pid'.integral, b1Pid'.d)
  BY <1>1, B1EarlyStep, B1LateStep, SMT
<1>3. PICK e2 \in Int, y2 \in Int :
           /\ e2 = B1Plan(b1Time) - b1Power' /\ y2 = b1Setpoint' - b1Power'
           /\ -4600 <= e2 /\ e2 <= 4600
           /\ B1Follows(e2, y2) \/ B1Rises(e2, y2, b1Pid'.integral, b1Pid'.d)
  BY <1>2, Zenon
<1>4. PICK t \in Int : t = b1Time /\ 0 <= t /\ t < 1200 /\ b1Time' = t + 1
  BY <1>1, B1LoopAssigns, SMT DEF B1Counts
<1>5. B1Lag' = e2 /\ B1Lead' = y2
  <2>1. b1Time' - 1 = t
    BY <1>4, SMT
  <2> QED
    BY <1>3, <1>4, <2>1, SMT DEF B1Lag, B1Lead
<1>6. B1Late'
  <2>1. 1 <= b1Time'
    BY <1>4, SMT
  <2>2. ~ b1First'
    BY B1LoopAssigns, SMT
  <2> QED
    BY <1>2, <1>3, <1>5, <2>1, <2>2, SMT DEF B1Late
<1>7. B1Counts'
  <2>1. PICK n \in Int : n = b1Stats.cycles /\ n = b1Stats.qualified
    BY <1>1, SMT DEF B1Counts
  <2>2. b1Stats' = B1StatsAfter(e2)
    <3>1. b1Power' = B1Moved /\ b1Stats' = B1StatsAfter(B1Plan(b1Time) - B1Moved)
      BY B1LoopAssigns, SMT
    <3> QED
      BY <1>3, <3>1, SMT
  <2>3. B1Abs(e2) < 6000
    BY <1>3, SMT DEF B1Abs
  <2>4. b1Stats'.cycles = n + 1 /\ b1Stats'.qualified = n + 1
    <3>1. b1Stats'.cycles = b1Stats.cycles + 1
      BY <2>2, SMT DEF B1StatsAfter
    <3>2. b1Stats'.qualified = b1Stats.qualified + 1
      BY <2>2, <2>3, SMT DEF B1StatsAfter
    <3>3. b1Stats'.cycles = n + 1
      BY <2>1, <3>1, Zenon
    <3>4. b1Stats'.qualified = n + 1
      BY <2>1, <3>2, Zenon
    <3> QED
      BY <3>3, <3>4, Zenon
  <2>5. b1Time' \in Int /\ 0 <= b1Time' /\ b1Time' <= 1200
    BY <1>4, SMT
  <2>6. b1Noise' \in Int /\ -400 <= b1Noise' /\ b1Noise' <= 392
    <3>1. PICK noise \in B1Errors : b1Noise' = noise
      BY B1LoopDraws, Zenon
    <3>2. noise \in Int /\ -400 <= noise /\ noise <= 392
      BY Zenon DEF B1Errors
    <3> QED
      BY <3>1, <3>2, Zenon
  <2> QED
    BY <2>4, <2>5, <2>6, SMT DEF B1Counts
<1> QED
  BY <1>6, <1>7, Zenon DEF B1Inv

LEMMA B1InitInv ==
  ASSUME B1Init
  PROVE  B1Inv
<1>1. /\ b1Time = 0 /\ b1Noise = 0 /\ b1First
      /\ b1Command = B1Plan(0) /\ b1Power = B1Plan(0) /\ b1Setpoint = 0
      /\ b1Pid = [integral |-> 0, error |-> 0, d |-> 0, output |-> 0, sign |-> 1,
                  saturated |-> FALSE]
      /\ b1Stats = [cycles |-> 0, qualified |-> 0, worst |-> 0]
  BY Zenon DEF B1Init, B1Initial
<1>2. B1Counts
  BY <1>1, SMT DEF B1Counts
<1>3. B1Early
  BY <1>1, SMT DEF B1Early
<1> QED
  BY <1>2, <1>3, Zenon DEF B1Inv

LEMMA B1StepInv ==
  ASSUME B1Inv, [B1Next]_b1Vars
  PROVE  B1Inv'
<1>1. ASSUME NEW noise \in B1Draws, B1Loop(noise)
      PROVE  B1Inv'
  <2>1. noise \in B1Noises \/ noise = b1Noise
    BY Zenon DEF B1Draws
  <2>2. noise \in B1Errors
    <3>1. b1Noise \in Int /\ -400 <= b1Noise /\ b1Noise <= 392
      BY Zenon DEF B1Inv, B1Counts
    <3>2. noise \in B1Noises => noise \in -400..392
      BY B1NoisesAssumption, Zenon
    <3> QED
      BY <2>1, <3>1, <3>2, SMT DEF B1Errors
  <2> QED
    BY <1>1, <2>2, B1LoopKeeps DEF B1Turn
<1>2. ASSUME UNCHANGED <<b1Noise, b1Time, b1Command, b1Power, b1Setpoint, b1First, b1Pid,
                         b1Filtered, b1Stats>>
      PROVE  B1Inv'
  <2>1. B1Lag' = B1Lag /\ B1Lead' = B1Lead
    BY <1>2, Zenon DEF B1Lag, B1Lead
  <2>2. B1Counts => B1Counts'
    BY <1>2, SMT DEF B1Counts
  <2>3. B1Early => B1Early'
    BY <1>2, SMT DEF B1Early
  <2>4. B1Late => B1Late'
    <3>1. B1LateTypes => B1LateTypes'
      BY <1>2, SMT DEF B1LateTypes
    <3> QED
      BY <1>2, <2>1, <3>1, SMT DEF B1Late
  <2> QED
    BY <2>2, <2>3, <2>4, Zenon DEF B1Inv
<1>3. CASE B1End
  BY <1>2, <1>3, Zenon DEF B1End
<1>4. CASE UNCHANGED b1Vars
  BY <1>2, <1>4, Zenon DEF b1Vars
<1> QED
  BY <1>1, <1>3, <1>4, Zenon DEF B1Next

LEMMA B1InvTypes ==
  ASSUME B1Inv
  PROVE  B1TypeOK
<1>1. PICK t \in Int : t = b1Time /\ 0 <= t /\ t <= 1200
  BY SMT DEF B1Inv, B1Counts
<1>2. CASE B1Early
  <2>1. PICK p \in Int : p = B1Plan(0) /\ 137000 <= p /\ p <= 189000
    <3>1. 0 \in Int /\ 0 <= 0 /\ 0 <= 1229
      BY SMT
    <3> QED
      BY <3>1, B1PlanBounds, SMT
  <2>2. b1Power = p /\ b1Command = p /\ b1Setpoint = 0 /\ b1Pid.integral = 0
    BY <1>2, <2>1, SMT DEF B1Early
  <2> QED
    <3>1. /\ p \in Int /\ 0 <= p /\ p <= B1Rated /\ 15000 <= p
          /\ B1Rated \in Int /\ 0 <= B1Rated
      BY <2>1, SMT DEF B1Rated
    <3> QED
      BY <1>1, <2>2, <3>1, SMT DEF B1TypeOK
<1>3. CASE B1Late
  <2>1. PICK p \in Int, s \in Int : p = b1Power /\ s = b1Setpoint /\ b1Command = s
    BY <1>3, SMT DEF B1Late, B1LateTypes
  <2>2. PICK q \in Int : q = B1Plan(b1Time - 1) /\ 137000 <= q /\ q <= 189000
    <3>1. t - 1 \in Int /\ 0 <= t - 1 /\ t - 1 <= 1229
      BY <1>1, <1>3, SMT DEF B1Late
    <3>2. B1Plan(t - 1) \in Int /\ 137000 <= B1Plan(t - 1) /\ B1Plan(t - 1) <= 189000
      BY <3>1, B1PlanBounds, SMT
    <3> QED
      BY <1>1, <3>2, SMT
  <2>3. PICK e \in Int, y \in Int : e = q - p /\ y = s - p
    BY SMT
  <2>4. B1Follows(e, y) \/ B1Rises(e, y, b1Pid.integral, b1Pid.d)
    BY <1>3, <2>1, <2>2, <2>3, SMT DEF B1Late, B1Lag, B1Lead
  <2>5. -3507 <= y /\ y <= 720 /\ -4600 <= e /\ e <= 4600
    BY <2>4, SMT DEF B1Follows, B1Rises
  <2>6. 0 <= p /\ p <= 300000 /\ 15000 <= s /\ s <= 300000
    BY <2>2, <2>3, <2>5, SMT
  <2>7. b1Pid.integral \in Int /\ -30000 <= b1Pid.integral /\ b1Pid.integral <= 30000
    BY <1>3, SMT DEF B1Late, B1LateTypes
  <2> QED
    <3>1. /\ p \in Int /\ 0 <= p /\ p <= B1Rated
          /\ s \in Int /\ 0 <= s /\ s <= B1Rated /\ 15000 <= s /\ B1Rated \in Int
      BY <2>6, SMT DEF B1Rated
    <3> QED
      BY <1>1, <2>1, <2>7, <3>1, SMT DEF B1TypeOK
<1> QED
  BY <1>2, <1>3, Zenon DEF B1Inv

(* In every cycle lag and lead bound each other (AGCController::runControlCycle *)
(* and Turbine::runSimulation).                                                *)
THEOREM BaselineInvariant == B1Spec => []B1Inv
<1>1. B1Init => B1Inv
  BY B1InitInv
<1>2. B1Inv /\ [B1Next]_b1Vars => B1Inv'
  BY B1StepInv
<1> QED
  BY <1>1, <1>2, PTL DEF B1Spec

(* The ranges of power, command, setpoint and integral.                        *)
THEOREM BaselineTypeCorrect == B1Spec => []B1TypeOK
<1>1. B1Inv => B1TypeOK
  BY B1InvTypes
<1> QED
  BY <1>1, BaselineInvariant, PTL

(* Every cycle of the twenty minutes is within 2 % of the rated power, for     *)
(* every sequence of the errors rand() draws (AGCController::updateStats).     *)
THEOREM BaselineAlwaysQualified == B1Spec => []B1AlwaysQualified
<1>1. B1Inv => B1AlwaysQualified
  BY SMT DEF B1Inv, B1Counts, B1AlwaysQualified
<1> QED
  BY <1>1, BaselineInvariant, PTL

-----------------------------------------------------------------------------
(*                           The curtailment farm                            *)

LEMMA CfCount == CfN \in Nat \ {0} /\ CfN = 10 /\ CfDt = 1
BY DEF CfN, CfDt

LEMMA CfArrayLemma ==
  ASSUME NEW f
  PROVE  CfArray(f) = [i \in CfTurbines |-> f[i]]
<1> DEFINE S == {f[i] : i \in 1..CfN}
           g == SubSeq(f, 1, CfN)
<1>1. CfN \in Nat /\ CfN \in Int /\ 1 \in Int /\ 1 <= CfN /\ CfN - 1 + 1 = CfN
  BY CfCount, SMT
<1>2. \A i \in 1..CfN : f[i] \in S
  OBVIOUS
<1> HIDE DEF S
<1>3. /\ g \in Seq(S)
      /\ Len(g) = CfN - 1 + 1
      /\ \A i \in 1..(CfN - 1 + 1) : g[i] = f[1 + i - 1]
  BY <1>1, <1>2, SubSeqProperties
<1>4. /\ Len(g) = CfN /\ \A i \in 1..CfN : g[i] = f[i]
  BY <1>1, <1>3
<1> HIDE DEF g
<1>5. g = [i \in 1..CfN |-> g[i]]
  BY <1>3, <1>4
<1>6. g = [i \in 1..CfN |-> f[i]]
  BY <1>4, <1>5
<1> QED
  BY <1>6 DEF g, CfArray, CfTurbines

(* The partial sums and the timers of the turbines are recursive functions;    *)
(* they are what their definitions say.                                        *)
LEMMA CfPartialSums ==
  ASSUME NEW f
  PROVE  \E s : /\ s = [n \in 0..CfN |-> IF n = 0 THEN 0 ELSE s[n - 1] + f[n]]
                /\ CfSum(f) = s[CfN]
<1> DEFINE Is(g, k) == g = [n \in 0..k |-> IF n = 0 THEN 0 ELSE g[n - 1] + f[n]]
           T == {k \in Nat : ~ \E g : Is(g, k)}
<1>1. T = {}
  <2> SUFFICES ASSUME T # {} PROVE FALSE
    OBVIOUS
  <2>1. PICK k \in T : \A m \in T : k <= m
    <3> HIDE DEF T
    <3>1. T \subseteq Nat
      BY DEF T
    <3> QED
      BY <3>1, LeastNumber
  <2>2. CASE k = 0
    <3>1. Is([n \in 0..0 |-> 0], 0)
      OBVIOUS
    <3> QED
      BY <3>1, <2>2
  <2>3. CASE k # 0
    <3>1. k - 1 \in Nat /\ k - 1 \notin T
      BY <2>1, <2>3
    <3>2. PICK g : Is(g, k - 1)
      BY <3>1
    <3> DEFINE h == [n \in 0..k |-> IF n = k THEN g[k - 1] + f[k] ELSE g[n]]
    <3>3. \A n \in 0..k : h[n] = IF n = 0 THEN 0 ELSE h[n - 1] + f[n]
      <4> SUFFICES ASSUME NEW n \in 0..k
                   PROVE  h[n] = IF n = 0 THEN 0 ELSE h[n - 1] + f[n]
        OBVIOUS
      <4>1. CASE n = k
        BY <4>1, <2>3
      <4>2. CASE n # k
        <5>1. n \in 0..(k - 1)
          BY <4>2
        <5>2. g[n] = IF n = 0 THEN 0 ELSE g[n - 1] + f[n]
          BY <5>1, <3>2
        <5> QED
          BY <5>1, <5>2, <4>2
      <4> QED
        BY <4>1, <4>2
    <3>4. Is(h, k)
      BY <3>3
    <3> QED
      BY <3>4
  <2> QED
    BY <2>2, <2>3
<1>2. CfN \in Nat
  BY CfCount
<1>3. \E g : Is(g, CfN)
  BY <1>1, <1>2
<1> DEFINE s == CHOOSE g : Is(g, CfN)
<1>4. Is(s, CfN)
  <2> HIDE DEF Is
  <2> QED
    BY <1>3
<1>5. CfSum(f) = s[CfN]
  BY DEF CfSum
<1> QED
  BY <1>4, <1>5

(* A sum of integers is one, and when none is negative the sum is at least     *)
(* every one of them.                                                          *)
LEMMA CfSumInt ==
  ASSUME NEW f, \A i \in CfTurbines : f[i] \in Int
  PROVE  /\ CfSum(f) \in Int
         /\ (\A i \in CfTurbines : 0 <= f[i]) =>
              0 <= CfSum(f) /\ \A i \in CfTurbines : f[i] <= CfSum(f)
<1>1. PICK s : /\ s = [n \in 0..CfN |-> IF n = 0 THEN 0 ELSE s[n - 1] + f[n]]
               /\ CfSum(f) = s[CfN]
  BY CfPartialSums
<1>2. CfN \in Nat /\ CfN \in 0..CfN
  BY CfCount
<1>3. s[0] = 0 /\ \A n \in 1..CfN : s[n] = s[n - 1] + f[n] /\ f[n] \in Int
  <2>1. \A n \in 0..CfN : s[n] = IF n = 0 THEN 0 ELSE s[n - 1] + f[n]
    BY <1>1, Zenon
  <2>2. \A n \in 1..CfN : n \in 0..CfN /\ n # 0 /\ f[n] \in Int
    BY <1>2 DEF CfTurbines
  <2>3. 0 \in 0..CfN
    BY <1>2
  <2> QED
    BY <2>1, <2>2, <2>3, Zenon
<1> DEFINE Good(n) == s[n] \in Int
           T == {n \in 0..CfN : ~ Good(n)}
<1>4. T = {}
  <2> SUFFICES ASSUME T # {} PROVE FALSE
    OBVIOUS
  <2>1. T \subseteq Nat
    BY <1>2
  <2>2. PICK k \in T : \A m \in T : k <= m
    <3> HIDE DEF T
    <3> QED
      BY <2>1, LeastNumber
  <2>3. k # 0
    BY <1>3
  <2>4. k \in 1..CfN /\ k - 1 \in 0..CfN /\ k - 1 \notin T
    BY <1>2, <2>2, <2>3
  <2>5. s[k - 1] \in Int
    BY <2>4
  <2> QED
    BY <1>3, <2>4, <2>5
<1>5. \A n \in 0..CfN : s[n] \in Int
  BY <1>4
<1>6. ASSUME \A i \in CfTurbines : 0 <= f[i]
      PROVE  \A n \in 0..CfN : 0 <= s[n] /\ \A i \in 1..n : f[i] <= s[n]
  <2> DEFINE Big(n) == 0 <= s[n] /\ \A i \in 1..n : f[i] <= s[n]
             U == {n \in 0..CfN : ~ Big(n)}
  <2>1. U = {}
    <3> SUFFICES ASSUME U # {} PROVE FALSE
      OBVIOUS
    <3>1. U \subseteq Nat
      BY <1>2
    <3>2. PICK k \in U : \A m \in U : k <= m
      <4> HIDE DEF U
      <4> QED
        BY <3>1, LeastNumber
    <3>3. k # 0
      BY <1>3
    <3>4. k \in 1..CfN /\ k - 1 \in 0..CfN /\ k - 1 \notin U
      BY <1>2, <3>2, <3>3
    <3>5. Big(k - 1)
      BY <3>4
    <3>6. s[k] = s[k - 1] + f[k] /\ 0 <= f[k] /\ f[k] \in Int /\ s[k - 1] \in Int
      BY <1>3, <1>5, <1>6, <3>4 DEF CfTurbines
    <3>7. \A i \in 1..k : f[i] <= s[k]
      <4> SUFFICES ASSUME NEW i \in 1..k PROVE f[i] <= s[k]
        OBVIOUS
      <4>1. f[i] \in Int
        BY <1>2, <3>4 DEF CfTurbines
      <4>2. CASE i = k
        BY <3>5, <3>6, <4>2
      <4>3. CASE i # k
        <5>1. i \in 1..(k - 1)
          BY <3>4, <4>3
        <5>2. f[i] <= s[k - 1]
          BY <3>5, <5>1
        <5> QED
          BY <3>6, <4>1, <5>2
      <4> QED
        BY <4>2, <4>3
    <3>8. Big(k)
      BY <3>5, <3>6, <3>7
    <3> QED
      BY <3>2, <3>8
  <2> QED
    BY <2>1
<1> QED
  BY <1>1, <1>2, <1>5, <1>6 DEF CfTurbines

LEMMA CfTimersDefined ==
  ASSUME NEW t
  PROVE  /\ TimersIn(t)[1] = cfTimer
         /\ \A i \in 1..CfN :
              TimersIn(t)[i + 1]
                = TimerAfter(t[i].state, ComputeS(t[i]), TimersIn(t)[i])
<1> DEFINE Step(i, v) == TimerAfter(t[i - 1].state, ComputeS(t[i - 1]), v)
           Is(g, k) == g = [i \in 1..(k + 1) |-> IF i = 1 THEN cfTimer ELSE Step(i, g[i - 1])]
           T == {k \in Nat : ~ \E g : Is(g, k)}
<1> HIDE DEF Step
<1>1. T = {}
  <2> SUFFICES ASSUME T # {} PROVE FALSE
    OBVIOUS
  <2>1. PICK k \in T : \A m \in T : k <= m
    <3> HIDE DEF T
    <3>1. T \subseteq Nat
      BY DEF T
    <3> QED
      BY <3>1, LeastNumber
  <2>2. CASE k = 0
    <3>1. Is([n \in 1..(0 + 1) |-> cfTimer], 0)
      <4>1. \A n \in 1..(0 + 1) : n = 1
        BY SMT
      <4> QED
        BY <4>1, Zenon
    <3> QED
      BY <3>1, <2>2
  <2>3. CASE k # 0
    <3>1. k - 1 \in Nat /\ k - 1 \notin T /\ (k - 1) + 1 = k /\ k \in Nat
      BY <2>1, <2>3
    <3>2. PICK g : g = [i \in 1..k |-> IF i = 1 THEN cfTimer ELSE Step(i, g[i - 1])]
      BY <3>1
    <3> DEFINE h == [n \in 1..(k + 1) |-> IF n = k + 1 THEN Step(n, g[k]) ELSE g[n]]
    <3>3. \A n \in 1..(k + 1) : h[n] = IF n = 1 THEN cfTimer ELSE Step(n, h[n - 1])
      <4> SUFFICES ASSUME NEW n \in 1..(k + 1)
                   PROVE  h[n] = IF n = 1 THEN cfTimer ELSE Step(n, h[n - 1])
        OBVIOUS
      <4>1. CASE n = k + 1
        <5>1. n - 1 = k /\ n - 1 \in 1..(k + 1) /\ n - 1 # k + 1 /\ n # 1
          BY <3>1, <2>3, <4>1
        <5> QED
          BY <4>1, <5>1, Zenon
      <4>2. CASE n # k + 1
        <5>1. n \in 1..k /\ (n # 1 => n - 1 \in 1..(k + 1) /\ n - 1 # k + 1)
          BY <3>1, <4>2
        <5>2. g[n] = IF n = 1 THEN cfTimer ELSE Step(n, g[n - 1])
          BY <5>1, <3>2, Zenon
        <5> QED
          BY <5>1, <5>2, <4>2, Zenon
      <4> QED
        BY <4>1, <4>2
    <3>4. Is(h, k)
      BY <3>3, Zenon
    <3> QED
      BY <3>4
  <2> QED
    BY <2>2, <2>3
<1>2. CfN \in Nat
  BY CfCount
<1>3. \E g : Is(g, CfN)
  BY <1>1, <1>2
<1> DEFINE s == CHOOSE g : Is(g, CfN)
<1>4. Is(s, CfN)
  <2> HIDE DEF Is
  <2> QED
    BY <1>3
<1>5. TimersIn(t) = s
  BY DEF TimersIn, Step
<1> HIDE DEF s
<1>6. 1 \in 1..(CfN + 1) /\ \A i \in 1..CfN : /\ i + 1 \in 1..(CfN + 1) /\ i + 1 # 1
                                             /\ (i + 1) - 1 = i
  BY <1>2, SMT
<1>7. /\ s[1] = cfTimer
      /\ \A i \in 1..CfN : s[i + 1] = Step(i + 1, s[(i + 1) - 1])
  BY <1>4, <1>6, Zenon
<1>8. \A i \in 1..CfN : s[i + 1] = TimerAfter(t[i].state, ComputeS(t[i]), s[i])
  <2> SUFFICES ASSUME NEW i \in 1..CfN
               PROVE  s[i + 1] = TimerAfter(t[i].state, ComputeS(t[i]), s[i])
    OBVIOUS
  <2>1. (i + 1) - 1 = i /\ s[i + 1] = Step(i + 1, s[(i + 1) - 1])
    BY <1>6, <1>7
  <2> QED
    BY <2>1, Zenon DEF Step
<1> QED
  BY <1>5, <1>7, <1>8

(* A timer stays within a minute.                                              *)
LEMMA CfTimerAfter ==
  ASSUME NEW state, NEW S, NEW timer \in Int, 0 <= timer, timer <= 59
  PROVE  /\ TimerAfter(state, S, timer) \in Int
         /\ 0 <= TimerAfter(state, S, timer) /\ TimerAfter(state, S, timer) <= 59
BY CfCount, SMT DEF TimerAfter

LEMMA CfTimersBounds ==
  ASSUME NEW t, cfTimer \in Int, 0 <= cfTimer, cfTimer <= 59
  PROVE  \A k \in 1..(CfN + 1) : /\ TimersIn(t)[k] \in Int
                                 /\ 0 <= TimersIn(t)[k] /\ TimersIn(t)[k] <= 59
<1> DEFINE s == TimersIn(t)
<1>1. /\ s[1] = cfTimer
      /\ \A i \in 1..CfN : s[i + 1] = TimerAfter(t[i].state, ComputeS(t[i]), s[i])
  BY CfTimersDefined
<1>2. CfN \in Nat
  BY CfCount
<1> HIDE DEF s
<1> DEFINE T == {k \in 1..(CfN + 1) : ~ (s[k] \in Int /\ 0 <= s[k] /\ s[k] <= 59)}
<1>3. T = {}
  <2> SUFFICES ASSUME T # {} PROVE FALSE
    OBVIOUS
  <2>1. PICK k \in T : \A m \in T : k <= m
    <3>1. T \subseteq Nat
      BY <1>2
    <3> HIDE DEF T
    <3> QED
      BY <3>1, LeastNumber
  <2>2. k # 1
    BY <1>1
  <2>3. k - 1 \in 1..CfN /\ k - 1 \in 1..(CfN + 1) /\ k - 1 \notin T /\ (k - 1) + 1 = k
    BY <1>2, <2>1, <2>2
  <2>4. s[k - 1] \in Int /\ 0 <= s[k - 1] /\ s[k - 1] <= 59
    BY <2>3
  <2>5. s[k] = TimerAfter(t[k - 1].state, ComputeS(t[k - 1]), s[k - 1])
    BY <1>1, <2>3
  <2>6. s[k] \in Int /\ 0 <= s[k] /\ s[k] <= 59
    BY <2>4, <2>5, CfTimerAfter
  <2> QED
    BY <2>6
<1> QED
  BY <1>3 DEF s

-----------------------------------------------------------------------------
CfStates == Driven \cup {"standby"}
CfRoles == {"base", "regulating", "standby"}
CfHeats == [gear : Int, pitch : Int]
CfKw == 0..CfPeak
CfRecords == [state : CfStates, role : CfRoles, sp : CfKw, raw : CfKw,
              avail : CfKw, min : 0..200, actual : CfKw, heat : CfHeats]
CfTurbine(u) == u \in CfRecords /\ u.min <= u.avail
CfFarm(t) == \A i \in CfTurbines : CfTurbine(t[i])
CfPowers(p) == \A i \in CfTurbines : p[i] \in Int /\ 0 <= p[i] /\ p[i] <= CfPeak

LEMMA CfFarmArray ==
  ASSUME NEW f, \A i \in CfTurbines : CfTurbine(f[i])
  PROVE  CfFarm(CfArray(f)) /\ \A i \in CfTurbines : CfArray(f)[i] = f[i]
<1>1. \A i \in CfTurbines : CfArray(f)[i] = f[i]
  BY CfArrayLemma, Zenon
<1> QED
  BY <1>1, Zenon DEF CfFarm

LEMMA CfPeakIs == CfPeak \in Int /\ CfPeak = 2240
BY SMT DEF CfPeak

LEMMA CfKwRange == \A p : p \in CfKw <=> p \in Int /\ 0 <= p /\ p <= CfPeak
<1>1. CfPeak \in Int
  BY CfPeakIs
<1> QED
  BY <1>1 DEF CfKw

LEMMA CfFields ==
  ASSUME NEW u, CfTurbine(u)
  PROVE  /\ u.state \in CfStates /\ u.role \in CfRoles
         /\ u.sp \in Int /\ 0 <= u.sp /\ u.sp <= CfPeak
         /\ u.raw \in Int /\ 0 <= u.raw /\ u.raw <= CfPeak
         /\ u.avail \in Int /\ 0 <= u.avail /\ u.avail <= CfPeak
         /\ u.min \in Int /\ 0 <= u.min /\ u.min <= 200 /\ u.min <= u.avail
         /\ u.actual \in Int /\ 0 <= u.actual /\ u.actual <= CfPeak
         /\ u.heat \in CfHeats
<1>1. /\ u.state \in CfStates /\ u.role \in CfRoles /\ u.sp \in CfKw /\ u.raw \in CfKw
      /\ u.avail \in CfKw /\ u.min \in 0..200 /\ u.actual \in CfKw /\ u.heat \in CfHeats
      /\ u.min <= u.avail
  BY SMT DEF CfTurbine, CfRecords
<1>2. u.min \in Int /\ 0 <= u.min /\ u.min <= 200
  BY <1>1, SMT
<1> QED
  BY <1>1, <1>2, CfKwRange, Zenon

LEMMA CfExceptState ==
  ASSUME NEW u, CfTurbine(u), NEW x \in CfStates
  PROVE  /\ CfTurbine([u EXCEPT !.state = x])
         /\ [u EXCEPT !.state = x].state = x
         /\ [u EXCEPT !.state = x].avail = u.avail
BY SMT DEF CfTurbine, CfRecords

LEMMA CfExceptRole ==
  ASSUME NEW u, CfTurbine(u), NEW r \in CfRoles
  PROVE  /\ CfTurbine([u EXCEPT !.role = r])
         /\ [u EXCEPT !.role = r].state = u.state
BY SMT DEF CfTurbine, CfRecords

LEMMA CfExceptSetpoint ==
  ASSUME NEW u, CfTurbine(u), NEW p \in Int, 0 <= p, p <= CfPeak
  PROVE  /\ CfTurbine([u EXCEPT !.sp = p])
         /\ [u EXCEPT !.sp = p].state = u.state
<1>1. p \in CfKw
  BY CfKwRange
<1> QED
  BY <1>1, SMT DEF CfTurbine, CfRecords

LEMMA CfExceptRaw ==
  ASSUME NEW u, CfTurbine(u), NEW p \in Int, 0 <= p, p <= CfPeak
  PROVE  /\ CfTurbine([u EXCEPT !.raw = p])
         /\ [u EXCEPT !.raw = p].state = u.state
<1>1. p \in CfKw
  BY CfKwRange
<1> QED
  BY <1>1, SMT DEF CfTurbine, CfRecords

LEMMA CfExceptMoved ==
  ASSUME NEW u, CfTurbine(u), NEW x \in CfStates, NEW r \in CfRoles,
         NEW p \in Int, 0 <= p, p <= CfPeak
  PROVE  /\ CfTurbine([u EXCEPT !.state = x, !.role = r, !.sp = p])
         /\ [u EXCEPT !.state = x, !.role = r, !.sp = p].state = x
<1> DEFINE v == [u EXCEPT !.state = x]
           w == [v EXCEPT !.role = r]
<1>1. [u EXCEPT !.state = x, !.role = r, !.sp = p] = [w EXCEPT !.sp = p]
  OBVIOUS
<1>2. CfTurbine(v) /\ v.state = x
  BY CfExceptState
<1> HIDE DEF v
<1>3. CfTurbine(w) /\ w.state = x
  BY <1>2, CfExceptRole
<1> HIDE DEF w
<1>4. CfTurbine([w EXCEPT !.sp = p]) /\ [w EXCEPT !.sp = p].state = x
  BY <1>3, CfExceptSetpoint
<1> QED
  BY <1>1, <1>4

LEMMA CfExceptGiven ==
  ASSUME NEW u, CfTurbine(u), NEW p \in Int, 0 <= p, p <= CfPeak
  PROVE  /\ CfTurbine([u EXCEPT !.raw = p, !.sp = p])
         /\ [u EXCEPT !.raw = p, !.sp = p].state = u.state
<1> DEFINE v == [u EXCEPT !.raw = p]
<1>1. [u EXCEPT !.raw = p, !.sp = p] = [v EXCEPT !.sp = p]
  OBVIOUS
<1>2. CfTurbine(v) /\ v.state = u.state
  BY CfExceptRaw
<1> HIDE DEF v
<1>3. CfTurbine([v EXCEPT !.sp = p]) /\ [v EXCEPT !.sp = p].state = u.state
  BY <1>2, CfExceptSetpoint
<1> QED
  BY <1>1, <1>3

LEMMA CfExceptLoad ==
  ASSUME NEW u, CfTurbine(u), NEW p \in Int, 0 <= p, p <= CfPeak, NEW h \in CfHeats
  PROVE  /\ CfTurbine([[u EXCEPT !.actual = p] EXCEPT !.heat = h])
         /\ [[u EXCEPT !.actual = p] EXCEPT !.heat = h].state = u.state
         /\ [[u EXCEPT !.actual = p] EXCEPT !.heat = h].avail = u.avail
<1> DEFINE v == [u EXCEPT !.actual = p]
<1>1. CfTurbine(v) /\ v.state = u.state /\ v.avail = u.avail
  <2>1. p \in CfKw
    BY CfKwRange
  <2> QED
    BY <2>1, SMT DEF CfTurbine, CfRecords
<1> HIDE DEF v
<1>2. /\ CfTurbine([v EXCEPT !.heat = h])
      /\ [v EXCEPT !.heat = h].state = v.state /\ [v EXCEPT !.heat = h].avail = v.avail
  BY <1>1, SMT DEF CfTurbine, CfRecords
<1> QED
  BY <1>1, <1>2 DEF v

LEMMA CfExceptWind ==
  ASSUME NEW u, CfTurbine(u), NEW a \in Int, 200 <= a, a <= CfPeak
  PROVE  /\ CfTurbine([[u EXCEPT !.avail = a] EXCEPT !.min = 200])
         /\ [[u EXCEPT !.avail = a] EXCEPT !.min = 200].state = u.state
         /\ [[u EXCEPT !.avail = a] EXCEPT !.min = 200].avail = a
<1> DEFINE v == [u EXCEPT !.avail = a]
<1>1. v \in CfRecords /\ v.avail = a /\ v.state = u.state
  <2>1. a \in CfKw
    BY CfKwRange
  <2> QED
    BY <2>1, SMT DEF CfTurbine, CfRecords
<1> HIDE DEF v
<1>2. /\ [v EXCEPT !.min = 200] \in CfRecords
      /\ [v EXCEPT !.min = 200].avail = a /\ [v EXCEPT !.min = 200].min = 200
      /\ [v EXCEPT !.min = 200].state = u.state
  BY <1>1, SMT DEF CfRecords
<1>3. CfTurbine([v EXCEPT !.min = 200])
  BY <1>2, SMT DEF CfTurbine
<1> QED
  BY <1>2, <1>3 DEF v

LEMMA CfSeenTurbine ==
  ASSUME NEW u, CfTurbine(u), NEW a \in Int, 200 <= a, a <= CfPeak,
         NEW q \in Int, NEW wear \in Int, NEW noise \in CfHeats
  PROVE  /\ CfTurbine(CfSeen(u, q, a, wear, noise))
         /\ CfSeen(u, q, a, wear, noise).avail = a
<1> DEFINE p == CfClamp(q, 0, a)
           x == (500 + p \div 5) * wear
           y == (450 + p \div 10) * wear
           h == [gear |-> x \div 1000 + noise.gear, pitch |-> y \div 1000 + noise.pitch]
           v == [[u EXCEPT !.avail = a] EXCEPT !.min = 200]
<1>1. CfSeen(u, q, a, wear, noise)
        = [u EXCEPT !.avail = a, !.min = 200, !.actual = p, !.heat = h]
  BY Zenon DEF CfSeen
<1>2. p \in Int /\ 0 <= p /\ p <= CfPeak
  BY CfPeakIs, SMT DEF CfClamp, CfMin, CfMax
<1> HIDE DEF p
<1>3. h \in CfHeats
  <2>1. x \in Int /\ y \in Int
    BY <1>2, SMT
  <2> HIDE DEF x, y
  <2>2. x \div 1000 \in Int /\ y \div 1000 \in Int
    BY <2>1, SMT
  <2>3. noise.gear \in Int /\ noise.pitch \in Int
    BY DEF CfHeats
  <2> QED
    BY <2>2, <2>3, SMT DEF CfHeats
<1> HIDE DEF h
<1>4. CfTurbine(v) /\ v.avail = a
  BY CfExceptWind
<1>5. [u EXCEPT !.avail = a, !.min = 200, !.actual = p, !.heat = h]
        = [[v EXCEPT !.actual = p] EXCEPT !.heat = h]
  OBVIOUS
<1> HIDE DEF v
<1>6. /\ CfTurbine([[v EXCEPT !.actual = p] EXCEPT !.heat = h])
      /\ [[v EXCEPT !.actual = p] EXCEPT !.heat = h].avail = v.avail
  BY <1>2, <1>3, <1>4, CfExceptLoad
<1> QED
  BY <1>1, <1>4, <1>5, <1>6

-----------------------------------------------------------------------------
LEMMA CfClampBounds ==
  ASSUME NEW x \in Int
  PROVE  /\ CfClamp(x, 0, 1000) \in Int
         /\ 0 <= CfClamp(x, 0, 1000) /\ CfClamp(x, 0, 1000) <= 1000
BY SMT DEF CfClamp, CfMin, CfMax

LEMMA CfSafety ==
  ASSUME NEW u, CfTurbine(u)
  PROVE  /\ ComputeS(u) \in Int /\ 0 <= ComputeS(u) /\ ComputeS(u) <= 1000
         /\ SafePower(u) \in Int /\ u.min <= SafePower(u) /\ SafePower(u) <= u.avail
<1>1. PICK n \in Int, a \in Int : n = u.min /\ a = u.avail /\ n <= a
  BY CfFields, Zenon
<1>2. PICK c \in Int : c = ComputeS(u) /\ 0 <= c /\ c <= 1000
  <2>1. PICK h \in CfHeats : h = u.heat
    BY CfFields, Zenon
  <2>2. h.gear \in Int /\ h.pitch \in Int
    BY DEF CfHeats
  <2> DEFINE g == CfMargin(h.gear, 800, 950)
             p == CfMargin(h.pitch, 600, 700)
  <2>3. g \in Int /\ 0 <= g /\ g <= 1000 /\ p \in Int /\ 0 <= p /\ p <= 1000
    <3>1. /\ ((h.gear - 800) * 1000) \div (950 - 800) \in Int
          /\ ((h.pitch - 600) * 1000) \div (700 - 600) \in Int
      BY <2>2, SMT
    <3> QED
      BY <3>1, CfClampBounds, SMT DEF CfMargin
  <2>4. ComputeS(u) = CfMin(g, p)
    BY <2>1 DEF ComputeS
  <2> HIDE DEF g, p
  <2> QED
    BY <2>3, <2>4, SMT DEF CfMin
<1>3. /\ (a - n) * c \in Int /\ 0 <= (a - n) * c /\ (a - n) * c <= (a - n) * 1000
  BY <1>1, <1>2, SMT
<1> DEFINE v == (a - n) * c
<1>4. SafePower(u) = n + v \div 1000
  BY <1>1, <1>2 DEF SafePower
<1> HIDE DEF v
<1>5. v \in Int /\ 0 <= v /\ v <= (a - n) * 1000
  BY <1>3 DEF v
<1>6. n + v \div 1000 \in Int /\ n <= n + v \div 1000 /\ n + v \div 1000 <= a
  BY <1>1, <1>5, SMT
<1>7. SafePower(u) \in Int /\ n <= SafePower(u) /\ SafePower(u) <= a
  BY <1>4, <1>6, SMT
<1> QED
  BY <1>1, <1>2, <1>7, SMT

LEMMA CfStateAfter ==
  ASSUME NEW state \in CfStates, NEW S, NEW timer
  PROVE  StateAfter(state, S, timer) \in CfStates
BY Zenon DEF StateAfter, CfStates, Driven, Restrictions

LEMMA CfAssessed ==
  ASSUME NEW t, CfFarm(t)
  PROVE  CfFarm(Assessed(t)) /\ \A i \in CfTurbines : Assessed(t)[i].avail = t[i].avail
<1> DEFINE new(i) == StateAfter(t[i].state, ComputeS(t[i]), TimersIn(t)[i])
           f == [i \in CfTurbines |-> [t[i] EXCEPT !.state = new(i)]]
<1>1. Assessed(t) = CfArray(f)
  BY DEF Assessed
<1> HIDE DEF new
<1>2. \A i \in CfTurbines : CfTurbine(f[i]) /\ f[i].avail = t[i].avail
  <2> SUFFICES ASSUME NEW i \in CfTurbines
               PROVE  CfTurbine(f[i]) /\ f[i].avail = t[i].avail
    OBVIOUS
  <2>1. CfTurbine(t[i]) /\ t[i].state \in CfStates
    BY CfFields DEF CfFarm
  <2>2. new(i) \in CfStates
    BY <2>1, CfStateAfter DEF new
  <2>3. f[i] = [t[i] EXCEPT !.state = new(i)]
    OBVIOUS
  <2> QED
    BY <2>1, <2>2, <2>3, CfExceptState
<1> HIDE DEF f
<1> QED
  BY <1>1, <1>2, CfFarmArray

LEMMA CfStarted ==
  ASSUME NEW t, CfFarm(t)
  PROVE  CfFarm(Started(t))
<1> DEFINE f == [i \in CfTurbines |->
                  IF t[i].state = "standby"
                  THEN [t[i] EXCEPT !.state = "normal", !.role = "base", !.sp = t[i].min]
                  ELSE t[i]]
<1>1. Started(t) = CfArray(f)
  BY DEF Started
<1>2. \A i \in CfTurbines : CfTurbine(f[i])
  <2> SUFFICES ASSUME NEW i \in CfTurbines PROVE CfTurbine(f[i])
    OBVIOUS
  <2>1. CfTurbine(t[i])
    BY DEF CfFarm
  <2>2. CASE t[i].state = "standby"
    <3>1. t[i].min \in Int /\ 0 <= t[i].min /\ t[i].min <= CfPeak
      BY <2>1, CfFields, CfPeakIs, SMT
    <3>2. f[i] = [t[i] EXCEPT !.state = "normal", !.role = "base", !.sp = t[i].min]
      BY <2>2
    <3>3. "normal" \in CfStates /\ "base" \in CfRoles
      BY DEF CfStates, CfRoles, Driven
    <3> QED
      BY <2>1, <3>1, <3>2, <3>3, CfExceptMoved
  <2>3. CASE t[i].state # "standby"
    BY <2>1, <2>3
  <2> QED
    BY <2>2, <2>3
<1> HIDE DEF f
<1> QED
  BY <1>1, <1>2, CfFarmArray

LEMMA CfClassified ==
  ASSUME NEW t, CfFarm(t), NEW mode
  PROVE  CfFarm(Classified(t, mode))
<1> DEFINE f == [i \in CfTurbines |->
                  CASE mode = "deep" /\ t[i].state # "standby" -> [t[i] EXCEPT !.role = "base"]
                    [] mode = "tracking" /\ t[i].state = "normal" ->
                         [t[i] EXCEPT !.role = IF i \in Regulating(t) THEN "regulating" ELSE "base"]
                    [] OTHER -> t[i]]
<1>1. Classified(t, mode) = CfArray(f)
  BY DEF Classified
<1>2. \A i \in CfTurbines : CfTurbine(f[i])
  <2> SUFFICES ASSUME NEW i \in CfTurbines PROVE CfTurbine(f[i])
    OBVIOUS
  <2>1. CfTurbine(t[i])
    BY DEF CfFarm
  <2> DEFINE r == IF i \in Regulating(t) THEN "regulating" ELSE "base"
  <2>2. "base" \in CfRoles /\ r \in CfRoles
    BY Zenon DEF CfRoles
  <2>3. f[i] = [t[i] EXCEPT !.role = "base"] \/ f[i] = [t[i] EXCEPT !.role = r] \/ f[i] = t[i]
    BY Zenon
  <2> HIDE DEF f, r
  <2>4. CASE f[i] = [t[i] EXCEPT !.role = "base"]
    BY <2>1, <2>2, <2>4, CfExceptRole
  <2>5. CASE f[i] = [t[i] EXCEPT !.role = r]
    BY <2>1, <2>2, <2>5, CfExceptRole
  <2>6. CASE f[i] = t[i]
    BY <2>1, <2>6
  <2> QED
    BY <2>3, <2>4, <2>5, <2>6
<1> HIDE DEF f
<1> QED
  BY <1>1, <1>2, CfFarmArray

LEMMA CfStopped ==
  ASSUME NEW t, CfFarm(t), NEW capacity
  PROVE  CfFarm(Stopped(t, capacity))
<1> DEFINE next == cfDraw.stops
           gone[k \in 0..CfN] ==
             IF k = 0 THEN 0
             ELSE gone[k - 1] + (IF t[next[k]].state = "normal" THEN t[next[k]].avail ELSE 0)
           stop == {next[k] : k \in {j \in CfTurbines : /\ t[next[j]].state = "normal"
                                                       /\ gone[j - 1] < capacity}}
           f == [i \in CfTurbines |->
                  IF i \in stop
                  THEN [t[i] EXCEPT !.state = "standby", !.role = "standby", !.sp = 0]
                  ELSE t[i]]
<1>1. Stopped(t, capacity) = CfArray(f)
  BY Zenon DEF Stopped
<1> HIDE DEF stop
<1>3. \A i \in CfTurbines : CfTurbine(f[i])
  <2> SUFFICES ASSUME NEW i \in CfTurbines PROVE CfTurbine(f[i])
    OBVIOUS
  <2>1. CfTurbine(t[i])
    BY DEF CfFarm
  <2>2. CASE i \in stop
    <3>1. f[i] = [t[i] EXCEPT !.state = "standby", !.role = "standby", !.sp = 0]
      BY <2>2
    <3>2. /\ "standby" \in CfStates /\ "standby" \in CfRoles
          /\ 0 \in Int /\ 0 <= 0 /\ 0 <= CfPeak
      BY CfPeakIs DEF CfStates, CfRoles
    <3> QED
      BY <2>1, <3>1, <3>2, CfExceptMoved
  <2>3. CASE i \notin stop
    BY <2>1, <2>3
  <2> QED
    BY <2>2, <2>3
<1> HIDE DEF f
<1> QED
  BY <1>1, <1>3, CfFarmArray

-----------------------------------------------------------------------------
LEMMA CfCheckedInt ==
  ASSUME NEW t, CfFarm(t), NEW target \in Int
  PROVE  CheckedCommand(t, target) \in Int
<1> DEFINE f == [i \in CfTurbines |-> MaxCapacity(t[i])]
           g == [i \in CfTurbines |-> MinCapacity(t[i])]
<1>1. \A i \in CfTurbines : f[i] \in Int /\ g[i] \in Int
  <2> SUFFICES ASSUME NEW i \in CfTurbines PROVE f[i] \in Int /\ g[i] \in Int
    OBVIOUS
  <2>1. CfTurbine(t[i])
    BY DEF CfFarm
  <2>2. /\ t[i].state \in CfStates /\ t[i].avail \in Int /\ t[i].min \in Int
        /\ SafePower(t[i]) \in Int
    BY <2>1, CfFields, CfSafety
  <2>3. MaxCapacity(t[i]) \in Int /\ MinCapacity(t[i]) \in Int
    BY <2>2, SMT DEF MaxCapacity, MinCapacity, CfStates, Driven, Restrictions
  <2> QED
    BY <2>3
<1> HIDE DEF f, g
<1>2. CfSum(f) \in Int /\ CfSum(g) \in Int
  BY <1>1, CfSumInt
<1> QED
  BY <1>2, Zenon DEF CheckedCommand, f, g

LEMMA CfShareBounds ==
  ASSUME NEW e \in Int, NEW w \in Int, NEW o \in Int, 0 <= e, 0 <= w, w < o
  PROVE  (e * w) \div o \in Int /\ 0 <= (e * w) \div o /\ (e * w) \div o <= e
<1> DEFINE p == e * w
           q == p \div o
<1>1. p \in Int /\ 0 <= p /\ p <= e * o /\ o > 0
  BY SMT
<1> HIDE DEF p
<1>2. q \in Int /\ o * q <= p /\ p < o * q + o
  BY <1>1, SMT
<1> HIDE DEF q
<1>3. 0 <= q
  <2>1. q <= -1 => o * q <= -o
    BY <1>1, <1>2, SMT
  <2> QED
    BY <1>1, <1>2, <2>1, SMT
<1>4. q <= e
  <2>1. q >= e + 1 => o * q >= o * e + o
    <3>1. q >= e + 1 => o * (q - (e + 1)) >= 0
      BY <1>1, <1>2, SMT
    <3>2. o * (q - (e + 1)) = o * q - o * e - o
      BY <1>1, <1>2, SMT
    <3>3. o * q \in Int /\ o * e \in Int
      BY <1>2, SMT
    <3> QED
      BY <3>1, <3>2, <3>3, SMT
  <2>2. o * e = e * o /\ o * e \in Int /\ o * q \in Int
    BY <1>2, SMT
  <2> QED
    BY <1>1, <1>2, <2>1, <2>2, SMT
<1> QED
  BY <1>2, <1>3, <1>4 DEF p, q

LEMMA CfDistributedDeep ==
  ASSUME NEW t, CfFarm(t), NEW target \in Int
  PROVE  CfFarm(DistributedDeep(t, target))
<1> DEFINE awake == {i \in CfTurbines : t[i].state # "standby"}
           least == CfSum([i \in CfTurbines |-> IF i \in awake THEN [j \in CfTurbines |-> t[j].min][i] ELSE 0])
           efficient == [i \in CfTurbines |-> (t[i].avail * 9) \div 10]
           most == CfSum([i \in CfTurbines |-> IF i \in awake THEN efficient[i] ELSE 0])
           wanted == CfMax(target, least)
           share == [i \in CfTurbines |->
                      IF wanted < most
                      THEN CfMax((efficient[i] * wanted) \div most, t[i].min)
                      ELSE efficient[i]]
           f == [i \in CfTurbines |->
                  IF i \in awake THEN [t[i] EXCEPT !.raw = share[i], !.sp = share[i]]
                  ELSE t[i]]
<1>1. DistributedDeep(t, target) = CfArray(f)
  BY Zenon DEF DistributedDeep
<1>2. \A i \in CfTurbines : /\ CfTurbine(t[i])
                            /\ t[i].min \in Int /\ 0 <= t[i].min /\ t[i].min <= 200
                            /\ efficient[i] \in Int /\ 0 <= efficient[i] /\ efficient[i] <= CfPeak
  <2> SUFFICES ASSUME NEW i \in CfTurbines
               PROVE  /\ CfTurbine(t[i])
                      /\ t[i].min \in Int /\ 0 <= t[i].min /\ t[i].min <= 200
                      /\ efficient[i] \in Int /\ 0 <= efficient[i] /\ efficient[i] <= CfPeak
    OBVIOUS
  <2>1. CfTurbine(t[i])
    BY DEF CfFarm
  <2>2. /\ t[i].avail \in Int /\ 0 <= t[i].avail /\ t[i].avail <= CfPeak
        /\ t[i].min \in Int /\ 0 <= t[i].min /\ t[i].min <= 200
    BY <2>1, CfFields
  <2>3. efficient[i] = (t[i].avail * 9) \div 10
    OBVIOUS
  <2> HIDE DEF efficient
  <2> QED
    BY <2>1, <2>2, <2>3, CfPeakIs, SMT
<1> HIDE DEF efficient
<1>3. least \in Int /\ 0 <= least /\ most \in Int
  <2> DEFINE a == [i \in CfTurbines |-> IF i \in awake THEN [j \in CfTurbines |-> t[j].min][i] ELSE 0]
             b == [i \in CfTurbines |-> IF i \in awake THEN efficient[i] ELSE 0]
  <2>1. \A i \in CfTurbines : a[i] \in Int /\ 0 <= a[i] /\ b[i] \in Int
    BY <1>2
  <2> HIDE DEF a, b
  <2>2. CfSum(a) \in Int /\ 0 <= CfSum(a) /\ CfSum(b) \in Int
    BY <2>1, CfSumInt
  <2> QED
    BY <2>2 DEF a, b
<1> HIDE DEF least, most
<1>4. wanted \in Int /\ 0 <= wanted
  BY <1>3, SMT DEF CfMax
<1> HIDE DEF wanted
<1>5. \A i \in CfTurbines : share[i] \in Int /\ 0 <= share[i] /\ share[i] <= CfPeak
  <2> SUFFICES ASSUME NEW i \in CfTurbines
               PROVE  share[i] \in Int /\ 0 <= share[i] /\ share[i] <= CfPeak
    OBVIOUS
  <2>1. PICK e \in Int, n \in Int : /\ e = efficient[i] /\ 0 <= e /\ e <= CfPeak
                                    /\ n = t[i].min /\ 0 <= n /\ n <= 200
    BY <1>2
  <2>2. CASE wanted < most
    <3>1. (e * wanted) \div most \in Int /\ 0 <= (e * wanted) \div most /\ (e * wanted) \div most <= e
      BY <1>3, <1>4, <2>1, <2>2, CfShareBounds
    <3>2. share[i] = CfMax((e * wanted) \div most, n)
      BY <2>1, <2>2
    <3> DEFINE z == (e * wanted) \div most
    <3> HIDE DEF z, share
    <3>3. z \in Int /\ 0 <= z /\ z <= e /\ share[i] = CfMax(z, n)
      BY <3>1, <3>2 DEF z
    <3> QED
      BY <2>1, <3>3, CfPeakIs, SMT DEF CfMax
  <2>3. CASE ~ (wanted < most)
    <3>1. share[i] = e
      BY <2>1, <2>3
    <3> HIDE DEF share
    <3> QED
      BY <2>1, <3>1, SMT
  <2> QED
    BY <2>2, <2>3
<1> HIDE DEF share
<1>6. \A i \in CfTurbines : CfTurbine(f[i])
  <2> SUFFICES ASSUME NEW i \in CfTurbines PROVE CfTurbine(f[i])
    OBVIOUS
  <2>1. f[i] = [t[i] EXCEPT !.raw = share[i], !.sp = share[i]] \/ f[i] = t[i]
    BY Zenon
  <2> HIDE DEF f
  <2>2. CASE f[i] = [t[i] EXCEPT !.raw = share[i], !.sp = share[i]]
    <3>1. PICK p \in Int : p = share[i] /\ 0 <= p /\ p <= CfPeak
      BY <1>5
    <3>2. CfTurbine(t[i]) /\ f[i] = [t[i] EXCEPT !.raw = p, !.sp = p]
      BY <1>2, <2>2, <3>1
    <3>3. CfTurbine([t[i] EXCEPT !.raw = p, !.sp = p])
      BY <3>1, <3>2, CfExceptGiven
    <3> QED
      BY <3>2, <3>3
  <2>3. CASE f[i] = t[i]
    BY <1>2, <2>3
  <2> QED
    BY <2>1, <2>2, <2>3
<1> HIDE DEF f
<1> QED
  BY <1>1, <1>6, CfFarmArray

LEMMA CfDistributedTracking ==
  ASSUME NEW t, CfFarm(t), NEW target \in Int
  PROVE  CfFarm(DistributedTracking(t, target))
<1> DEFINE regs == {i \in CfTurbines : t[i].state = "normal" /\ t[i].role = "regulating"}
           fixedAt(i) == CASE t[i].state = "restricted" -> SafePower(t[i])
                           [] t[i].state = "shadow" -> t[i].actual
                           [] t[i].state = "normal" /\ i \notin regs ->
                                CfMax((t[i].avail * 19) \div 20, t[i].min)
                           [] OTHER -> 0
           fixedArray == [i \in CfTurbines |-> fixedAt(i)]
           fixed == CfArray(fixedArray)
           weightArray == [i \in CfTurbines |->
                            IF i \in regs THEN CfMax(10, t[i].avail - t[i].min) ELSE 0]
           weight == CfArray(weightArray)
           remaining == target - CfSum(fixed)
           given == [i \in CfTurbines |->
                      IF i \in regs
                      THEN CfMin(CfMax(t[i].min + (remaining * weight[i]) \div CfSum(weight),
                                       t[i].min), t[i].avail)
                      ELSE fixed[i]]
           f == [i \in CfTurbines |-> [t[i] EXCEPT !.raw = given[i], !.sp = given[i]]]
<1>1. DistributedTracking(t, target) = CfArray(f)
  BY Zenon DEF DistributedTracking
<1>2. \A i \in CfTurbines : /\ CfTurbine(t[i])
                            /\ t[i].min \in Int /\ 0 <= t[i].min /\ t[i].min <= 200
                            /\ t[i].avail \in Int /\ t[i].min <= t[i].avail /\ t[i].avail <= CfPeak
                            /\ t[i].actual \in Int /\ 0 <= t[i].actual /\ t[i].actual <= CfPeak
                            /\ SafePower(t[i]) \in Int /\ 0 <= SafePower(t[i])
                            /\ SafePower(t[i]) <= CfPeak
  <2> SUFFICES ASSUME NEW i \in CfTurbines
               PROVE  /\ CfTurbine(t[i])
                      /\ t[i].min \in Int /\ 0 <= t[i].min /\ t[i].min <= 200
                      /\ t[i].avail \in Int /\ t[i].min <= t[i].avail /\ t[i].avail <= CfPeak
                      /\ t[i].actual \in Int /\ 0 <= t[i].actual /\ t[i].actual <= CfPeak
                      /\ SafePower(t[i]) \in Int /\ 0 <= SafePower(t[i])
                      /\ SafePower(t[i]) <= CfPeak
    OBVIOUS
  <2>1. CfTurbine(t[i])
    BY DEF CfFarm
  <2>2. /\ t[i].min \in Int /\ 0 <= t[i].min /\ t[i].min <= 200
        /\ t[i].avail \in Int /\ t[i].min <= t[i].avail /\ t[i].avail <= CfPeak
        /\ t[i].actual \in Int /\ 0 <= t[i].actual /\ t[i].actual <= CfPeak
    BY <2>1, CfFields
  <2>3. SafePower(t[i]) \in Int /\ t[i].min <= SafePower(t[i]) /\ SafePower(t[i]) <= t[i].avail
    BY <2>1, CfSafety
  <2>4. 0 <= SafePower(t[i]) /\ SafePower(t[i]) <= CfPeak
    BY <2>2, <2>3, CfPeakIs, SMT
  <2> QED
    BY <2>1, <2>2, <2>3, <2>4
<1>3. \A i \in CfTurbines : fixedAt(i) \in Int /\ 0 <= fixedAt(i) /\ fixedAt(i) <= CfPeak
  <2> SUFFICES ASSUME NEW i \in CfTurbines
               PROVE  fixedAt(i) \in Int /\ 0 <= fixedAt(i) /\ fixedAt(i) <= CfPeak
    OBVIOUS
  <2> DEFINE z == CfMax((t[i].avail * 19) \div 20, t[i].min)
  <2>1. PICK a \in Int, n \in Int : a = t[i].avail /\ n = t[i].min /\ 0 <= n /\ n <= a /\ a <= CfPeak
    BY <1>2
  <2>2. z \in Int /\ 0 <= z /\ z <= CfPeak
    BY <2>1, CfPeakIs, SMT DEF CfMax
  <2> HIDE DEF z
  <2>3. fixedAt(i) \in {SafePower(t[i]), t[i].actual, z, 0}
    BY Zenon DEF z
  <2> HIDE DEF fixedAt
  <2> QED
    BY <1>2, <2>2, <2>3, CfPeakIs, SMT
<1> HIDE DEF fixedAt
<1>4. \A i \in CfTurbines : fixed[i] = fixedAt(i)
  <2>1. \A i \in CfTurbines : fixed[i] = fixedArray[i]
    <3> HIDE DEF fixedArray
    <3> QED
      BY CfArrayLemma, Zenon
  <2> HIDE DEF fixed
  <2> QED
    BY <2>1
<1>5. \A i \in CfTurbines : /\ weight[i] \in Int /\ 0 <= weight[i]
                            /\ i \in regs => 1 <= weight[i]
  <2>1. \A i \in CfTurbines : weight[i] = weightArray[i]
    <3> HIDE DEF weightArray
    <3> QED
      BY CfArrayLemma, Zenon
  <2>2. \A i \in CfTurbines : /\ weightArray[i] \in Int /\ 0 <= weightArray[i]
                              /\ i \in regs => 1 <= weightArray[i]
    <3> SUFFICES ASSUME NEW i \in CfTurbines
                 PROVE  /\ weightArray[i] \in Int /\ 0 <= weightArray[i]
                        /\ i \in regs => 1 <= weightArray[i]
      OBVIOUS
    <3> DEFINE z == CfMax(10, t[i].avail - t[i].min)
    <3>1. PICK a \in Int, n \in Int : a = t[i].avail /\ n = t[i].min
      BY <1>2
    <3>2. z \in Int /\ 1 <= z
      BY <3>1, SMT DEF CfMax
    <3> HIDE DEF z
    <3>3. weightArray[i] = IF i \in regs THEN z ELSE 0
      BY DEF z
    <3> HIDE DEF weightArray, regs
    <3> QED
      BY <3>2, <3>3, SMT
  <2> HIDE DEF weight, weightArray, regs
  <2> QED
    BY <2>1, <2>2
<1> HIDE DEF fixed, weight, regs
<1>6. CfSum(fixed) \in Int /\ CfSum(weight) \in Int /\ \A i \in CfTurbines : weight[i] <= CfSum(weight)
  <2>1. \A i \in CfTurbines : fixed[i] \in Int
    BY <1>3, <1>4
  <2> QED
    BY <1>5, <2>1, CfSumInt
<1>7. remaining \in Int
  BY <1>6
<1> HIDE DEF remaining
<1>8. \A i \in CfTurbines : given[i] \in Int /\ 0 <= given[i] /\ given[i] <= CfPeak
  <2> SUFFICES ASSUME NEW i \in CfTurbines
               PROVE  given[i] \in Int /\ 0 <= given[i] /\ given[i] <= CfPeak
    OBVIOUS
  <2>1. CASE i \in regs
    <3>1. PICK a \in Int, n \in Int : a = t[i].avail /\ n = t[i].min /\ 0 <= n /\ n <= a /\ a <= CfPeak
      BY <1>2
    <3>2. PICK w \in Int, o \in Int : w = weight[i] /\ o = CfSum(weight) /\ o >= 1
      BY <1>5, <1>6, <2>1, SMT
    <3> DEFINE z == (remaining * w) \div o
    <3>3. z \in Int
      <4>1. remaining * w \in Int
        BY <1>7, SMT
      <4> QED
        BY <3>2, <4>1, SMT
    <3>4. given[i] = CfMin(CfMax(n + z, n), a)
      BY <2>1, <3>1, <3>2
    <3> HIDE DEF z, given
    <3> QED
      BY <3>1, <3>3, <3>4, CfPeakIs, SMT DEF CfMin, CfMax
  <2>2. CASE i \notin regs
    <3>1. given[i] = fixedAt(i)
      BY <1>4, <2>2
    <3> HIDE DEF given
    <3> QED
      BY <1>3, <3>1
  <2> QED
    BY <2>1, <2>2
<1> HIDE DEF given
<1>9. \A i \in CfTurbines : CfTurbine(f[i])
  <2> SUFFICES ASSUME NEW i \in CfTurbines PROVE CfTurbine(f[i])
    OBVIOUS
  <2>1. f[i] = [t[i] EXCEPT !.raw = given[i], !.sp = given[i]]
    BY Zenon
  <2> HIDE DEF f
  <2>2. PICK p \in Int : p = given[i] /\ 0 <= p /\ p <= CfPeak
    BY <1>8
  <2>3. CfTurbine(t[i]) /\ f[i] = [t[i] EXCEPT !.raw = p, !.sp = p]
    BY <1>2, <2>1, <2>2
  <2>4. CfTurbine([t[i] EXCEPT !.raw = p, !.sp = p])
    BY <2>2, <2>3, CfExceptGiven
  <2> QED
    BY <2>3, <2>4
<1> HIDE DEF f
<1> QED
  BY <1>1, <1>9, CfFarmArray

LEMMA CfRamped ==
  ASSUME NEW t, CfFarm(t)
  PROVE  CfFarm(Ramped(t))
<1> DEFINE to(i) == CfClamp(t[i].raw, t[i].sp - 200 * CfDt, t[i].sp + 200 * CfDt)
           f == [i \in CfTurbines |-> [t[i] EXCEPT !.sp = to(i)]]
<1>1. Ramped(t) = CfArray(f)
  BY Zenon DEF Ramped
<1>2. \A i \in CfTurbines : CfTurbine(t[i]) /\ to(i) \in Int /\ 0 <= to(i) /\ to(i) <= CfPeak
  <2> SUFFICES ASSUME NEW i \in CfTurbines
               PROVE  CfTurbine(t[i]) /\ to(i) \in Int /\ 0 <= to(i) /\ to(i) <= CfPeak
    OBVIOUS
  <2>1. CfTurbine(t[i])
    BY DEF CfFarm
  <2>2. PICK p \in Int, q \in Int : /\ p = t[i].sp /\ 0 <= p /\ p <= CfPeak
                                    /\ q = t[i].raw /\ 0 <= q /\ q <= CfPeak
    BY <2>1, CfFields
  <2>3. CfDt = 1
    BY CfCount
  <2>4. to(i) = CfClamp(q, p - 200 * CfDt, p + 200 * CfDt)
    BY <2>2
  <2> HIDE DEF to
  <2> QED
    BY <2>1, <2>2, <2>3, <2>4, CfPeakIs, SMT DEF CfClamp, CfMin, CfMax
<1> HIDE DEF to
<1>3. \A i \in CfTurbines : CfTurbine(f[i])
  <2> SUFFICES ASSUME NEW i \in CfTurbines PROVE CfTurbine(f[i])
    OBVIOUS
  <2>1. f[i] = [t[i] EXCEPT !.sp = to(i)]
    BY Zenon
  <2> HIDE DEF f
  <2> QED
    BY <1>2, <2>1, CfExceptSetpoint
<1> HIDE DEF f
<1> QED
  BY <1>1, <1>3, CfFarmArray

LEMMA CfWaveBounds ==
  ASSUME NEW x \in 0..119
  PROVE  /\ CfWave(x) \in Int /\ -2000 <= CfWave(x) /\ CfWave(x) <= 2000
         /\ x <= 59 \/ x = 119 => -105 <= CfWave(x)
<1>1. \A k \in 1..31 : /\ CfQuarter[k] \in Int /\ 0 <= CfQuarter[k] /\ CfQuarter[k] <= 2000
                       /\ k = 2 => CfQuarter[k] = 105
  BY SMT DEF CfQuarter
<1>2. CASE x \in 0..30
  <2>1. CfWave(x) = CfQuarter[x + 1] /\ x + 1 \in 1..31
    BY <1>2, SMT DEF CfWave
  <2> QED
    BY <1>1, <1>2, <2>1, SMT
<1>3. CASE x \in 31..60
  <2>1. CfWave(x) = CfQuarter[61 - x] /\ 61 - x \in 1..31
    BY <1>3, SMT DEF CfWave
  <2> QED
    BY <1>1, <1>3, <2>1, SMT
<1>4. CASE x \in 61..90
  <2>1. CfWave(x) = - CfQuarter[x - 59] /\ x - 59 \in 1..31
    BY <1>4, SMT DEF CfWave
  <2> QED
    BY <1>1, <1>4, <2>1, SMT
<1>5. CASE x \in 91..119
  <2>1. CfWave(x) = - CfQuarter[121 - x] /\ 121 - x \in 1..31 /\ (x = 119 => 121 - x = 2)
    BY <1>5, SMT DEF CfWave
  <2> QED
    BY <1>1, <1>5, <2>1, SMT
<1> QED
  BY <1>2, <1>3, <1>4, <1>5, SMT

LEMMA CfCurveBounds ==
  ASSUME NEW time \in Nat, NEW i \in CfTurbines
  PROVE  /\ CfCurve(time, i) \in Int /\ 1100 <= CfCurve(time, i) /\ CfCurve(time, i) <= 2000
         /\ CfCurve(time, i) = CfCurve(time % 120, i)
         /\ CfCurve(time, i) >= CfMin(2000, (2 * (5000 + 100 * (i - 1))) \div 9)
         /\ time % 120 <= 59 \/ time % 120 = 119 =>
              CfCurve(time, i) >= CfMin(2000, (2 * (6895 + 100 * (i - 1))) \div 9)
<1>1. PICK x \in 0..119 : x = time % 120 /\ x % 120 = x
  BY SMT
<1>2. PICK w \in Int : /\ w = CfWave(x) /\ -2000 <= w /\ w <= 2000
                       /\ x <= 59 \/ x = 119 => -105 <= w
  BY CfWaveBounds
<1>3. i \in Int /\ 1 <= i /\ i <= 10
  BY CfCount, SMT DEF CfTurbines
<1>4. /\ CfCurve(time, i) = CfMin(2000, (2 * (10000 + w + 100 * (i - 1) - 3000)) \div 9)
      /\ CfCurve(time % 120, i) = CfCurve(time, i)
  BY <1>1, <1>2 DEF CfCurve
<1> QED
  BY <1>1, <1>2, <1>3, <1>4, SMT DEF CfMin

LEMMA CfAvailableBounds ==
  ASSUME NEW time \in Nat, NEW i \in CfTurbines, NEW noise \in -120..120
  PROVE  /\ CfAvailable(time, i, noise) \in Int
         /\ 200 <= CfAvailable(time, i, noise) /\ CfAvailable(time, i, noise) <= CfPeak
<1>1. PICK c \in Int : c = CfCurve(time, i) /\ 1100 <= c /\ c <= 2000
  BY CfCurveBounds
<1> DEFINE p == c * (1000 + noise)
<1>2. p \in Int /\ 880 * 1100 <= p /\ p <= 2000 * 1120
  <2>1. 880 <= 1000 + noise /\ 1000 + noise <= 1120 /\ 1000 + noise \in Int
    BY SMT
  <2> DEFINE m == 1000 + noise
  <2> HIDE DEF m
  <2>2. c * m \in Int /\ 1100 * 880 <= c * m /\ c * m <= 2000 * 1120
    <3>1. m \in Int /\ 880 <= m /\ m <= 1120
      BY <2>1 DEF m
    <3>2. (c - 1100) * m >= 0 /\ (2000 - c) * m >= 0
      BY <1>1, <3>1, SMT
    <3>3. (c - 1100) * m = c * m - 1100 * m /\ (2000 - c) * m = 2000 * m - c * m /\ c * m \in Int
      BY <1>1, <3>1, SMT
    <3> QED
      BY <3>1, <3>2, <3>3, SMT
  <2> QED
    BY <2>2, SMT DEF m
<1>3. CfAvailable(time, i, noise) = CfMax(0, p \div 1000)
  BY <1>1 DEF CfAvailable
<1> HIDE DEF p
<1> QED
  BY <1>2, <1>3, CfPeakIs, SMT DEF CfMax

LEMMA CfFollowedBounds ==
  ASSUME NEW p \in Int, 0 <= p, p <= CfPeak, NEW s \in Int, 0 <= s, s <= CfPeak
  PROVE  CfFollowed(p, s) \in Int /\ 0 <= CfFollowed(p, s) /\ CfFollowed(p, s) <= CfPeak
BY CfPeakIs, SMT DEF CfFollowed

(* The noise of a draw and the farm it leaves.                                 *)
LEMMA CfDrawn ==
  ASSUME NEW d \in CfDraws
  PROVE  /\ CfSteady(d)
         /\ \A i \in CfTurbines : d.noise[i] \in -120..120 /\ d.heat[i] \in CfHeats
<1>1. CfBounded(d) /\ CfSteady(d)
  BY CfAssumption, Zenon
<1> QED
  BY <1>1, Zenon DEF CfBounded, CfHeats

LEMMA CfDrivenFarm ==
  ASSUME NEW g, CfFarm(g), cfTime \in Nat, cfDraw \in CfDraws,
         \A i \in CfTurbines : cfPower[i] \in Int
  PROVE  /\ CfFarm(CfDriven(g))
         /\ \A i \in CfTurbines :
              CfDriven(g)[i].avail = CfAvailable(cfTime, i, cfDraw.noise[i])
<1> SUFFICES ASSUME NEW i \in CfTurbines
             PROVE  /\ CfTurbine(CfDriven(g)[i])
                    /\ CfDriven(g)[i].avail = CfAvailable(cfTime, i, cfDraw.noise[i])
  BY Zenon DEF CfFarm
<1> DEFINE q == CfFollowed(cfPower[i], g[i].sp)
           a == CfAvailable(cfTime, i, cfDraw.noise[i])
           wear == 3000 - 2 * CfHealth(cfTime, i)
           noise == cfDraw.heat[i]
<1>1. CfDriven(g)[i] = CfSeen(g[i], q, a, wear, noise)
  BY Zenon DEF CfDriven
<1>2. /\ CfTurbine(g[i])
      /\ cfDraw.noise[i] \in -120..120 /\ noise \in CfHeats
  BY CfDrawn, Zenon DEF CfFarm
<1>3. a \in Int /\ 200 <= a /\ a <= CfPeak
  BY <1>2, CfAvailableBounds, Zenon
<1>4. q \in Int
  <2>1. PICK p \in Int, s \in Int : p = cfPower[i] /\ s = g[i].sp
    BY <1>2, CfFields, Zenon
  <2>2. q = p + ((s - p) * 393) \div 1000
    BY <2>1 DEF CfFollowed
  <2> HIDE DEF q
  <2> QED
    BY <2>1, <2>2, SMT
<1>5. wear \in Int
  <2>1. CfHealth(cfTime, i) \in Int
    BY SMT DEF CfHealth
  <2> QED
    BY <2>1, SMT
<1> HIDE DEF q, a, wear, noise
<1>6. CfTurbine(CfSeen(g[i], q, a, wear, noise)) /\ CfSeen(g[i], q, a, wear, noise).avail = a
  BY <1>2, <1>3, <1>4, <1>5, CfSeenTurbine
<1> QED
  BY <1>1, <1>6, Zenon DEF a

-----------------------------------------------------------------------------
LEMMA CfScriptFields ==
  ASSUME NEW time \in Nat
  PROVE  /\ CfScript(time).target \in Int /\ CfScript(time).reserve \in Int
         /\ CfScript(time).hours \in Int
BY SMT DEF CfScript

LEMMA CfSelectedMode ==
  ASSUME NEW mode, NEW curtailed, NEW available, NEW hours
  PROVE  SelectedMode(mode, curtailed, available, hours) \in {"tracking", "deep"}
BY Zenon DEF SelectedMode

LEMMA CfModeEasy ==
  ASSUME NEW mode, NEW curtailed, NEW available
  PROVE  SelectedMode(mode, curtailed, available, 10) = "tracking"
<1>1. 10 < 15 /\ ~ (10 > 20)
  BY SMT
<1> QED
  BY <1>1, Zenon DEF SelectedMode

LEMMA CfModeEnters ==
  ASSUME NEW curtailed, NEW available, 10 * curtailed > 4 * available
  PROVE  SelectedMode("tracking", curtailed, available, 30) = "deep"
<1>1. 30 > 20 /\ "tracking" # "deep"
  BY SMT
<1> QED
  BY <1>1, Zenon DEF SelectedMode

LEMMA CfModeStays ==
  ASSUME NEW curtailed, NEW available, curtailed # 0, ~ (10 * curtailed < 3 * available)
  PROVE  SelectedMode("deep", curtailed, available, 30) = "deep"
<1>1. ~ (30 < 15)
  BY SMT
<1> QED
  BY <1>1, Zenon DEF SelectedMode

(* What a step of the farm leaves behind.                                      *)
LEMMA CfStepFacts ==
  ASSUME CfStep, CfFarm(cfT), cfTime \in Nat, cfDraw \in CfDraws, CfPowers(cfPower)
  PROVE  /\ cfTime <= 300 /\ cfTime' = cfTime + CfDt
         /\ cfDraw' \in CfDraws
         /\ cfTimer' = TimersIn(cfT)[CfN + 1]
         /\ cfMode' = SelectedMode(cfMode,
                                   Curtailed(Assessed(cfT), CfScript(cfTime).target),
                                   CfTotalAvailable(Assessed(cfT)), CfScript(cfTime).hours)
         /\ CfFarm(cfT') /\ CfPowers(cfPower')
         /\ \A i \in CfTurbines : cfT'[i].avail = CfAvailable(cfTime, i, cfDraw.noise[i])
<1> DEFINE c == CfScript(cfTime)
           assessed == Assessed(cfT)
           available == CfTotalAvailable(assessed)
           curtailed == Curtailed(assessed, c.target)
           mode == SelectedMode(cfMode, curtailed, available, c.hours)
           started == IF mode # cfMode /\ mode = "tracking" THEN Started(assessed)
                      ELSE assessed
           classified == Classified(started, mode)
           capacity == StopCapacity(classified, curtailed)
           stopped == IF mode = "deep" /\ capacity > 1 THEN Stopped(classified, capacity)
                      ELSE classified
           command == CheckedCommand(stopped, c.target + c.reserve)
           shared == IF mode = "deep" THEN DistributedDeep(stopped, command)
                     ELSE DistributedTracking(stopped, command)
           given == Ramped(shared)
<1>1. /\ cfTime <= 300 /\ cfTime' = cfTime + CfDt
      /\ cfMode' = mode /\ cfTimer' = TimersIn(cfT)[CfN + 1]
      /\ cfT' = CfDriven(given)
      /\ cfPower' = [i \in CfTurbines |-> CfFollowed(cfPower[i], given[i].sp)]
      /\ cfDraw' \in IF cfTime' % CfHold = 0 THEN CfDraws ELSE {cfDraw}
  BY Zenon DEF CfStep
<1>2. c.target \in Int /\ c.reserve \in Int /\ c.target + c.reserve \in Int
  BY CfScriptFields
<1>3. CfFarm(assessed)
  BY CfAssessed
<1> HIDE DEF assessed, mode, available, curtailed
<1>4. CfFarm(started)
  BY <1>3, CfStarted
<1> HIDE DEF started
<1>5. CfFarm(classified)
  BY <1>4, CfClassified
<1> HIDE DEF classified, capacity
<1>6. CfFarm(stopped)
  BY <1>5, CfStopped
<1> HIDE DEF stopped
<1>7. command \in Int
  BY <1>2, <1>6, CfCheckedInt
<1> HIDE DEF command
<1>8. CfFarm(shared)
  BY <1>6, <1>7, CfDistributedDeep, CfDistributedTracking
<1> HIDE DEF shared
<1>9. CfFarm(given)
  BY <1>8, CfRamped
<1> HIDE DEF given
<1>10. /\ CfFarm(CfDriven(given))
       /\ \A i \in CfTurbines :
            CfDriven(given)[i].avail = CfAvailable(cfTime, i, cfDraw.noise[i])
  BY <1>9, CfDrivenFarm, Zenon DEF CfPowers
<1>11. cfDraw' \in CfDraws
  BY <1>1, Zenon
<1>12. CfPowers(cfPower')
  <2> SUFFICES ASSUME NEW i \in CfTurbines
               PROVE  /\ cfPower'[i] \in Int
                      /\ 0 <= cfPower'[i] /\ cfPower'[i] <= CfPeak
    BY Zenon DEF CfPowers
  <2>1. CfTurbine(given[i])
    BY <1>9, Zenon DEF CfFarm
  <2>2. PICK p \in Int, s \in Int : /\ p = cfPower[i] /\ 0 <= p /\ p <= CfPeak
                                    /\ s = given[i].sp /\ 0 <= s /\ s <= CfPeak
    BY <2>1, CfFields, Zenon DEF CfPowers
  <2>3. cfPower'[i] = CfFollowed(p, s)
    BY <1>1, <2>2, Zenon
  <2> QED
    BY <2>2, <2>3, CfFollowedBounds, Zenon
<1> QED
  BY <1>1, <1>10, <1>11, <1>12, Zenon DEF assessed, mode, available, curtailed

-----------------------------------------------------------------------------
(* The inductive invariant.                                                    *)
CfInv ==
  /\ cfTime \in Nat /\ cfTime <= 301
  /\ cfDraw \in CfDraws
  /\ CfFarm(cfT)
  /\ CfPowers(cfPower)
  /\ cfMode \in {"tracking", "deep"}
  /\ cfTimer \in Int /\ 0 <= cfTimer /\ cfTimer <= 59

LEMMA CfInitInv ==
  ASSUME CfInit
  PROVE  CfInv
<1> DEFINE u == [state |-> "normal", role |-> "base", sp |-> 0, raw |-> 0, avail |-> 0,
                 min |-> 0, actual |-> 0, heat |-> [gear |-> 500, pitch |-> 450]]
<1>1. /\ cfTime = 0 /\ cfMode = "tracking" /\ cfTimer = 0 /\ cfDraw \in CfDraws
      /\ cfT = [i \in CfTurbines |-> u]
  BY Zenon DEF CfInit
<1>2. CfFarm(cfT)
  <2>1. CfTurbine(u)
    <3>1. "normal" \in CfStates /\ "base" \in CfRoles /\ [gear |-> 500, pitch |-> 450] \in CfHeats
      BY DEF CfStates, CfRoles, Driven, CfHeats
    <3>2. 0 \in CfKw /\ 0 \in 0..200 /\ 0 <= 0
      BY CfKwRange, CfPeakIs, SMT
    <3> QED
      BY <3>1, <3>2, Zenon DEF CfTurbine, CfRecords
  <2>2. \A i \in CfTurbines : cfT[i] = u
    BY <1>1, Zenon
  <2> HIDE DEF u
  <2> QED
    BY <2>1, <2>2 DEF CfFarm
<1>3. CfPowers(cfPower)
  <2>1. \A i \in CfTurbines : cfPower[i] = 0
    BY Zenon DEF CfInit
  <2> QED
    BY <2>1, CfPeakIs, SMT DEF CfPowers
<1> QED
  BY <1>1, <1>2, <1>3, SMT DEF CfInv

LEMMA CfStepInv ==
  ASSUME CfInv, CfStep
  PROVE  CfInv'
<1>1. /\ cfTime \in Nat /\ CfFarm(cfT) /\ cfDraw \in CfDraws /\ CfPowers(cfPower)
      /\ cfTimer \in Int /\ 0 <= cfTimer /\ cfTimer <= 59
  BY DEF CfInv
<1>2. /\ cfTime <= 300 /\ cfTime' = cfTime + CfDt
      /\ cfDraw' \in CfDraws
      /\ cfTimer' = TimersIn(cfT)[CfN + 1]
      /\ cfMode' \in {"tracking", "deep"}
      /\ CfFarm(cfT') /\ CfPowers(cfPower')
  BY <1>1, CfStepFacts, CfSelectedMode
<1>3. cfTime' \in Nat /\ cfTime' <= 301
  BY <1>1, <1>2, CfCount, SMT
<1>4. cfTimer' \in Int /\ 0 <= cfTimer' /\ cfTimer' <= 59
  <2>1. CfN + 1 \in 1..(CfN + 1)
    BY CfCount, SMT
  <2> QED
    BY <1>1, <1>2, <2>1, CfTimersBounds
<1> QED
  BY <1>2, <1>3, <1>4 DEF CfInv

(* Turbines, timer and mode after every step, whatever the generators draw     *)
(* (state_machine.cpp:10-80 and mode_selector.cpp:8-40).                       *)
THEOREM CurtailmentInvariant == CfSpec => []CfInv
<1>1. CfInv /\ UNCHANGED cfVars => CfInv'
  BY DEF CfInv, cfVars, CfFarm, CfPowers
<1>2. CfInv /\ [CfNext]_cfVars => CfInv'
  BY <1>1, CfStepInv DEF CfNext
<1> QED
  BY <1>2, CfInitInv, PTL DEF CfSpec

(* The ranges of the farm's variables: no turbine is ordered past what its     *)
(* wind and its noise can give, and the timer of the recoveries restarts       *)
(* within a minute.                                                            *)
THEOREM CurtailmentTypeCorrect == CfSpec => []CfTypeOK
<1>1. CfInv => CfTypeOK
  <2> SUFFICES ASSUME CfInv PROVE CfTypeOK
    OBVIOUS
  <2>1. /\ cfTime \in Nat /\ cfTime <= 301 /\ CfFarm(cfT) /\ cfDraw \in CfDraws
        /\ CfPowers(cfPower)
        /\ cfMode \in {"tracking", "deep"}
        /\ cfTimer \in Int /\ 0 <= cfTimer /\ cfTimer <= 59
    BY DEF CfInv
  <2>2. cfTime \in 0..301 /\ cfTimer \in 0..59
    BY <2>1, SMT
  <2>3. \A i \in CfTurbines :
          /\ cfT[i].state \in CfStates
          /\ cfT[i].role \in CfRoles
          /\ cfT[i].sp \in 0..CfPeak /\ cfT[i].raw \in 0..CfPeak
          /\ cfPower[i] \in 0..CfPeak
    <3> SUFFICES ASSUME NEW i \in CfTurbines
                 PROVE  /\ cfT[i].state \in CfStates
                        /\ cfT[i].role \in CfRoles
                        /\ cfT[i].sp \in 0..CfPeak /\ cfT[i].raw \in 0..CfPeak
                        /\ cfPower[i] \in 0..CfPeak
      OBVIOUS
    <3>1. CfTurbine(cfT[i])
      BY <2>1 DEF CfFarm
    <3>2. /\ cfT[i].state \in CfStates /\ cfT[i].role \in CfRoles
          /\ cfT[i].sp \in Int /\ 0 <= cfT[i].sp /\ cfT[i].sp <= CfPeak
          /\ cfT[i].raw \in Int /\ 0 <= cfT[i].raw /\ cfT[i].raw <= CfPeak
          /\ cfPower[i] \in Int /\ 0 <= cfPower[i] /\ cfPower[i] <= CfPeak
      BY <2>1, <3>1, CfFields, Zenon DEF CfPowers
    <3>3. \A p : p \in Int /\ 0 <= p /\ p <= CfPeak => p \in 0..CfPeak
      BY CfKwRange, Zenon DEF CfKw
    <3> QED
      BY <3>2, <3>3, Zenon
  <2> QED
    BY <2>1, <2>2, <2>3, Zenon DEF CfTypeOK, CfStates, CfRoles
<1> QED
  BY <1>1, CurtailmentInvariant, PTL

-----------------------------------------------------------------------------
(* The ten turbines in the wind of the script.                                 *)
LEMMA CfSumOfTen ==
  ASSUME NEW f, \A i \in CfTurbines : f[i] \in Int
  PROVE  CfSum(f) = f[1] + f[2] + f[3] + f[4] + f[5] + f[6] + f[7] + f[8] + f[9] + f[10]
<1>1. PICK s : /\ s = [n \in 0..10 |-> IF n = 0 THEN 0 ELSE s[n - 1] + f[n]]
               /\ CfSum(f) = s[10]
  BY CfPartialSums, CfCount
<1>2. \A n \in 0..10 : s[n] = IF n = 0 THEN 0 ELSE s[n - 1] + f[n]
  BY <1>1, Zenon
<1>3. /\ s[0] = 0 /\ s[1] = s[0] + f[1] /\ s[2] = s[1] + f[2] /\ s[3] = s[2] + f[3]
      /\ s[4] = s[3] + f[4] /\ s[5] = s[4] + f[5] /\ s[6] = s[5] + f[6]
      /\ s[7] = s[6] + f[7] /\ s[8] = s[7] + f[8] /\ s[9] = s[8] + f[9]
      /\ s[10] = s[9] + f[10]
  BY <1>2
<1>4. /\ f[1] \in Int /\ f[2] \in Int /\ f[3] \in Int /\ f[4] \in Int /\ f[5] \in Int
      /\ f[6] \in Int /\ f[7] \in Int /\ f[8] \in Int /\ f[9] \in Int /\ f[10] \in Int
  BY CfCount, SMT DEF CfTurbines
<1> QED
  BY <1>1, <1>3, <1>4

(* What the wind gives the farm at least, in every second and in those whose   *)
(* power the steps of the 11 MW order and of the entry see.                    *)
LEMMA CfWindGives ==
  ASSUME NEW time \in Nat
  PROVE  /\ CfSum([i \in CfTurbines |-> CfCurve(time, i)]) \in Int
         /\ CfSum([i \in CfTurbines |-> CfCurve(time, i)]) >= 12100
         /\ time % 120 <= 59 \/ time % 120 = 119 =>
              CfSum([i \in CfTurbines |-> CfCurve(time, i)]) >= 16310
<1> DEFINE f == [i \in CfTurbines |-> CfCurve(time, i)]
           late == time % 120 <= 59 \/ time % 120 = 119
<1>1. \A i \in CfTurbines :
        /\ f[i] \in Int
        /\ f[i] >= CfMin(2000, (2 * (5000 + 100 * (i - 1))) \div 9)
        /\ late => f[i] >= CfMin(2000, (2 * (6895 + 100 * (i - 1))) \div 9)
  BY CfCurveBounds
<1> HIDE DEF f, late
<1>2. CfSum(f) = f[1] + f[2] + f[3] + f[4] + f[5] + f[6] + f[7] + f[8] + f[9] + f[10]
  BY <1>1, CfSumOfTen
<1>3. /\ f[1] \in Int /\ f[2] \in Int /\ f[3] \in Int /\ f[4] \in Int /\ f[5] \in Int
      /\ f[6] \in Int /\ f[7] \in Int /\ f[8] \in Int /\ f[9] \in Int /\ f[10] \in Int
      /\ f[1] >= 1111 /\ f[2] >= 1133 /\ f[3] >= 1155 /\ f[4] >= 1177 /\ f[5] >= 1200
      /\ f[6] >= 1222 /\ f[7] >= 1244 /\ f[8] >= 1266 /\ f[9] >= 1288 /\ f[10] >= 1311
  BY <1>1, CfCount, SMT DEF CfTurbines, CfMin
<1>4. late => /\ f[1] >= 1532 /\ f[2] >= 1554 /\ f[3] >= 1576 /\ f[4] >= 1598
              /\ f[5] >= 1621 /\ f[6] >= 1643 /\ f[7] >= 1665 /\ f[8] >= 1687
              /\ f[9] >= 1710 /\ f[10] >= 1732
  BY <1>1, CfCount, SMT DEF CfTurbines, CfMin
<1>5. CfSum(f) \in Int /\ CfSum(f) >= 12100 /\ (late => CfSum(f) >= 16310)
  BY <1>2, <1>3, <1>4
<1> QED
  BY <1>5 DEF f, late

(* The same of the available power, whatever the noise.                        *)
LEMMA CfNoiseLeaves ==
  ASSUME NEW time \in Nat, NEW d \in CfDraws, NEW t,
         \A i \in CfTurbines : t[i].avail = CfAvailable(time, i, d.noise[i])
  PROVE  /\ CfTotalAvailable(t) \in Int /\ CfTotalAvailable(t) >= 11600
         /\ time % 120 <= 59 \/ time % 120 = 119 => CfTotalAvailable(t) >= 15720
<1> DEFINE x == time % 120
           f == [i \in CfTurbines |-> CfAvailable(x, i, d.noise[i])]
           g == [i \in CfTurbines |-> CfCurve(x, i)]
<1>1. x \in 0..119 /\ x \in Nat /\ x % 120 = x
  BY SMT
<1> HIDE DEF x
<1>2. \A i \in CfTurbines : t[i].avail = f[i] /\ f[i] \in Int
  <2> SUFFICES ASSUME NEW i \in CfTurbines PROVE t[i].avail = f[i] /\ f[i] \in Int
    OBVIOUS
  <2>1. CfCurve(time, i) = CfCurve(x, i)
    BY CfCurveBounds DEF x
  <2>2. CfAvailable(time, i, d.noise[i]) = CfAvailable(x, i, d.noise[i])
    BY <2>1 DEF CfAvailable
  <2>3. d.noise[i] \in -120..120
    BY CfDrawn
  <2> QED
    BY <1>1, <2>2, <2>3, CfAvailableBounds
<1>3. CfTotalAvailable(t) = CfSum(f)
  <2>1. [i \in CfTurbines |-> t[i].avail] = f
    BY <1>2
  <2> QED
    BY <2>1 DEF CfTotalAvailable
<1>4. 1000 * CfSum(f) >= 965 * CfSum(g)
  <2>1. CfSteady(d)
    BY CfDrawn
  <2> DEFINE F(y) == CfSum([j \in CfTurbines |-> CfAvailable(y, j, d.noise[j])])
             G(y) == CfSum([j \in CfTurbines |-> CfCurve(y, j)])
  <2>2. \A y \in 0..119 : 1000 * F(y) >= 965 * G(y)
    BY <2>1 DEF CfSteady
  <2>3. CfSum(f) = F(x) /\ CfSum(g) = G(x)
    OBVIOUS
  <2> HIDE DEF F, G, f, g
  <2> QED
    BY <1>1, <2>2, <2>3
<1>5. /\ CfSum(g) \in Int /\ CfSum(g) >= 12100
      /\ x <= 59 \/ x = 119 => CfSum(g) >= 16310
  BY <1>1, CfWindGives
<1> HIDE DEF f, g
<1>6. CfSum(f) \in Int
  BY <1>2, CfSumInt
<1>7. /\ CfSum(f) >= 11600
      /\ x <= 59 \/ x = 119 => CfSum(f) >= 15720
  BY <1>4, <1>5, <1>6, SMT
<1> QED
  BY <1>3, <1>6, <1>7 DEF x

LEMMA CfScriptAt ==
  ASSUME NEW x \in Nat
  PROVE  /\ x < 60 \/ x >= 250 => CfScript(x).hours = 10
         /\ 60 <= x /\ x < 250 => CfScript(x).hours = 30
         /\ (60 <= x /\ x < 120) \/ (180 <= x /\ x < 250) => CfScript(x).target = 8000
         /\ 120 <= x /\ x < 180 => CfScript(x).target = 11000
<1>1. CASE x < 30
  BY <1>1, SMT DEF CfScript
<1>2. CASE x >= 30 /\ x < 60
  BY <1>2, SMT DEF CfScript
<1>3. CASE x >= 60 /\ x < 120
  BY <1>3, SMT DEF CfScript
<1>4. CASE x >= 120 /\ x < 180
  BY <1>4, SMT DEF CfScript
<1>5. CASE x >= 180 /\ x < 250
  BY <1>5, SMT DEF CfScript
<1>6. CASE x >= 250
  BY <1>6, SMT DEF CfScript
<1> QED
  BY <1>1, <1>2, <1>3, <1>4, <1>5, <1>6, SMT

(* The farm sees the wind of a second ago, and the mode follows the script.    *)
CfSeenWind ==
  cfTime # 0 => \E d \in CfDraws : \A i \in CfTurbines :
                  cfT[i].avail = CfAvailable(cfTime - 1, i, d.noise[i])
CfScheduled ==
  cfMode = IF 60 < cfTime /\ cfTime <= 250 THEN "deep" ELSE "tracking"
CfWindInv == CfInv /\ CfSeenWind /\ CfScheduled

LEMMA CfWindStep ==
  ASSUME CfWindInv, CfStep
  PROVE  /\ CfSeenWind' /\ CfScheduled'
         /\ cfMode' # cfMode => CfScript(cfTime) # CfScript(cfTime - CfDt)
<1>1. PICK T \in Nat : T = cfTime
  BY DEF CfWindInv, CfInv
<1>2. CfFarm(cfT) /\ cfDraw \in CfDraws /\ cfTime \in Nat /\ CfPowers(cfPower)
  BY DEF CfWindInv, CfInv
<1> DEFINE a == CfTotalAvailable(Assessed(cfT))
           c == Curtailed(Assessed(cfT), CfScript(T).target)
<1>3. /\ cfTime' = T + 1
      /\ cfMode' = SelectedMode(cfMode, c, a, CfScript(T).hours)
      /\ \A i \in CfTurbines : cfT'[i].avail = CfAvailable(T, i, cfDraw.noise[i])
  BY <1>1, <1>2, CfStepFacts, CfCount
<1>4. CfSeenWind'
  <2>1. cfTime' - 1 = T
    BY <1>3, SMT
  <2> QED
    BY <1>2, <1>3, <2>1 DEF CfSeenWind
<1>5. T # 0 => /\ a \in Int /\ a >= 11600
               /\ (T - 1) % 120 <= 59 \/ (T - 1) % 120 = 119 => a >= 15720
  <2> SUFFICES ASSUME T # 0
               PROVE  /\ a \in Int /\ a >= 11600
                      /\ (T - 1) % 120 <= 59 \/ (T - 1) % 120 = 119 => a >= 15720
    OBVIOUS
  <2>1. PICK d \in CfDraws : \A i \in CfTurbines :
          cfT[i].avail = CfAvailable(T - 1, i, d.noise[i])
    BY <1>1 DEF CfWindInv, CfSeenWind
  <2>2. \A i \in CfTurbines : Assessed(cfT)[i].avail = CfAvailable(T - 1, i, d.noise[i])
    BY <1>2, <2>1, CfAssessed
  <2>3. T - 1 \in Nat
    BY SMT
  <2> QED
    BY <2>2, <2>3, CfNoiseLeaves
<1>6. c = CfMax(0, a - CfScript(T).target)
  BY DEF Curtailed
<1>7. cfMode = IF 60 < T /\ T <= 250 THEN "deep" ELSE "tracking"
  BY <1>1 DEF CfWindInv, CfScheduled
<1> HIDE DEF a, c
\* The mode after the step.
<1>8. CASE T < 60 \/ T >= 250
  <2>1. cfMode' = "tracking"
    <3>1. CfScript(T).hours = 10
      BY <1>8, CfScriptAt
    <3> QED
      BY <1>3, <3>1, CfModeEasy
  <2>2. CfScheduled'
    <3>1. ~ (60 < T + 1 /\ T + 1 <= 250)
      BY <1>8, SMT
    <3> QED
      BY <1>3, <2>1, <3>1 DEF CfScheduled
  <2>3. ASSUME cfMode' # cfMode
        PROVE  CfScript(cfTime) # CfScript(cfTime - CfDt)
    <3>1. T = 250
      BY <1>7, <1>8, <2>1, <2>3, SMT
    <3>2. CfScript(250).hours = 10 /\ CfScript(249).hours = 30
      BY CfScriptAt, SMT
    <3>3. T - CfDt = 249
      BY <3>1, CfCount, SMT
    <3> QED
      BY <1>1, <3>1, <3>2, <3>3
  <2> QED
    BY <1>4, <2>2, <2>3
<1>9. CASE 60 <= T /\ T < 250
  <2>1. a \in Int /\ a >= 11600 /\ CfScript(T).hours = 30
    BY <1>5, <1>9, CfScriptAt
  <2>2. CASE T = 60
    <3>1. a >= 15720 /\ CfScript(T).target = 8000
      <4>1. (T - 1) % 120 <= 59
        BY <2>2, SMT
      <4> QED
        BY <1>5, <2>2, <4>1, CfScriptAt
    <3>2. 10 * c > 4 * a
      BY <1>6, <2>1, <3>1, SMT DEF CfMax
    <3>3. cfMode = "tracking"
      BY <1>7, <2>2
    <3>4. cfMode' = "deep"
      BY <1>3, <2>1, <3>2, <3>3, CfModeEnters
    <3>5. CfScript(60).hours = 30 /\ CfScript(59).hours = 10 /\ T - CfDt = 59
      BY <2>2, CfScriptAt, CfCount, SMT
    <3>6. CfScript(cfTime) # CfScript(cfTime - CfDt)
      BY <1>1, <2>2, <3>5
    <3>7. CfScheduled'
      BY <1>3, <2>2, <3>4, SMT DEF CfScheduled
    <3> QED
      BY <1>4, <3>6, <3>7
  <2>3. CASE T # 60
    <3>1. c # 0 /\ ~ (10 * c < 3 * a)
      <4>1. CASE 120 <= T /\ T < 180
        <5>1. (T - 1) % 120 <= 59 \/ (T - 1) % 120 = 119
          BY <4>1, SMT
        <5>2. a >= 15720 /\ CfScript(T).target = 11000
          BY <1>5, <1>9, <4>1, <5>1, CfScriptAt
        <5> QED
          BY <1>6, <2>1, <5>2, SMT DEF CfMax
      <4>2. CASE ~ (120 <= T /\ T < 180)
        <5>1. CfScript(T).target = 8000
          BY <1>9, <4>2, CfScriptAt
        <5> QED
          BY <1>6, <2>1, <5>1, SMT DEF CfMax
      <4> QED
        BY <4>1, <4>2
    <3>2. cfMode = "deep"
      BY <1>7, <1>9, <2>3, SMT
    <3>3. cfMode' = "deep"
      BY <1>3, <2>1, <3>1, <3>2, CfModeStays
    <3>4. CfScheduled'
      <4>1. 60 < T + 1 /\ T + 1 <= 250
        BY <1>9, SMT
      <4> QED
        BY <1>3, <3>3, <4>1 DEF CfScheduled
    <3> QED
      BY <1>4, <3>2, <3>3, <3>4
  <2> QED
    BY <2>2, <2>3
<1> QED
  BY <1>8, <1>9, SMT

(* In the ten turbines' scripted wind, with every noise that leaves the farm    *)
(* 96.5 % of what the wind gives, the mode changes only in the first step of a  *)
(* new order (mode_selector.cpp:10-28 over mock_farm.cpp:16-24).                *)
THEOREM CurtailmentOutlastsWind == CfSpec => CfWindKeepsCurtailment
<1> DEFINE Kept == cfMode' # cfMode => CfScript(cfTime) # CfScript(cfTime - CfDt)
<1>1. CfInit => CfWindInv
  <2>1. CfInit => CfInv
    BY CfInitInv
  <2>2. CfInit => CfSeenWind /\ CfScheduled
    BY DEF CfInit, CfSeenWind, CfScheduled
  <2> QED
    BY <2>1, <2>2 DEF CfWindInv
<1>2. CfWindInv /\ CfStep => CfWindInv' /\ Kept
  BY CfWindStep, CfStepInv DEF CfWindInv
<1>3. CfWindInv /\ UNCHANGED cfVars => CfWindInv' /\ Kept
  <2>1. CfInv /\ UNCHANGED cfVars => CfInv'
    BY DEF CfInv, cfVars, CfFarm, CfPowers
  <2>2. CfSeenWind /\ CfScheduled /\ UNCHANGED cfVars => CfSeenWind' /\ CfScheduled' /\ Kept
    BY DEF CfSeenWind, CfScheduled, cfVars
  <2> QED
    BY <2>1, <2>2 DEF CfWindInv
<1> HIDE DEF Kept
<1>4. CfWindInv /\ [CfNext]_cfVars => CfWindInv' /\ [Kept]_cfVars
  BY <1>2, <1>3 DEF CfNext
<1>5. CfWindInv /\ [CfNext]_cfVars => CfWindInv'
  BY <1>4
<1>6. CfWindInv /\ [CfNext]_cfVars => [Kept]_cfVars
  BY <1>4
<1>7. CfSpec => [][Kept]_cfVars
  BY <1>1, <1>5, <1>6, PTL DEF CfSpec
<1> QED
  BY <1>7 DEF CfWindKeepsCurtailment, Kept

-----------------------------------------------------------------------------
(*                               All of them                                 *)

(* The archive starts every program as the program itself starts, and a step   *)
(* of one leaves the others alone.                                             *)
LEMMA ArchiveInit ==
  Init => /\ running \in Programs
          /\ DayInit /\ MoInit /\ CfInit /\ RtInit /\ FrInit /\ HilInit /\ B1Init /\ WdInit
BY Zenon DEF Init

LEMMA ArchiveStep ==
  [Next]_archiveVars => /\ running' = running
                        /\ [DayNext]_dayVars /\ [MoNext]_demoVars /\ [CfNext]_cfVars
                        /\ [RtNext]_rtVars /\ [FrNext]_frVars /\ [HilNext]_hilVars
                        /\ [B1Next]_b1Vars /\ [WdNext]_wdVars
<1> SUFFICES ASSUME [Next]_archiveVars
             PROVE  /\ running' = running
                    /\ [DayNext]_dayVars /\ [MoNext]_demoVars /\ [CfNext]_cfVars
                    /\ [RtNext]_rtVars /\ [FrNext]_frVars /\ [HilNext]_hilVars
                    /\ [B1Next]_b1Vars /\ [WdNext]_wdVars
  OBVIOUS
<1>1. CASE UNCHANGED archiveVars
  BY <1>1, Zenon DEF archiveVars
<1>2. CASE RunDay
  BY <1>2, Zenon DEF RunDay
<1>3. CASE RunDemo
  BY <1>3, Zenon DEF RunDemo
<1>4. CASE RunCurtailment
  BY <1>4, Zenon DEF RunCurtailment
<1>5. CASE RunRamp
  BY <1>5, Zenon DEF RunRamp
<1>6. CASE RunFrequency
  BY <1>6, Zenon DEF RunFrequency
<1>7. CASE RunHil
  BY <1>7, Zenon DEF RunHil
<1>8. CASE RunBaseline
  BY <1>8, Zenon DEF RunBaseline
<1>9. CASE RunDisturbance
  BY <1>9, Zenon DEF RunDisturbance
<1> QED
  BY <1>1, <1>2, <1>3, <1>4, <1>5, <1>6, <1>7, <1>8, <1>9, Zenon DEF Next

(* The composition implements every program it is composed of: projected to    *)
(* the variables of one, a behaviour of the archive is one of that program, so *)
(* what is proved of a program holds in the archive (the archived main.cpp     *)
(* files share no state).                                                      *)
THEOREM ArchiveIsItsPrograms ==
  Spec => /\ DaySpec /\ MoSpec /\ CfSpec /\ RtSpec
          /\ FrSpec /\ HilSpec /\ B1Spec /\ WdSpec
<1>1. Spec => DaySpec /\ MoSpec /\ CfSpec /\ RtSpec
  BY ArchiveInit, ArchiveStep, PTL DEF Spec, DaySpec, MoSpec, CfSpec, RtSpec
<1>2. Spec => FrSpec /\ HilSpec /\ B1Spec /\ WdSpec
  BY ArchiveInit, ArchiveStep, PTL DEF Spec, FrSpec, HilSpec, B1Spec, WdSpec
<1> QED
  BY <1>1, <1>2

(* The ranges of all the archived programs' variables.                         *)
THEOREM ArchiveTypeCorrect == Spec => []ArchiveTypeOK
<1>1. Spec => [](running \in Programs)
  <2>1. running \in Programs /\ [Next]_archiveVars => (running \in Programs)'
    BY ArchiveStep, Zenon
  <2> QED
    BY <2>1, ArchiveInit, PTL DEF Spec
<1>2. /\ running \in Programs
      /\ DayTypeOK /\ MoTypeOK /\ CfTypeOK /\ RtTypeOK /\ FrTypeOK /\ HilTypeOK
      /\ B1TypeOK /\ WdTypeOK
      => ArchiveTypeOK
  BY Zenon DEF ArchiveTypeOK
<1> QED
  BY <1>1, <1>2, ArchiveIsItsPrograms, DayTypeCorrect, DemoTypeCorrect, CurtailmentTypeCorrect,
     RampTypeCorrect, FrequencyTypeCorrect, HilTypeCorrect, BaselineTypeCorrect,
     WindTypeCorrect, PTL
===============================================================================
