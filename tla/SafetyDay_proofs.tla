--------------------------- MODULE SafetyDay_proofs ---------------------------
(***************************************************************************)
(* Proofs about SafetyDay: for every noise the program can draw, held for  *)
(* however long, the variables keep their ranges, a freeze holds the power *)
(* to within 3.4 MW and part running never stops an efficient upwind       *)
(* turbine.                                                                *)
(***************************************************************************)
EXTENDS SafetyDay, WellFoundedInduction, TLAPS

Recoveries == [on : BOOLEAN, start : Int, target : Int, elapsed : Nat]

(* A recovery has been under way for no longer than the day; in a freeze   *)
(* the power is near the one that is held.                                 *)
DayInv ==
  /\ dStep \in 0..1440 /\ dPower \in 0..DayRated /\ dFrozen \in 0..DayRated
  /\ dMode \in {"normal", "freeze", "extreme"}
  /\ dWeather \in [on : BOOLEAN, wind : Int, turb : Int]
  /\ dRecovery \in Recoveries /\ dRecovery.elapsed <= dStep
  /\ dNoise \in -100..98
  /\ dMode = "freeze" => DayAbs(dPower - dFrozen) <= 340

LEMMA PowerLemma ==
  ASSUME NEW target \in Int, NEW noise \in Int, dPower \in Int
  PROVE  PowerAfter(target, noise) \in 0..DayRated
<1> DEFINE wanted == (3 * (target - dPower)) \div 10 + noise
<1>1. wanted \in Int
  OBVIOUS
<1> HIDE DEF wanted
<1>2. DayClamp(wanted, -300, 300) \in Int
  BY <1>1 DEF DayClamp, DayGreater, DayLesser
<1> DEFINE moved == dPower + DayClamp(wanted, -300, 300)
<1>3. moved \in Int
  BY <1>2
<1> HIDE DEF moved
<1>4. DayClamp(moved, 0, DayRated) \in 0..DayRated
  BY <1>3 DEF DayClamp, DayGreater, DayLesser, DayRated
<1> QED
  BY <1>4 DEF PowerAfter, moved, wanted

LEMMA ScheduleLemma == \A hour \in 0..23 : SchedulePower(hour) \in Int
<1>1. \A i \in 1..24 : HourWindFactor[i] \in Int
  BY DEF HourWindFactor
<1> QED
  BY <1>1 DEF SchedulePower, DayRated

LEMMA StormLemma ==
  \A hour, minute : StormAt(hour, minute) \in [on : BOOLEAN, wind : Int, turb : Int]
BY DEF StormAt

LEMMA RecoveryLemma ==
  ASSUME DayInv, NEW r \in Recoveries, NEW schedule \in Int
  PROVE  RecoveryTarget(r, schedule) \in Int /\ RecoveryDone(r, schedule) \in BOOLEAN
BY DEF RecoveryTarget, RecoveryDone, Recoveries, DayInv, DayAbs, DayLesser, DayRampRate, DayRated

LEMMA CutLemma ==
  ASSUME DayInv, NEW sub, NEW turb \in Int
  PROVE  ExtremeCut(sub, turb) \in Int
<1>1. dPower \in Int
  BY DEF DayInv, DayRated
<1>2. /\ (dPower * 70) \div 100 \in Int /\ dPower * (2500 - 15 * turb) \in Int
      /\ DayGreater((dPower * 75) \div 100, DayRated \div 10) \in Int
  BY <1>1 DEF DayGreater, DayRated
<1>3. (dPower * (2500 - 15 * turb)) \div 2500 \in Int
  BY <1>2
<1> QED
  BY <1>1, <1>2, <1>3 DEF ExtremeCut

LEMMA DayInitInv == DayInit => DayInv
BY DEF DayInit, DayInv, DayRated, Recoveries

LEMMA DayStep ==
  ASSUME DayInv, [DayNext]_dayVars
  PROVE  /\ DayInv'
         /\ dayVars' # dayVars /\ dMode' = "freeze" =>
              dFrozen' = IF dMode = "freeze" THEN dFrozen ELSE dPower
<1>1. CASE UNCHANGED dayVars
  BY <1>1 DEF dayVars, DayInv
<1>2. CASE DayTick
  <2> DEFINE hour == dStep \div 60
             minute == dStep % 60
             schedule == SchedulePower(hour)
             comm == CommHealthy(hour, minute)
             storm == StormAt(hour, minute)
             weather == Weathered(storm)
             mode == SafeMode(comm, weather.on)
             changed == RecoveryAfterChange(mode, hour)
             frozen == FrozenAfterChange(mode)
             aged == [changed EXCEPT !.elapsed = @ + 1]
             target == DayTarget(mode, frozen, aged, schedule, weather, storm.turb)
  <2>1. dStep \in 0..1439 /\ hour \in 0..23 /\ schedule \in Int
    <3>1. dStep \in 0..1439 /\ hour \in 0..23
      BY <1>2 DEF DayTick, DayInv
    <3> QED
      BY <3>1, ScheduleLemma
  <2>2. storm \in [on : BOOLEAN, wind : Int, turb : Int]
    BY StormLemma
  <2>3. weather \in [on : BOOLEAN, wind : Int, turb : Int]
    BY <2>2 DEF Weathered, DayInv
  <2>4. mode \in {"normal", "freeze", "extreme"}
    BY DEF SafeMode
  <2>5. changed \in Recoveries /\ changed.elapsed <= dStep
    BY <2>1 DEF RecoveryAfterChange, DayInv, Recoveries, DayRated
  <2>6. aged \in Recoveries /\ aged.elapsed = changed.elapsed + 1
    BY <2>5 DEF Recoveries
  <2>7. frozen \in 0..DayRated
    BY DEF FrozenAfterChange, DayInv
  <2>8. target \in Int /\ (mode = "freeze" => target = frozen)
    <3> HIDE DEF frozen, mode, changed, aged, schedule, storm, weather
    <3>1. storm.turb \in Int /\ frozen \in Int
      BY <2>2, <2>7 DEF DayRated
    <3>2. /\ ExtremeCut(SubType(weather), storm.turb) \in Int
          /\ RecoveryTarget(aged, schedule) \in Int /\ aged.on \in BOOLEAN
      BY <2>1, <2>6, <3>1, CutLemma, RecoveryLemma DEF Recoveries
    <3> QED
      BY <2>1, <2>4, <3>1, <3>2 DEF DayTarget
  <2>9. PICK noise \in Int : -100 <= noise /\ noise <= 98 /\ dNoise' = noise /\ dPower' = PowerAfter(target, noise)
    <3>1. DayNoises \subseteq -100..98 /\ dNoise \in -100..98
      BY DayAssumption DEF DayInv
    <3>2. PICK n \in IF dStep % DayHold = 0 THEN DayNoises ELSE {dNoise} :
            dNoise' = n /\ dPower' = PowerAfter(target, n)
      BY <1>2 DEF DayTick
    <3> QED
      BY <3>1, <3>2
  <2>10. /\ dWeather' = weather /\ dMode' = mode /\ dFrozen' = frozen /\ dStep' = dStep + 1
         /\ dRecovery' = IF mode = "normal" /\ changed.on
                         THEN [aged EXCEPT !.on = ~ RecoveryDone(aged, schedule)]
                         ELSE changed
    BY <1>2 DEF DayTick
  <2> HIDE DEF hour, minute, schedule, comm, storm, weather, mode, changed, aged, target
  <2>11. dPower' \in 0..DayRated
    <3>1. target \in Int /\ noise \in Int /\ dPower \in Int
      BY <2>8 DEF DayInv, DayRated
    <3> QED
      BY <2>9, <3>1, PowerLemma
  <2>12. frozen = IF mode = "freeze" /\ dMode # "freeze" THEN dPower ELSE dFrozen
    BY DEF FrozenAfterChange
  <2>13. dMode' = "freeze" => DayAbs(dPower' - dFrozen') <= 340
    <3> SUFFICES ASSUME mode = "freeze" PROVE DayAbs(dPower' - frozen) <= 340
      BY <2>10
    <3> HIDE DEF frozen
    <3>1. frozen \in Int /\ 0 <= frozen /\ frozen <= 4000
      BY <2>7 DEF DayRated
    <3>2. dPower \in 0..4000 /\ dPower - frozen <= 340 /\ frozen - dPower <= 340
      BY <2>12, <3>1 DEF DayInv, DayRated, DayAbs
    <3>3. dPower' = PowerAfter(frozen, noise)
      BY <2>8, <2>9, <3>1
    <3>4. /\ frozen \in Int /\ noise \in Int /\ dPower \in Int
          /\ 0 <= frozen /\ frozen <= 4000 /\ -100 <= noise /\ noise <= 98
      BY <2>9, <3>1, <3>2
    <3> DEFINE q == (3 * (frozen - dPower)) \div 10
               r == DayClamp(dPower + (q + noise), 0, 4000)
    <3>5. q \in Int /\ 10 * q <= 3 * (frozen - dPower) /\ 3 * (frozen - dPower) <= 10 * q + 9
      BY <3>4
    <3>6. PowerAfter(frozen, noise) = DayClamp(dPower + DayClamp(q + noise, -300, 300), 0, 4000)
      BY DEF PowerAfter, DayRated
    <3> HIDE DEF q
    <3>7. q + noise >= -300 /\ q + noise <= 300
      BY <3>2, <3>4, <3>5
    <3>8. DayClamp(q + noise, -300, 300) = q + noise
      BY <3>4, <3>5, <3>7 DEF DayClamp, DayGreater, DayLesser
    <3>9. dPower + q + noise <= frozen + 340 /\ dPower + q + noise >= frozen - 340
      BY <3>2, <3>4, <3>5
    <3>10. DayAbs(r - frozen) <= 340
      BY <3>4, <3>5, <3>9 DEF DayClamp, DayGreater, DayLesser, DayAbs
    <3> QED
      BY <3>1, <3>3, <3>6, <3>8, <3>10
  <2>14. dRecovery' \in Recoveries /\ dRecovery'.elapsed <= dStep'
    <3>1. RecoveryDone(aged, schedule) \in BOOLEAN
      BY <2>1, <2>6, RecoveryLemma
    <3>2. \A b \in BOOLEAN : LET r == [aged EXCEPT !.on = b] IN
            r \in Recoveries /\ r.elapsed = aged.elapsed
      BY <2>6 DEF Recoveries
    <3>3. \/ dRecovery' = changed
          \/ dRecovery' \in Recoveries /\ dRecovery'.elapsed = aged.elapsed
      BY <2>10, <3>1, <3>2
    <3> QED
      BY <2>1, <2>5, <2>6, <2>10, <3>3 DEF Recoveries
  <2>15. DayInv'
    <3>1. dNoise' \in -100..98
      BY <2>9
    <3> QED
      BY <3>1, <2>1, <2>3, <2>4, <2>7, <2>9, <2>10, <2>11, <2>13, <2>14 DEF DayInv
  <2> QED
    BY <2>10, <2>12, <2>15
<1> QED
  BY <1>1, <1>2 DEF DayNext

(* The ranges of the day's variables; a recovery has not lasted longer than *)
(* the day.                                                                 *)
THEOREM DayTypeCorrect == DaySpec => []DayTypeOK
<1>1. DayInv => DayTypeOK
  <2> SUFFICES ASSUME DayInv PROVE DayTypeOK
    OBVIOUS
  <2>1. dRecovery.on \in BOOLEAN /\ dRecovery.elapsed \in Nat
    BY DEF DayInv, Recoveries
  <2>2. dRecovery.elapsed <= 1440
    BY <2>1 DEF DayInv
  <2>3. dRecovery.elapsed \in 0..1440
    BY <2>1, <2>2, SMTT(60)
  <2> QED
    BY <2>1, <2>3 DEF DayInv, DayTypeOK
<1>2. DayInv /\ [DayNext]_dayVars => DayInv'
  BY DayStep
<1> QED
  BY <1>1, <1>2, DayInitInv, PTL DEF DaySpec

(* In an outage the power that was held when communication failed stays the *)
(* target, and no sequence of noise drives the field 3.4 MW away from it.   *)
THEOREM DayFreezeIsHeld == DaySpec => DayFreezeHoldsPower
<1>1. ASSUME DayInv, [DayNext]_dayVars
      PROVE  [dMode' = "freeze" =>
                /\ dFrozen' = IF dMode = "freeze" THEN dFrozen ELSE dPower
                /\ DayAbs(dPower' - dFrozen') <= 340]_dayVars
  BY <1>1, DayStep DEF DayInv
<1>2. DayInv /\ [DayNext]_dayVars => DayInv'
  BY DayStep
<1> QED
  BY <1>1, <1>2, DayInitInv, PTL DEF DaySpec, DayFreezeHoldsPower

-----------------------------------------------------------------------------
(* The exchange sort.  What a definition by recursion over 0..64 yields is  *)
(* shown by its least counterexample.                                      *)

LEMMA LeastNumber ==
  ASSUME NEW T, T \subseteq Nat, T # {}
  PROVE  \E n \in T : \A m \in T : n <= m
<1> DEFINE R == {ss \in Nat \X Nat : ss[1] < ss[2]}
<1>1. IsWellFoundedOn(R, Nat)
  BY NatLessThanWellFounded DEF OpToRel
<1>2. PICK x \in T : \A y \in T : ~ (<<y, x>> \in R)
  <2> QED
    BY <1>1, WFMin
<1>3. \A y \in T : x <= y
  <2> SUFFICES ASSUME NEW y \in T PROVE x <= y
    OBVIOUS
  <2>1. x \in Nat /\ y \in Nat
    OBVIOUS
  <2>2. ~ (y < x)
    <3>1. y < x => <<y, x>> \in R
      BY <2>1
    <3> HIDE DEF R
    <3> QED
      BY <1>2, <3>1
  <2> QED
    BY <2>1, <2>2
<1> QED
  BY <1>3

(* One comparison of fan_sort, the n-th of 64.                                 *)
FanRow(n) == ((n - 1) \div 8) + 1
FanColumn(n) == ((n - 1) % 8) + 1
FanExchanged(s, i, j) ==
  IF i < j /\ DayPriority(s[j]) > DayPriority(s[i])
  THEN [s EXCEPT ![i] = s[j], ![j] = s[i]] ELSE s

LEMMA FanSortDefined ==
  ASSUME NEW fans
  PROVE  \E s : /\ s[0] = fans
                /\ \A n \in 1..64 : s[n] = FanExchanged(s[n - 1], FanRow(n), FanColumn(n))
                /\ FanSort(fans) = s[64]
<1> DEFINE Step(n, v) == FanExchanged(v, FanRow(n), FanColumn(n))
           Is(g, k) == g = [n \in 0..k |-> IF n = 0 THEN fans ELSE Step(n, g[n - 1])]
           T == {k \in Nat : ~ \E g : Is(g, k)}
<1> HIDE DEF Step
<1>1. T = {}
  <2> SUFFICES ASSUME T # {} PROVE FALSE
    OBVIOUS
  <2>1. PICK k \in T : \A m \in T : k <= m
    <3> HIDE DEF T
    <3>1. T \subseteq Nat
      BY DEF T
    <3> QED
      BY <3>1, LeastNumber
  <2>2. CASE k = 0
    <3>1. Is([n \in 0..0 |-> fans], 0)
      <4>1. \A n \in 0..0 : n = 0
        BY SMT
      <4> QED
        BY <4>1, Zenon
    <3> QED
      BY <3>1, <2>2
  <2>3. CASE k # 0
    <3>1. k - 1 \in Nat /\ k - 1 \notin T /\ k \in Nat
      <4>1. T \subseteq Nat
        BY Zenon
      <4> HIDE DEF T
      <4>2. k \in Nat /\ k - 1 \in Nat
        BY <2>1, <2>3, <4>1
      <4>3. ~ (k <= k - 1)
        BY <4>2
      <4> QED
        BY <2>1, <4>2, <4>3, Zenon
    <3>2. PICK g : g = [n \in 0..(k - 1) |-> IF n = 0 THEN fans ELSE Step(n, g[n - 1])]
      BY <3>1
    <3> DEFINE h == [n \in 0..k |-> IF n = k THEN Step(n, g[k - 1]) ELSE g[n]]
    <3>3. \A n \in 0..k : h[n] = IF n = 0 THEN fans ELSE Step(n, h[n - 1])
      <4> SUFFICES ASSUME NEW n \in 0..k
                   PROVE  h[n] = IF n = 0 THEN fans ELSE Step(n, h[n - 1])
        OBVIOUS
      <4>1. CASE n = k
        <5>1. k - 1 \in 0..k /\ k - 1 # k /\ k # 0
          BY <3>1, <2>3
        <5> QED
          BY <4>1, <5>1, Zenon
      <4>2. CASE n # k
        <5>1. n \in 0..(k - 1) /\ (n # 0 => n - 1 \in 0..k /\ n - 1 # k)
          BY <3>1, <4>2
        <5>2. g[n] = IF n = 0 THEN fans ELSE Step(n, g[n - 1])
          BY <5>1, <3>2, Zenon
        <5> QED
          BY <5>1, <5>2, <4>2, Zenon
      <4> QED
        BY <4>1, <4>2
    <3>4. Is(h, k)
      BY <3>3, Zenon
    <3> QED
      BY <3>4
  <2> QED
    BY <2>2, <2>3
<1>2. \E g : Is(g, 64)
  <2>1. 64 \in Nat
    BY SMT
  <2> QED
    BY <1>1, <2>1
<1> DEFINE s == CHOOSE g : Is(g, 64)
<1>3. Is(s, 64)
  <2> HIDE DEF Is
  <2> QED
    BY <1>2
<1>4. FanSort(fans) = s[64]
  BY Zenon DEF FanSort, Step, FanExchanged, FanRow, FanColumn
<1> HIDE DEF s
<1>5. 0 \in 0..64 /\ \A n \in 1..64 : n \in 0..64 /\ n # 0
  BY SMT
<1>6. s[0] = fans /\ \A n \in 1..64 : s[n] = Step(n, s[n - 1])
  BY <1>3, <1>5, Zenon
<1> QED
  BY <1>4, <1>6 DEF Step

FanStatuses == {"mppt", "uniform", "locked", "speed"}
FanRecords == [id : Int, best : BOOLEAN, power : Int, status : FanStatuses, stopped : Int]
FanArray(s) == s \in [1..8 -> FanRecords]
(* Two turbines are efficient upwind ones, wherever they stand in the array.   *)
TwoBest(s) ==
  \E a \in 1..8, b \in 1..8 :
    a # b /\ \A i \in 1..8 : s[i].best <=> (i = a \/ i = b)

(* After the comparison of i and j: whoever was passed over is an efficient    *)
(* one, or no efficient one stands behind.                                     *)
FanSorted(s, i, j) ==
  /\ \A k \in 1..8, m \in 1..8 : k < i /\ k < m /\ s[m].best => s[k].best
  /\ \A m \in 1..8 : i < m /\ m <= j /\ s[m].best => s[i].best

LEMMA FanExchangeLemma ==
  ASSUME NEW s, FanArray(s), NEW i \in 1..8, NEW j \in 1..8
  PROVE  LET r == FanExchanged(s, i, j) IN
         /\ FanArray(r)
         /\ \/ r = s /\ ~ (i < j /\ s[j].best /\ ~ s[i].best)
            \/ /\ i < j /\ s[j].best /\ ~ s[i].best
               /\ r[i] = s[j] /\ r[j] = s[i] /\ \A k \in 1..8 : k # i /\ k # j => r[k] = s[k]
<1> DEFINE r == [s EXCEPT ![i] = s[j], ![j] = s[i]]
<1>1. s[i] \in FanRecords /\ s[j] \in FanRecords
  BY DEF FanArray
<1>2. DayPriority(s[j]) > DayPriority(s[i]) <=> (s[j].best /\ ~ s[i].best)
  BY SMT DEF DayPriority
<1>3. CASE i < j /\ s[j].best /\ ~ s[i].best
  <2>1. i # j
    BY <1>3
  <2>2. /\ r \in [1..8 -> FanRecords]
        /\ r[i] = s[j] /\ r[j] = s[i] /\ \A k \in 1..8 : k # i /\ k # j => r[k] = s[k]
    BY <1>1, <2>1 DEF FanArray
  <2>3. FanExchanged(s, i, j) = r
    BY <1>2, <1>3, Zenon DEF FanExchanged
  <2> HIDE DEF r
  <2> QED
    BY <1>3, <2>2, <2>3, Zenon DEF FanArray
<1>4. CASE ~ (i < j /\ s[j].best /\ ~ s[i].best)
  <2>1. FanExchanged(s, i, j) = s
    BY <1>2, <1>4, Zenon DEF FanExchanged
  <2> QED
    BY <1>4, <2>1, Zenon
<1> QED
  BY <1>3, <1>4, Zenon

LEMMA FanExchangeKeeps ==
  ASSUME NEW s, FanArray(s), TwoBest(s), NEW i \in 1..8, NEW j \in 1..8
  PROVE  /\ FanArray(FanExchanged(s, i, j)) /\ TwoBest(FanExchanged(s, i, j))
         /\ FanSorted(s, i, j - 1) => FanSorted(FanExchanged(s, i, j), i, j)
<1> DEFINE r == FanExchanged(s, i, j)
<1>1. /\ FanArray(r)
      /\ \/ r = s /\ ~ (i < j /\ s[j].best /\ ~ s[i].best)
         \/ /\ i < j /\ s[j].best /\ ~ s[i].best
            /\ r[i] = s[j] /\ r[j] = s[i] /\ \A k \in 1..8 : k # i /\ k # j => r[k] = s[k]
  BY FanExchangeLemma
<1> HIDE DEF r
<1>2. CASE r = s /\ ~ (i < j /\ s[j].best /\ ~ s[i].best)
  <2>1. FanSorted(s, i, j - 1) => FanSorted(s, i, j)
    BY <1>2 DEF FanSorted
  <2> QED
    BY <1>1, <1>2, <2>1 DEF r
<1>3. CASE /\ i < j /\ s[j].best /\ ~ s[i].best
           /\ r[i] = s[j] /\ r[j] = s[i] /\ \A k \in 1..8 : k # i /\ k # j => r[k] = s[k]
  <2>1. TwoBest(r)
    <3>1. PICK a \in 1..8, b \in 1..8 : a # b /\ \A k \in 1..8 : s[k].best <=> (k = a \/ k = b)
      BY DEF TwoBest
    <3>2. CASE j = a
      <4>1. i # b /\ \A k \in 1..8 : r[k].best <=> (k = i \/ k = b)
        BY <1>3, <3>1, <3>2
      <4> QED
        BY <4>1 DEF TwoBest
    <3>3. CASE j = b
      <4>1. a # i /\ \A k \in 1..8 : r[k].best <=> (k = a \/ k = i)
        BY <1>3, <3>1, <3>3
      <4> QED
        BY <4>1 DEF TwoBest
    <3> QED
      BY <1>3, <3>1, <3>2, <3>3
  <2>2. ASSUME FanSorted(s, i, j - 1)
        PROVE  FanSorted(r, i, j)
    <3>1. \A k \in 1..8 : k < i => s[k].best /\ r[k].best
      BY <1>3, <2>2 DEF FanSorted
    <3>2. r[i].best
      BY <1>3
    <3> QED
      BY <3>1, <3>2 DEF FanSorted
  <2> QED
    BY <1>1, <2>1, <2>2 DEF r
<1> QED
  BY <1>1, <1>2, <1>3

LEMMA FanNext ==
  ASSUME NEW n \in 1..64
  PROVE  /\ FanRow(n) \in 1..8 /\ FanColumn(n) \in 1..8
         /\ \/ FanRow(n) = FanRow(n - 1) /\ FanColumn(n) - 1 = FanColumn(n - 1)
            \/ FanRow(n) = FanRow(n - 1) + 1 /\ FanColumn(n) = 1 /\ FanColumn(n - 1) = 8
         /\ n = 1 => FanRow(n) = 1 /\ FanColumn(n) = 1
         /\ n = 64 => FanRow(n) = 8 /\ FanColumn(n) = 8
BY SMT DEF FanRow, FanColumn

(* The exchange sort brings the two to the front.                              *)
LEMMA FanSortLemma ==
  ASSUME NEW fans, FanArray(fans), TwoBest(fans)
  PROVE  /\ FanArray(FanSort(fans)) /\ TwoBest(FanSort(fans))
         /\ \A i \in 1..8 : FanSort(fans)[i].best => i <= 2
<1>1. PICK s : /\ s[0] = fans
               /\ \A n \in 1..64 : s[n] = FanExchanged(s[n - 1], FanRow(n), FanColumn(n))
               /\ FanSort(fans) = s[64]
  BY FanSortDefined
<1> DEFINE Good(n) == /\ FanArray(s[n]) /\ TwoBest(s[n])
                      /\ n # 0 => FanSorted(s[n], FanRow(n), FanColumn(n))
           T == {n \in 0..64 : ~ Good(n)}
<1>2. T = {}
  <2> SUFFICES ASSUME T # {} PROVE FALSE
    OBVIOUS
  <2>1. PICK n \in T : \A m \in T : n <= m
    <3>1. T \subseteq Nat
      BY SMT
    <3> HIDE DEF T
    <3> QED
      BY <3>1, LeastNumber
  <2>2. n # 0
    BY <1>1
  <2>3. n \in 1..64 /\ n - 1 \in 0..64 /\ n - 1 \notin T
    BY <2>1, <2>2
  <2>4. Good(n - 1)
    BY <2>3
  <2> DEFINE i == FanRow(n)
             j == FanColumn(n)
  <2>5. i \in 1..8 /\ j \in 1..8
    BY <2>3, FanNext
  <2>6. FanSorted(s[n - 1], i, j - 1)
    <3> HIDE DEF i, j
    <3>1. CASE n = 1
      <4>1. i = 1 /\ j = 1
        BY <2>3, <3>1, FanNext DEF i, j
      <4>2. \A k \in 1..8 : ~ (k < i)
        BY <4>1
      <4>3. \A m \in 1..8 : ~ (i < m /\ m <= j - 1)
        BY <4>1
      <4> QED
        BY <4>2, <4>3, Zenon DEF FanSorted
    <3>2. CASE n # 1
      <4>1. FanSorted(s[n - 1], FanRow(n - 1), FanColumn(n - 1))
        BY <2>3, <2>4, <3>2
      <4>2. CASE i = FanRow(n - 1) /\ j - 1 = FanColumn(n - 1)
        BY <4>1, <4>2, Zenon
      <4>3. CASE i = FanRow(n - 1) + 1 /\ j = 1 /\ FanColumn(n - 1) = 8
        <5>1. n - 1 \in 1..64 /\ FanRow(n - 1) \in 1..8
          BY <2>3, <3>2, FanNext
        <5> DEFINE p == FanRow(n - 1)
        <5> HIDE DEF p
        <5>2. FanSorted(s[n - 1], p, 8) /\ i = p + 1 /\ p \in 1..8
          BY <4>1, <4>3, <5>1 DEF p
        <5>3. \A k \in 1..8, m \in 1..8 : k < i /\ k < m /\ s[n - 1][m].best => s[n - 1][k].best
          <6> SUFFICES ASSUME NEW k \in 1..8, NEW m \in 1..8, k < i, k < m, s[n - 1][m].best
                       PROVE  s[n - 1][k].best
            OBVIOUS
          <6>1. k < p \/ k = p
            BY <5>2
          <6>2. k = p => p < m /\ m <= 8
            BY <5>2
          <6> QED
            BY <5>2, <6>1, <6>2, Zenon DEF FanSorted
        <5>4. \A m \in 1..8 : ~ (i < m /\ m <= j - 1)
          BY <4>3, <5>2
        <5> QED
          BY <5>3, <5>4, Zenon DEF FanSorted
      <4> QED
        BY <2>3, <4>2, <4>3, FanNext DEF i, j
    <3> QED
      BY <3>1, <3>2
  <2>7. s[n] = FanExchanged(s[n - 1], i, j)
    BY <1>1, <2>3
  <2>8. FanArray(s[n]) /\ TwoBest(s[n]) /\ FanSorted(s[n], i, j)
    BY <2>4, <2>5, <2>6, <2>7, FanExchangeKeeps
  <2>9. Good(n)
    BY <2>8
  <2> QED
    BY <2>9
<1>3. Good(64)
  <2>1. 64 \in 0..64
    BY SMT
  <2> QED
    BY <1>2, <2>1
<1>4. FanSorted(s[64], 8, 8)
  <2>1. 64 \in 1..64 /\ 64 # 0
    BY SMT
  <2> QED
    BY <1>3, <2>1, FanNext
<1>5. \A i \in 1..8 : s[64][i].best => i <= 2
  <2> SUFFICES ASSUME NEW i \in 1..8, s[64][i].best, ~ (i <= 2)
               PROVE  FALSE
    OBVIOUS
  <2>1. s[64][1].best /\ s[64][2].best
    BY <1>4 DEF FanSorted
  <2>2. PICK a \in 1..8, b \in 1..8 : \A k \in 1..8 : s[64][k].best <=> (k = a \/ k = b)
    BY <1>3 DEF TwoBest
  <2> QED
    BY <2>1, <2>2
<1> QED
  BY <1>1, <1>3, <1>5

(* What a mode gives the turbine at place i of the sorted array.               *)
FanSet(r, p, q) == [r EXCEPT !.power = p, !.status = q]
FanStopped(r) == [r EXCEPT !.power = 0, !.status = "locked", !.stopped = 0]
FanGiven(r, i, mode, ratio) ==
  CASE mode = "uniform" -> FanSet(r, 100 - ratio, "uniform")
    [] mode = "part_run" /\ i <= (8 * (100 - ratio)) \div 100 -> FanSet(r, 100, "mppt")
    [] mode = "part_run" /\ i > (8 * (100 - ratio)) \div 100 -> FanStopped(r)
    [] mode = "rotor" -> FanSet(r, 70, "speed")

LEMMA FanSetLemma ==
  ASSUME NEW r \in FanRecords, NEW p \in Int, NEW q \in FanStatuses
  PROVE  FanSet(r, p, q) \in FanRecords /\ FanSet(r, p, q).best = r.best /\ FanSet(r, p, q).status = q
BY DEF FanSet, FanRecords

LEMMA FanStoppedLemma ==
  ASSUME NEW r \in FanRecords
  PROVE  FanStopped(r) \in FanRecords /\ FanStopped(r).best = r.best /\ FanStopped(r).status = "locked"
<1> DEFINE m == [r EXCEPT !.power = 0, !.status = "locked"]
<1>1. "locked" \in FanStatuses
  BY DEF FanStatuses
<1>2. m \in FanRecords /\ m.best = r.best /\ m.status = "locked"
  <2>1. m = FanSet(r, 0, "locked")
    BY Zenon DEF FanSet
  <2> HIDE DEF m
  <2>2. 0 \in Int
    OBVIOUS
  <2> QED
    BY <1>1, <2>1, <2>2, FanSetLemma, Zenon
<1>3. FanStopped(r) = [m EXCEPT !.stopped = 0]
  BY DEF FanStopped
<1> HIDE DEF m
<1> QED
  BY <1>2, <1>3 DEF FanRecords

LEMMA FanStatusLemma == FanStatuses = {"mppt", "uniform", "locked", "speed"}
BY DEF FanStatuses

LEMMA FanGivenLemma ==
  ASSUME NEW r \in FanRecords, NEW i \in 1..8, NEW ratio \in Int,
         NEW mode \in {"uniform", "part_run", "rotor"}, mode = "part_run" => ratio = 30
  PROVE  /\ FanGiven(r, i, mode, ratio) \in FanRecords
         /\ FanGiven(r, i, mode, ratio).best = r.best
         /\ FanGiven(r, i, mode, ratio).status = "locked" => mode = "part_run" /\ i > 5
         /\ mode = "part_run" /\ i <= 5 => FanGiven(r, i, mode, ratio).status = "mppt"
<1>1. CASE mode = "uniform"
  <2> DEFINE n == FanSet(r, 100 - ratio, "uniform")
  <2>0. "uniform" \in FanStatuses /\ 100 - ratio \in Int
    BY FanStatusLemma
  <2>1. n \in FanRecords /\ n.best = r.best /\ n.status = "uniform"
    BY <2>0, FanSetLemma, Zenon
  <2>2. FanGiven(r, i, mode, ratio) = n
    BY <1>1, Zenon DEF FanGiven
  <2> HIDE DEF n
  <2> QED
    BY <1>1, <2>1, <2>2
<1>2. CASE mode = "rotor"
  <2> DEFINE n == FanSet(r, 70, "speed")
  <2>0. "speed" \in FanStatuses /\ 70 \in Int
    BY FanStatusLemma
  <2>1. n \in FanRecords /\ n.best = r.best /\ n.status = "speed"
    BY <2>0, FanSetLemma, Zenon
  <2>2. FanGiven(r, i, mode, ratio) = n
    BY <1>2 DEF FanGiven
  <2> HIDE DEF n
  <2> QED
    BY <1>2, <2>1, <2>2
<1>3. CASE mode = "part_run"
  <2>1. (8 * (100 - ratio)) \div 100 = 5
    BY <1>3
  <2>2. CASE i <= 5
    <3> DEFINE n == FanSet(r, 100, "mppt")
    <3>0. "mppt" \in FanStatuses /\ 100 \in Int
      BY FanStatusLemma
    <3>1. n \in FanRecords /\ n.best = r.best /\ n.status = "mppt"
      BY <3>0, FanSetLemma, Zenon
    <3>2. FanGiven(r, i, mode, ratio) = n
      BY <1>3, <2>1, <2>2 DEF FanGiven
    <3> HIDE DEF n
    <3> QED
      BY <1>3, <2>2, <3>1, <3>2
  <2>3. CASE i > 5
    <3> DEFINE n == FanStopped(r)
    <3>1. n \in FanRecords /\ n.best = r.best /\ n.status = "locked"
      BY FanStoppedLemma, Zenon
    <3>2. FanGiven(r, i, mode, ratio) = n
      BY <1>3, <2>1, <2>3 DEF FanGiven
    <3> HIDE DEF n
    <3> QED
      BY <1>3, <2>3, <3>1, <3>2
  <2> QED
    BY <2>2, <2>3
<1> QED
  BY <1>1, <1>2, <1>3, Zenon

(* What DayBestTurbinesRun says of an array of turbines.                       *)
BestRun(s) ==
  (\E i \in 1..8 : s[i].status = "locked") => \A i \in 1..8 : s[i].best => s[i].status = "mppt"

LEMMA FansInModeLemma ==
  ASSUME NEW fans, FanArray(fans), TwoBest(fans), NEW hour \in 0..23
  PROVE  LET f == FansInMode(fans, CurtailModeAt(hour), CurtailRatio(hour))
         IN  FanArray(f) /\ TwoBest(f) /\ BestRun(f)
<1> DEFINE s == FanSort(fans)
           mode == CurtailModeAt(hour)
           ratio == CurtailRatio(hour)
           f == FansInMode(fans, mode, ratio)
<1>1. /\ FanArray(s) /\ TwoBest(s)
      /\ \A i \in 1..8 : s[i].best => i <= 2
  BY FanSortLemma
<1>2. mode \in {"uniform", "part_run", "rotor"} /\ ratio \in Int /\ (mode = "part_run" => ratio = 30)
  BY DEF CurtailModeAt, CurtailRatio
<1>3. f = [i \in 1..8 |-> FanGiven(s[i], i, mode, ratio)]
  BY Zenon DEF FansInMode, FanGiven, FanSet, FanStopped
<1> HIDE DEF s, mode, ratio, f
<1>4. \A i \in 1..8 : s[i] \in FanRecords
  BY <1>1 DEF FanArray
<1>5. \A i \in 1..8 : /\ f[i] \in FanRecords /\ f[i].best = s[i].best
                      /\ f[i].status = "locked" => mode = "part_run" /\ i > 5
                      /\ mode = "part_run" /\ i <= 5 => f[i].status = "mppt"
  <2> SUFFICES ASSUME NEW i \in 1..8
               PROVE  /\ f[i] \in FanRecords /\ f[i].best = s[i].best
                      /\ f[i].status = "locked" => mode = "part_run" /\ i > 5
                      /\ mode = "part_run" /\ i <= 5 => f[i].status = "mppt"
    OBVIOUS
  <2>1. f[i] = FanGiven(s[i], i, mode, ratio)
    BY <1>3, Zenon
  <2>2. s[i] \in FanRecords
    BY <1>4
  <2> DEFINE g == FanGiven(s[i], i, mode, ratio)
  <2>3. /\ g \in FanRecords /\ g.best = s[i].best
        /\ g.status = "locked" => mode = "part_run" /\ i > 5
        /\ mode = "part_run" /\ i <= 5 => g.status = "mppt"
    BY <1>2, <2>2, FanGivenLemma
  <2> QED
    BY <2>1, <2>3, Zenon
<1>6. FanArray(f)
  BY <1>3, <1>5 DEF FanArray
<1>7. TwoBest(f)
  BY <1>1, <1>5 DEF TwoBest
<1>8. BestRun(f)
  <2> SUFFICES ASSUME NEW k \in 1..8, f[k].status = "locked", NEW i \in 1..8, f[i].best
               PROVE  f[i].status = "mppt"
    BY DEF BestRun
  <2>1. mode = "part_run"
    BY <1>5
  <2>2. i <= 2
    BY <1>1, <1>5
  <2>3. i <= 5
    BY <2>2
  <2> QED
    BY <1>5, <2>1, <2>3
<1> QED
  BY <1>6, <1>7, <1>8 DEF f, mode, ratio

LEMMA FansRestartedLemma ==
  ASSUME NEW fans, FanArray(fans), TwoBest(fans), BestRun(fans)
  PROVE  LET f == FansRestarted(fans) IN FanArray(f) /\ TwoBest(f) /\ BestRun(f)
<1> DEFINE f == FansRestarted(fans)
           n(i) == FanSet(fans[i], 100, "mppt")
<1>1. f = [i \in 1..8 |-> IF fans[i].status = "locked" /\ dStep - fans[i].stopped >= DayMinStop
                          THEN n(i) ELSE fans[i]]
  BY Zenon DEF FansRestarted, FanSet
<1>2. \A i \in 1..8 : fans[i] \in FanRecords
  BY DEF FanArray
<1>3. \A i \in 1..8 : n(i) \in FanRecords /\ n(i).best = fans[i].best /\ n(i).status = "mppt"
  <2>1. "mppt" \in FanStatuses /\ 100 \in Int
    BY FanStatusLemma
  <2> QED
    BY <1>2, <2>1, FanSetLemma, Zenon
<1> HIDE DEF f, n
<1>4. \A i \in 1..8 : /\ f[i] \in FanRecords /\ f[i].best = fans[i].best
                      /\ f[i] = fans[i] \/ (f[i].status = "mppt" /\ fans[i].status = "locked")
  BY <1>1, <1>2, <1>3, Zenon
<1>5. FanArray(f)
  BY <1>1, <1>4 DEF FanArray
<1>6. TwoBest(f)
  BY <1>4 DEF TwoBest
<1>7. BestRun(f)
  <2> SUFFICES ASSUME NEW k \in 1..8, f[k].status = "locked", NEW i \in 1..8, f[i].best
               PROVE  f[i].status = "mppt"
    BY DEF BestRun
  <2>1. fans[k].status = "locked" /\ fans[i].best
    BY <1>4
  <2> QED
    BY <1>4, <2>1 DEF BestRun
<1> QED
  BY <1>5, <1>6, <1>7 DEF f

DayFansInv ==
  /\ dStep \in 0..1440
  /\ FanArray(dFans) /\ TwoBest(dFans)
  /\ DayBestTurbinesRun

LEMMA DayFansInit == DayInit => DayFansInv
<1> SUFFICES ASSUME DayInit PROVE DayFansInv
  OBVIOUS
<1>1. dFans = [i \in 1..8 |-> [id |-> i, best |-> i \in {3, 4}, power |-> 100,
                               status |-> "mppt", stopped |-> 0]]
  BY Zenon DEF DayInit
<1>2. \A i \in 1..8 : dFans[i] \in FanRecords /\ (dFans[i].best <=> i = 3 \/ i = 4) /\ dFans[i].status = "mppt"
  <2> SUFFICES ASSUME NEW i \in 1..8
               PROVE  dFans[i] \in FanRecords /\ (dFans[i].best <=> i = 3 \/ i = 4) /\ dFans[i].status = "mppt"
    OBVIOUS
  <2>1. dFans[i] = [id |-> i, best |-> i \in {3, 4}, power |-> 100, status |-> "mppt", stopped |-> 0]
    BY <1>1, Zenon
  <2>2. "mppt" \in FanStatuses /\ i \in Int /\ 100 \in Int /\ 0 \in Int
    BY FanStatusLemma
  <2>3. (i \in {3, 4}) \in BOOLEAN
    OBVIOUS
  <2>4. dFans[i].best <=> i = 3 \/ i = 4
    <3>1. \A b : [id |-> i, best |-> b, power |-> 100, status |-> "mppt", stopped |-> 0].best = b
      OBVIOUS
    <3>2. dFans[i].best = (i \in {3, 4})
      BY <2>1, <3>1, Zenon
    <3> QED
      BY <3>2
  <2> QED
    BY <2>1, <2>2, <2>3, <2>4 DEF FanRecords
<1>3. FanArray(dFans)
  BY <1>1, <1>2 DEF FanArray
<1>4. TwoBest(dFans)
  <2>1. 3 \in 1..8 /\ 4 \in 1..8 /\ 3 # 4
    BY SMT
  <2> QED
    BY <1>2, <2>1, Zenon DEF TwoBest
<1>5. DayBestTurbinesRun
  BY <1>2 DEF DayBestTurbinesRun
<1>6. dStep \in 0..1440
  BY SMT DEF DayInit
<1> QED
  BY <1>3, <1>4, <1>5, <1>6 DEF DayFansInv

LEMMA DayFansStep == DayFansInv /\ [DayNext]_dayVars => DayFansInv'
<1> SUFFICES ASSUME DayFansInv, [DayNext]_dayVars PROVE DayFansInv'
  OBVIOUS
<1>1. CASE UNCHANGED dayVars
  <2>1. dStep' = dStep /\ dFans' = dFans
    BY <1>1, Zenon DEF dayVars
  <2>2. FanArray(dFans') /\ TwoBest(dFans') /\ BestRun(dFans')
    <3>1. FanArray(dFans) /\ TwoBest(dFans) /\ BestRun(dFans)
      BY DEF DayFansInv, DayBestTurbinesRun, BestRun
    <3> QED
      BY <2>1, <3>1, Zenon
  <2>3. dStep' \in 0..1440
    BY <2>1 DEF DayFansInv
  <2>4. DayBestTurbinesRun'
    BY <2>2 DEF DayBestTurbinesRun, BestRun
  <2>5. FanArray(dFans)' /\ TwoBest(dFans)'
    BY <2>2 DEF FanArray, TwoBest
  <2> QED
    BY <2>3, <2>4, <2>5 DEF DayFansInv
<1>2. CASE DayTick
  <2> DEFINE hour == dStep \div 60
             curtail == CurtailModeAt(hour)
             given == FansInMode(dFans, curtail, CurtailRatio(hour))
  <2>1. dStep \in 0..1439 /\ dStep' = dStep + 1
    <3>1. dStep < 1440 /\ dStep' = dStep + 1 /\ dStep \in 0..1440
      BY <1>2 DEF DayTick, DayFansInv
    <3> QED
      BY <3>1, SMT
  <2>2. hour \in 0..23 /\ dStep' \in 0..1440
    BY <2>1, SMT
  <2>3. PICK fans : /\ fans = given \/ fans = dFans
                    /\ dFans' = fans \/ dFans' = FansRestarted(fans)
    <3> DEFINE mode == SafeMode(CommHealthy(hour, dStep % 60), Weathered(StormAt(hour, dStep % 60)).on)
               switched == curtail # dLast.curtail \/ mode # dLast.safety
               fans == IF switched THEN given ELSE dFans
    <3>1. dFans' = IF curtail # "part_run" THEN FansRestarted(fans) ELSE fans
      BY <1>2 DEF DayTick
    <3> HIDE DEF switched, given, curtail
    <3>2. fans = given \/ fans = dFans
      OBVIOUS
    <3> HIDE DEF fans
    <3> QED
      BY <3>1, <3>2, Zenon
  <2>4. FanArray(dFans) /\ TwoBest(dFans) /\ BestRun(dFans)
    BY DEF DayFansInv, DayBestTurbinesRun, BestRun
  <2>5. FanArray(given) /\ TwoBest(given) /\ BestRun(given)
    <3> HIDE DEF hour
    <3> QED
      BY <2>2, <2>4, FansInModeLemma, Zenon
  <2> HIDE DEF hour, curtail, given
  <2>6. FanArray(fans) /\ TwoBest(fans) /\ BestRun(fans)
    BY <2>3, <2>4, <2>5, Zenon
  <2>7. FanArray(FansRestarted(fans)) /\ TwoBest(FansRestarted(fans)) /\ BestRun(FansRestarted(fans))
    BY <2>6, FansRestartedLemma, Zenon
  <2>8. FanArray(dFans') /\ TwoBest(dFans') /\ BestRun(dFans')
    BY <2>3, <2>6, <2>7, Zenon
  <2> QED
    <3>1. DayBestTurbinesRun'
      BY <2>8 DEF DayBestTurbinesRun, BestRun
    <3>2. FanArray(dFans)' /\ TwoBest(dFans)'
      BY <2>8 DEF FanArray, TwoBest
    <3> QED
      BY <2>2, <3>1, <3>2 DEF DayFansInv
<1> QED
  BY <1>1, <1>2, Zenon DEF DayNext

(* For the whole day, whatever the noise: part running never stops an          *)
(* efficient upwind turbine, because the exchanges of fan_sort bring both of   *)
(* them to the front at every mode change (fan_control.h:21-50).               *)
THEOREM DayBestRun == DaySpec => []DayBestTurbinesRun
<1>1. DayFansInv => DayBestTurbinesRun
  BY Zenon DEF DayFansInv
<1> QED
  BY DayFansInit, DayFansStep, <1>1, PTL DEF DaySpec
===============================================================================
