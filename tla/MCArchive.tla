------------------------------- MODULE MCArchive -------------------------------
(* The archived programs side by side: one behaviour runs one of them.  They    *)
(* share no state; one run of TLC checks them all.                              *)
EXTENDS SafetyDay, SafetyDemo, CurtailmentFarm, RampTracking, FreqRegulation,
        HilRunner, BaselineFarm, WindDisturbance

VARIABLE running        \* the program this behaviour runs

Programs == {"baseline", "disturbance", "frequency", "ramp", "curtailment",
             "day", "demo", "hil"}

\* Values a .cfg cannot write.
SmallNoises == {-100, 98}
SmallGusts == {-50, 49}
SmallErrors == {-400, 392}
\* A farm short of power with cool turbines, and one with power to spare.
InOrder == <<1, 2, 3, 4, 5, 6, 7, 8, 9, 10>>
Backward == <<10, 9, 8, 7, 6, 5, 4, 3, 2, 1>>
ShortDraw == [noise |-> [i \in 1..10 |-> IF i = 1 THEN -120 ELSE -24],
              heat |-> [i \in 1..10 |-> [gear |-> -2, pitch |-> -1]],
              order |-> InOrder, stops |-> Backward]
AmpleDraw == [noise |-> [i \in 1..10 |-> IF i = 10 THEN 120 ELSE 24],
              heat |-> [i \in 1..10 |-> [gear |-> 2, pitch |-> 1]],
              order |-> Backward, stops |-> InOrder]
TwoDraws == {ShortDraw, AmpleDraw}
ThreeCommands == {[target |-> 2000, type |-> 1], [target |-> 6000, type |-> 2],
                  [target |-> 0, type |-> 0]}
HealthyRow == [pv |-> 3000, plan |-> 9000, irr |-> 1000, freq |-> 0, comm |-> 1]
TwoRows == {HealthyRow, [pv |-> 4320, plan |-> 6000, irr |-> 1080, freq |-> 20, comm |-> 0]}
TwoTargets == {[ess |-> 900, pv |-> 2000, scene |-> 2],
               [ess |-> -900, pv |-> 0, scene |-> 1]}
TwoWinds == {-13, 15}

archiveVars == <<running, dayVars, demoVars, cfVars, rtVars, frVars, hilVars, b1Vars,
                 wdVars>>

Init ==
  /\ running \in Programs
  /\ DayInit /\ MoInit /\ CfInit /\ RtInit /\ FrInit /\ HilInit /\ B1Init /\ WdInit
  \* a program that does not run has only its first initial state
  /\ running # "ramp" => rtProgram = "v2"
  /\ running # "frequency" => frLogger = "cached"
  /\ running # "hil" => hilScene = 1
  /\ running # "curtailment" => cfDraw = ShortDraw
  /\ running # "disturbance" => wdScene = "rise"

RunDay == running = "day" /\ DayNext
          /\ UNCHANGED <<running, demoVars, cfVars, rtVars, frVars, hilVars, b1Vars, wdVars>>
RunDemo == running = "demo" /\ MoNext
           /\ UNCHANGED <<running, dayVars, cfVars, rtVars, frVars, hilVars, b1Vars, wdVars>>
RunCurtailment == running = "curtailment" /\ CfNext
           /\ UNCHANGED <<running, dayVars, demoVars, rtVars, frVars, hilVars, b1Vars, wdVars>>
RunRamp == running = "ramp" /\ RtNext
           /\ UNCHANGED <<running, dayVars, demoVars, cfVars, frVars, hilVars, b1Vars, wdVars>>
RunFrequency == running = "frequency" /\ FrNext
           /\ UNCHANGED <<running, dayVars, demoVars, cfVars, rtVars, hilVars, b1Vars, wdVars>>
RunHil == running = "hil" /\ HilNext
           /\ UNCHANGED <<running, dayVars, demoVars, cfVars, rtVars, frVars, b1Vars, wdVars>>
RunBaseline == running = "baseline" /\ B1Next
           /\ UNCHANGED <<running, dayVars, demoVars, cfVars, rtVars, frVars, hilVars, wdVars>>
RunDisturbance == running = "disturbance" /\ WdNext
           /\ UNCHANGED <<running, dayVars, demoVars, cfVars, rtVars, frVars, hilVars, b1Vars>>

Next == RunDay \/ RunDemo \/ RunCurtailment \/ RunRamp \/ RunFrequency \/ RunHil
        \/ RunBaseline \/ RunDisturbance
Spec == Init /\ [][Next]_archiveVars

\* The ranges of every program's state, among them that the battery of the
\* runners stays between empty and full and that no wind turbine is ever
\* driven past its rating.
ArchiveTypeOK ==
  /\ running \in Programs
  /\ DayTypeOK /\ MoTypeOK /\ CfTypeOK /\ RtTypeOK /\ FrTypeOK /\ HilTypeOK
  /\ B1TypeOK /\ WdTypeOK
================================================================================
