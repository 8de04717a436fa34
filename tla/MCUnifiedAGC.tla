---------------------------- MODULE MCUnifiedAGC ----------------------------
(***************************************************************************)
(* UnifiedAGC on small sets of inputs.  The coarse instance counts power   *)
(* in MW and rounds the constants of the code to that; the fine instance   *)
(* counts in tenths of a megawatt and has the exact constants.  Wind is in *)
(* half metres per second, frequency in hundredths of a hertz off 50 Hz.   *)
(***************************************************************************)
EXTENDS UnifiedAGC

(* The points as rt_db_init leaves them: all 0 except COMM.IsHealthy.      *)
MCStartup ==
  [freq |-> -5000, wind |-> 0, comm |-> 1, extreme |-> 0, curtail |-> 0, sched |-> 0]

Silent == [p \in Points |-> {}]

SafetyInputs ==
  [Silent EXCEPT !["wind"] = {24, 50, 52}, !["comm"] = {0, 1},
                 !["extreme"] = {0, 2}, !["sched"] = {40}]
WeatherInputs == [Silent EXCEPT !["wind"] = {24, 52}, !["extreme"] = {0, 3}]
OutageInputs == [Silent EXCEPT !["comm"] = {0, 1}, !["sched"] = {250}]
ScheduleInputs == [Silent EXCEPT !["sched"] = {150, 250}]
DispatchInputs ==
  [Silent EXCEPT !["freq"] = {12}, !["wind"] = {30}, !["curtail"] = {12}, !["sched"] = {8, 22, 40}]

CoarseExtreme == <<21, 25, 22>>
FineExtreme == <<210, 255, 225>>
=============================================================================
