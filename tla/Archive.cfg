CONSTANTS
 DayNoises <- SmallNoises
 DayHold = 30
 MoGusts <- SmallGusts
 CfDraws <- TwoDraws
 CfHold = 50
 RtPushed <- ThreeCommands
 RtMaxPushes = 2
 FrDip = 300000
 HilFirst <- HealthyRow
 HilRows <- TwoRows
 HilTargets <- TwoTargets
 HilSteps = 32
 HilChanges = 2
 HilStartSoc = 20000
 B1Noises <- SmallErrors
 B1Hold = 150
 B1Waiting = 2
 WdNoises <- TwoWinds
SPECIFICATION Spec
INVARIANTS ArchiveTypeOK DayBestTurbinesRun MoReturnFollowsRamp FrNoOvershoot B1AlwaysQualified WdFullPowerAgain
PROPERTIES DayFreezeHoldsPower CfWindKeepsCurtailment RtOnlyApproaches HilSilentInOutage HilResultIsInjected
CHECK_DEADLOCK FALSE
