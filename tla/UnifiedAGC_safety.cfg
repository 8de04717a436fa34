SPECIFICATION Spec
CONSTANTS
  Startup <- MCStartup
  CutOutWind = 50
  FreqDeadband = 10
  WindStep = 3
  CalmWind = 24
  FreqRange = 100
  Rated = 30
  MinPower = 2
  CurtailLimit = 12
  EnterBand = 5
  ExitBand = 1
  RampStep = 1
  FeedforwardMax = 4
  FeedbackMax = 6
  IntegralMax = 4
  ErrorBand = 1
  CompensationMax = 5
  DoneBand = 1
  ExtremePower <- CoarseExtreme
  RecoveryCycles = 2
  Inputs <- SafetyInputs
  MaxWrites = 3
INVARIANTS TypeOK PowerWithinRating SafetyModeShown
PROPERTIES FrozenPowerHeld ExtremeEndsByCommand
