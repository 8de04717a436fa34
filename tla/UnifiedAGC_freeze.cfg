SPECIFICATION Spec
CONSTANTS
  Startup <- MCStartup
  CutOutWind = 50
  FreqDeadband = 10
  WindStep = 3
  CalmWind = 24
  FreqRange = 100
  Rated = 300
  MinPower = 15
  CurtailLimit = 120
  EnterBand = 50
  ExitBand = 10
  RampStep = 3
  FeedforwardMax = 45
  FeedbackMax = 60
  IntegralMax = 39
  ErrorBand = 2
  CompensationMax = 50
  DoneBand = 5
  ExtremePower <- FineExtreme
  RecoveryCycles = 3
  Inputs <- OutageInputs
  MaxWrites = 3
PROPERTIES FreezesCurrentPower
