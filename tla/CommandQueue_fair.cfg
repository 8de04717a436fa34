SPECIFICATION FairSpec
CONSTANTS
  c1 = c1
  c2 = c2
  NoCommand = NoCommand
  Commands <- MCCommands
  Size = 3
INVARIANTS TypeOK NoSlotRace
PROPERTIES ImplementsFifo RefusalsAreExact EveryCommandIsReceived
