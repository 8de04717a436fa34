SPECIFICATION SerialSpec
CONSTANTS
  w1 = w1
  w2 = w2
  r1 = r1
  r2 = r2
  p1 = p1
  p2 = p2
  Zero = Zero
  CWriters = {w1}
  BridgeWriters = {w2}
  Readers = {r1}
  Payloads <- MCPayloads
  MaxWrites = 3
INVARIANTS TypeOK NoTornRead ReadableAtRest WriteCountNeverAhead
PROPERTIES ImplementsAtomicPoint ReadersCatchUp
CHECK_DEADLOCK FALSE
