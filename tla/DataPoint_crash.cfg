SPECIFICATION CrashSpec
CONSTANTS
  w1 = w1
  w2 = w2
  r1 = r1
  r2 = r2
  p1 = p1
  p2 = p2
  Zero = Zero
  CWriters = {w1}
  BridgeWriters = {}
  Readers = {r1}
  Payloads <- MCPayloads
  MaxWrites = 2
INVARIANTS ReadableAtRest
CHECK_DEADLOCK FALSE
