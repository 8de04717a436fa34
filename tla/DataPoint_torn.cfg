SPECIFICATION Spec
CONSTANTS
  w1 = w1
  w2 = w2
  r1 = r1
  r2 = r2
  p1 = p1
  p2 = p2
  Zero = Zero
  CWriters = {w1, w2}
  BridgeWriters = {}
  Readers = {r1}
  Payloads <- MCPayloads
  MaxWrites = 2
INVARIANTS NoTornRead
CHECK_DEADLOCK FALSE
