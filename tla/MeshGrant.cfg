SPECIFICATION Spec
CONSTANTS
  sovereign = sovereign
  target = target
  Targets = {target}
  Order <- MCOrder
  Self = sovereign
  Handlers = {h1, h2}
  TTL = 1
  ReceiptMax = 1
  MaxClock = 1
  MaxGrants = 2
  MaxCalls = 2
  MaxFaults = 1
INVARIANTS ExecutedOnce FencedFirst RouteOnce
CHECK_DEADLOCK FALSE
SYMMETRY Symmetry
