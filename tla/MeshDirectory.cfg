SPECIFICATION DirectorySpec
CONSTANTS
  Ids = {n1, n2}
  Keys = {k1, k2}
  Regs = {r1, r2}
  MaxTroubles = 2
  None = None
INVARIANT IdentityKept
SYMMETRY Symmetry
