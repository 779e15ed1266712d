SPECIFICATION Spec
CONSTANTS
  Server = {s1, s2}
  Client = {c1, c2}
  MayCrash = {s1, s2, c1, c2}
  MaxGen = 3
SYMMETRY Alike
INVARIANT TypeOK
INVARIANT SameMutex
INVARIANT ServerOwnsName
INVARIANT CleanRestart
INVARIANT InitErasesNothing
INVARIANT UmaskRestored
