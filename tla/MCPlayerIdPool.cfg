SPECIFICATION Spec
CONSTANTS
  MAX_PLAYER_THREADS = 3
  Caller = {c1, c2, c3}
  Para = {p1, p2, p3}
  NoPara = NoPara
  MaxUsed = 2
SYMMETRY Symmetry
INVARIANTS TypeOK OneOwner NoIdLeaks NoUseAfterFree NoBlockLeaks UsedCounts
