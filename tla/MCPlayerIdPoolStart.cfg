SPECIFICATION Spec
CONSTANTS
  MAX_PLAYER_THREADS = 4
  Caller = {c1, c2}
  Para = {p1, p2, p3, p4}
  NoPara = NoPara
  MaxUsed = 1
SYMMETRY Symmetry
INVARIANT CanStart
