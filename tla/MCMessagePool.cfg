SPECIFICATION Spec
CONSTANTS
  MESSAGE_MAX = 3
  Cell = {c1, c2, c3, c4, c5}
  NoCell = NoCell
  Command = {search1, search2, pause}
  SearchCommand = {search1, search2}
  ProxyCommand = {pause}
  Sender = {s1, s2}
  Reader = {player}
  Mate = mate
SYMMETRY Symmetry
INVARIANTS TypeOK IndexesAgree OwnedOnce NothingLeaks
PROPERTY IsCommandQueue
