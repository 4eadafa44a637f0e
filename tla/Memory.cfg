CONSTANTS
  Base = 4
  Size = 24
  AddressLimit = 128
  Total = 3
  PageSize = 4
  WordSize = 2
  BlockSize = 2
  Requests <- TheRequests
  Indices = {0, 1}
  VAddrs <- TheVAddrs
  Frames = {100}
  Root = 96
SPECIFICATION Spec
INVARIANTS
  PiecesDisjoint
  FreeListExact
  TranslateExact
  UsersApart
