\* One block and its child, a terminal of changing height, fair.
CONSTANTS
  genesis = genesis
  left = left
  Hashes <- OneChildHashes
  ParentsOf <- OneChildParents
  NumberOf <- OneChildNumbers
  ChannelCapacity = 2
  FetchAttempts = 2
  Page = 1
  AssumedHeight = 2
  Heights = {0, 1, 3}
SPECIFICATION FairSpec
INVARIANTS
  IInv
  CurrentWhenDrained
  RowsSuitLayout
PROPERTIES
  BlocksOnlyAdvance
  ViewIsSteady
  FinalityIsShown
CHECK_DEADLOCK FALSE
