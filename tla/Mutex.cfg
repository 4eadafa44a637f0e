CONSTANTS
  Threads = {t1, t2, t3}
  Initial = 1
  MaxCount = 2
  Nobody = Nobody
SPECIFICATION FairMutexSpec
INVARIANTS
  NoUpdateLost
  MutualExclusion
  ClearsOnlyOwn
  HolderIsOwner
PROPERTIES
  CallsReturn
  SomebodyGetsIt
