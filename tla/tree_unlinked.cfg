\* One leaf of a child, acquired twice; nothing is lost, nothing expires.
SPECIFICATION AioSpec
CONSTANTS
  Handles = {h1}
  Mixes <- LeafMix
  Sizes = {0}
  MaxCount = 9
  MaxRCount = 1
  MaxCalls = 2
  MaxTogether = 2
  MaxLosses = 0
  MaxExpiries = 0
  Members = {}
  Versions = {0}
  MaxAsks = 0
  MaxAsksTogether = 0
  MaxMisses = 0
INVARIANT LeafLocksRoot
CHECK_DEADLOCK FALSE
