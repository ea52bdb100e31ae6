\* Two handles on the same keys, up to three operations each and five together,
\* one command given up or future dropped, one expiry.
SPECIFICATION AioSpec
CONSTANTS
  Handles = {h1, h2}
  Mixes <- AllMixes
  Sizes = {0, 2}
  MaxCount = 9
  MaxRCount = 1
  MaxCalls = 3
  MaxTogether = 5
  MaxLosses = 1
  MaxExpiries = 1
  Members = {h1, h2}
  Versions = {0, 1}
  MaxAsks = 3
  MaxAsksTogether = 5
  MaxMisses = 1
SYMMETRY Symmetry
INVARIANT PrimTypeOK
INVARIANT PlacesBounded
INVARIANT PlacesBacked
INVARIANT NothingLeaks
INVARIANT FailedLeafUnlinks
INVARIANT IsSetTruthful
INVARIANT NoWakeupMissed
INVARIANT OneWaitPerWakeup
CHECK_DEADLOCK FALSE
