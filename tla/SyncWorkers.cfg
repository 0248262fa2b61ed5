\* Four orders that share products, two of them at work at a time.
CONSTANTS
  OrderIds = {1, 2, 3, 4}
  CartonIds = {}
  FluxIds = {}
  Contents <- MCContents
  NoItems <- MCNoItems
  Specs = {}
  Suits <- MCSuits
  VolumeOf <- MCVolume
  Null = Null
  Calls = {1, 2, 3, 4}
  RetryMax = 1
  Limit = 2
  Products = {"p", "q", "r"}
  DetailOf <- MCDetailOf
  ProductsOf <- MCProductsOf
  Free = Free
  MaxRuns = 1
SPECIFICATION FairSpec
INVARIANTS TypeOK CallsBounded LockersAct
PROPERTIES ImplementsJob RunEnds
\* The model stops after MaxRuns runs.
CHECK_DEADLOCK FALSE
