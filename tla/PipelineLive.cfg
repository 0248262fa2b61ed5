\* Two orders, one that Flux refuses for ever; batches of one.
CONSTANTS
  OrderIds = {1, 2}
  CartonIds = {"small", "large"}
  FluxIds = {"7", "8"}
  Contents = {0, 1, 3}
  NoItems = 0
  Specs = {1, 2}
  Suits <- MCSuits
  VolumeOf <- MCVolume
  Null = Null
  FluxCatalogs <- Stable
  CartonRuns = {}
  SyncRuns = {}
  RecRuns = {r1}
  PushRuns = {p1}
  RecBatch = 1
  PushBatch = 1
  Refused = {1}
  Backlog = {1, 2}
SPECIFICATION FairSpec
PROPERTIES AllPushed OutboxSettles
