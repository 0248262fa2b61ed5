\* Two recommendation runs at once: a recommendation nobody will push.
CONSTANTS
  OrderIds = {1}
  CartonIds = {"small", "large"}
  FluxIds = {"7", "8"}
  Contents = {0, 1, 3}
  NoItems = 0
  Specs = {1, 2}
  Suits <- MCSuits
  VolumeOf <- MCVolume
  Null = Null
  FluxCatalogs <- Stable
  CartonRuns = {}
  SyncRuns = {}
  RecRuns = {r1, r2}
  PushRuns = {p1}
  RecBatch = 1
  PushBatch = 2
  Refused = {}
  Backlog = {1}
SPECIFICATION Spec
INVARIANTS NoneStranded
