\* Two orders, two overlapping push runs, one recommendation run.
CONSTANTS
  OrderIds = {1, 2}
  CartonIds = {"small", "large"}
  FluxIds = {"7", "8"}
  Contents = {0, 1, 3}
  NoItems = 0
  Specs = {1, 2}
  Suits <- MCSuits
  VolumeOf <- MCVolume
  Null = Null
  FluxCatalogs <- Stable
  CartonRuns = {}
  SyncRuns = {}
  RecRuns = {r1}
  PushRuns = {p1, p2}
  RecBatch = 1
  PushBatch = 2
  Refused = {}
  Backlog = {1, 2}
SYMMETRY Symmetric
SPECIFICATION Spec
INVARIANTS TypeOK PushedIsReceived NoneStranded RecordMatchesFlux
PROPERTIES Lifecycle KeepsPromise
