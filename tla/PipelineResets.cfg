\* One order, resets while no job is at work, and a catalogue that changes.
CONSTANTS
  OrderIds = {1}
  CartonIds = {"small", "large"}
  FluxIds = {"7", "8"}
  Contents = {0, 1}
  NoItems = 0
  Specs = {1, 2}
  Suits <- MCSuits
  VolumeOf <- MCVolume
  Null = Null
  FluxCatalogs <- Changing
  CartonRuns = {c1}
  SyncRuns = {s1}
  RecRuns = {r1}
  PushRuns = {p1}
  RecBatch = 1
  PushBatch = 2
  Refused = {}
  Backlog = {}
SPECIFICATION LoneResetSpec
INVARIANTS ResetTypeOK OneAssignmentSinceReset PushedIsReceived NoneStranded
PROPERTIES LifecycleUntilReset
