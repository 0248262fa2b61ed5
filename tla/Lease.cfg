\* Three instances, with the lease as short as it may be.
CONSTANTS
  Instances = {a, b, c}
  Goroutines = {g, h}
  Nobody = Nobody
  Lease = 4
  AskTimeout = 1
  JobTimeout = 2
  CartonSyncs = {h}
  MaxLogs = 2
SPECIFICATION FairJobSpec
INVARIANTS TypeOK Exclusive OwnLog
PROPERTIES SuccessIsWhole JobsGoOn
