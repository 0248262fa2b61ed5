\* The defaults of config.go, in seconds.
CONSTANTS
  Instances = {a, b}
  Goroutines = {g}
  Nobody = Nobody
  Lease = 30
  AskTimeout = 2
  JobTimeout = 120
SPECIFICATION Spec
INVARIANTS Exclusive
