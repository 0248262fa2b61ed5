\* A start beside a stop.
CONSTANTS
  Handlers = {h1, h2}
  Requests = {"start", "stop"}
  JobCount = 1
  Intervals = {1}
  MaxStarts = 2
SPECIFICATION FairSpec
PROPERTIES StopsReturn
