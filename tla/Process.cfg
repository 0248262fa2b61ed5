\* Any two requests together, and fx's goroutine; two restarts.
CONSTANTS
  Handlers = {h1, h2, main}
  Main = main
  Requests = {"start", "stop", "update", "trigger", "reset"}
  JobCount = 1
  Intervals = {1, 2}
  MaxStarts = 3
SPECIFICATION FairProcess
INVARIANTS ProcessTypeOK NoOrphan JobsSerial SettingsApply CleanExit
PROPERTIES StopIsComplete ResetAlone StopEnds StopsReturnAlone
CHECK_DEADLOCK FALSE
