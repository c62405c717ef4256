SPECIFICATION LogTwiceSpec
CONSTANTS
  stdout = stdout
  stderr = stderr
  Sources = {stdout, stderr}
  FileSize = 2
  KeptFiles = 2
  LogTail = 2
  LogStep = 2
  MaxTextLines = 3
  Written <- OneLine
  MaxBytes <- NoMoreBytes
  MaxAsked = 1
  MaxStreams = 3
  MaxSwitches = 2
  MaxLogFaults = 0
INVARIANTS
  TextIsTheLog
CHECK_DEADLOCK FALSE
