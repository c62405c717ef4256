SPECIFICATION OneKindSpec
CONSTANTS
  variable = variable
  other = other
  job = job
  NoThing = NoThing
  Saved = {variable, other}
  Planned = {}
  Together = 2
  MaxAsked = 2
  MaxTyped = 1
  MaxIndex = 2
  MaxWork = 2
  MaxPaths = 3
  MaxEditFaults = 0

PROPERTIES
  NothingSentUnchanged
CHECK_DEADLOCK FALSE
