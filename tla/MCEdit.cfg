SPECIFICATION OneKindSpec
CONSTANTS
  variable = variable
  other = other
  job = job
  NoThing = NoThing
  Saved = {variable}
  Planned = {job}
  Together = 1
  MaxAsked = 2
  MaxTyped = 2
  MaxIndex = 3
  MaxWork = 2
  MaxPaths = 3
  MaxEditFaults = 1
INVARIANTS
  NoTextLost
  FilesAccounted
PROPERTIES
  SavesOverKnown
  HandsBack
CHECK_DEADLOCK FALSE
