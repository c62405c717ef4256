SPECIFICATION CountsSpec
CONSTANTS
  Sizes = {1, 2}
  MaxChanges = 4
  MaxRequests = 2
PROPERTIES
  NoNamespaceReplaced
CHECK_DEADLOCK FALSE
