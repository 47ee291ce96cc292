SPECIFICATION Spec
CONSTANTS
  Settings <- SmallSettings
  MaxResultsBlockChars = 6000
INVARIANT MissingIsNamed
