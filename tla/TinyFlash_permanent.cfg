SPECIFICATION Spec
CONSTANTS
  SecLen = 14
  RecLen = 4
  TornLen = 6
  NumBauds = 3
  None = None
PROPERTY ChangeIsPermanent
