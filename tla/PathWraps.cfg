SPECIFICATION Spec
CONSTANTS
  Chars <- MCChars
  Files <- MCFiles
  Roots <- MCRoots
  MaxFile = 7
  MaxPath = 4
CHECK_DEADLOCK FALSE
INVARIANT LimitIsPerComponent
