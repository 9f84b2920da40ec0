SPECIFICATION FairSpec
CONSTANTS
  Chars <- MCChars
  Files <- MCFiles
  Roots <- MCRoots
  MaxFile = 9
  MaxPath = 8
CHECK_DEADLOCK FALSE
INVARIANTS TypeOK DepthAgrees StaysBelowRoot ResolvesLikeReference JoinsBelowRoot
PROPERTY Terminates
