SPECIFICATION Spec
CONSTANTS
  NUL = NUL
  Chars <- MCChars
  HostChars <- MCHostChars
  Digit <- MCDigit
  Texts <- MCTexts
  MaxTail = 5
  Sizes = {0, 1, 2, 3, 4, 5, 6}
  MaxPort = 15
  DefaultPort = 7
CHECK_DEADLOCK FALSE
INVARIANTS TypeOK ParsesLikeReference OwnBufferSuffices RefusedOnlyIfTooSmall
