SPECIFICATION Spec
CONSTANTS
  authn = authn
  vhosts = vhosts
  fs = fs
  echo = echo
  cgi = cgi
  good = good
  other = other
  Conns = {c1, c2}
  Certs = {good, other}
  Handlers = {authn, vhosts, fs, echo}
  Urls <- ThreeUrls
  NoConn = NoConn
  NoCert = NoCert
  BadHello = BadHello
  NoHello = NoHello
  NoUrl = NoUrl
  BadUrl = BadUrl
  Overlong = Overlong
  NoLine = NoLine
  Kind <- MCKind
  Prefix <- MCPrefix
  Trust <- MCTrust
  Sites <- MCSites
  Files <- MCFiles
  FileBlocks = 2
  CgiBlocks = 2
  PipeBlocks = 1
  Backlog = 2
  CounterMod = 16
  MaxFds = 4
  MaxRequests = 0
  Faults = FALSE
  SigPipe = FALSE
CHECK_DEADLOCK FALSE
SYMMETRY AnyConn
INVARIANTS TypeOK WalkInvariant FirstMatchAnswers AnswersAreWhole
