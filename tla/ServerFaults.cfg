SPECIFICATION Spec
CONSTANTS
  authn = authn
  vhosts = vhosts
  fs = fs
  echo = echo
  cgi = cgi
  good = good
  other = other
  Conns = {c1, c2, c3}
  Certs = {good}
  Handlers = {fs, cgi}
  Urls <- TwoUrls
  NoConn = NoConn
  NoCert = NoCert
  BadHello = BadHello
  NoHello = NoHello
  NoUrl = NoUrl
  BadUrl = BadUrl
  Overlong = Overlong
  NoLine = NoLine
  Kind <- MCKind
  Prefix <- MCPrefix
  Trust <- MCTrust
  Sites <- MCSites
  Files <- MCFiles
  FileBlocks = 1
  CgiBlocks = 2
  PipeBlocks = 1
  Backlog = 2
  CounterMod = 16
  MaxFds = 3
  MaxRequests = 2
  Faults = TRUE
  SigPipe = TRUE
CHECK_DEADLOCK FALSE
SYMMETRY AnyConn
INVARIANTS OneSession AcceptHasDescriptor RequestLimit
PROPERTY ServiceSpec
