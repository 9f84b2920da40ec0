SPECIFICATION Spec
CONSTANTS
  authn = authn
  vhosts = vhosts
  fs = fs
  echo = echo
  cgi = cgi
  good = good
  other = other
  Conns = {c1, c2, c3}
  Certs = {good}
  Handlers = {fs}
  Urls <- OneUrl
  NoConn = NoConn
  NoCert = NoCert
  BadHello = BadHello
  NoHello = NoHello
  NoUrl = NoUrl
  BadUrl = BadUrl
  Overlong = Overlong
  NoLine = NoLine
  Kind <- MCKind
  Prefix <- MCPrefix
  Trust <- MCTrust
  Sites <- MCSites
  Files <- MCFiles
  FileBlocks = 1
  CgiBlocks = 1
  PipeBlocks = 1
  Backlog = 2
  CounterMod = 8
  MaxFds = 4
  MaxRequests = 0
  Faults = FALSE
  SigPipe = FALSE
CHECK_DEADLOCK FALSE
INVARIANT ExistingFilesAreSent
