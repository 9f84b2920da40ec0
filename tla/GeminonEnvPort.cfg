SPECIFICATION Spec
CONSTANTS
  n1 = n1
  n2 = n2
  n3 = n3
  n4 = n4
  Nodes <- MCNodes
  Null = Null
  Junk = Junk
  MaxOptions = 4
  PortTexts <- MCPortTexts
  Chunk = 2
  IntMod = 256
  PortMod = 16
  DefaultPort = 5
  Unset = Unset
CHECK_DEADLOCK FALSE
SYMMETRY AnyAddress
INVARIANT PortFromEnvironment
