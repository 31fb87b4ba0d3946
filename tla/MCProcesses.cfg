CONSTANTS
  d1 = d1
  d2 = d2
  d3 = d3
  f1 = f1
  f2 = f2
  a = a
  b = b
  A = A
  B = B
  NoFile = NoFile
  Descriptors = {d1, d2, d3}
  Files = {f1, f2}
  MaxFd = 4
  Kinds = {"descriptors", "objects", "calls", "programs"}
  Char <- Letters
  Upper <- ToUpper
  Lines <- ShortAndLong
  SizeLen = 2
  PipeRoom = 3
  MaxLines = 2
  NObjects = 3
  FdLimit = 6
  Capacity = 2
  MaxLen = 4
SPECIFICATION Parts
INVARIANTS
  TypesOK
  DescriptorsAreOwned
  MessagesAreExact
PROPERTIES
  ImplementsFileHandles
  NobodyWaitsForEver
CHECK_DEADLOCK FALSE
