CONSTANTS
  p1 = p1
  p2 = p2
  k1 = k1
  k2 = k2
  k3 = k3
  v1 = v1
  v2 = v2
  v3 = v3
  Kinds = {"numbers", "strings"}
  Procs = {p1, p2}
  Keys = {k1, k2, k3}
  Values = {v1, v2, v3}
  BigKeys = {k1}
  BigValues = {v1}
  NodeSize = 2
  BufSize = 1
  Space = 5
  MaxCalls = 5
SPECIFICATION Parts
INVARIANTS
  TypeOK
  OneInside
  BlocksAreDisjoint
PROPERTIES
  ImplementsSharedMap
  CallsReturn
CHECK_DEADLOCK FALSE
