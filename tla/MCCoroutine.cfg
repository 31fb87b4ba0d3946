CONSTANTS
  Ids = {1, 2, 3}
  Exceptions = {timeout, user}
  OutOfRange = OutOfRange
  NoEx = NoEx
SPECIFICATION Spec
SYMMETRY ExceptionSymmetry
INVARIANTS
  TypeOK
  StackBound
PROPERTIES
  KillEndsTheRoutine
  LiveRoutineIsKept
  ImplementsLifecycle
