CONSTANTS
  Ids = {1, 2}
  Exceptions = {timeout, user}
  OutOfRange = OutOfRange
  NoEx = NoEx
SPECIFICATION Spec
SYMMETRY ExceptionSymmetry
PROPERTIES
  KillThrowsItsException
