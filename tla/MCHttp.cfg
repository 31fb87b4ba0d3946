SPECIFICATION Parts
CONSTANTS
  Streams <- Bytes
  MaxRead = 9
  NoNumber = 90
  Lines <- FirstLines
  Pairs <- FewPairs
  Fields <- FewFields
  MaxItems = 2
  After <- NextRequests
  Queries <- AnyQueries
  HeaderTexts <- AnyHeaders
  Names = {"Content-Length", "Content-Type"}
  Bodies <- FewBodies
  Hello <- Hi
  Codes = {200, 404, 505}
  MaxCalls = 3
  Ports = {80, 8000}
  FdLimit = 4
  MaxThreads = 3
  Hardware = 0
INVARIANTS
  TypesOK
  RequestsAreUnderstood
  AnswersAreReadable
PROPERTIES
  FailuresAndLoopsEnd
CHECK_DEADLOCK FALSE
