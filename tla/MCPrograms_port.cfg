CONSTANTS
  MaxOptions = 2
  Numbers <- FewNumbers
  MaxSize = 1
  Threads = {"t1", "t2"}
  Loggers = {"server", "stdout", "file"}
  Streams = {"cout", "log"}
  Own = {"server"}
  StreamOf <- TwoStreams
  FirstGlobal = "stdout"
  UsedLevels = {0, 3}
  End = End
  MaxMessages = 2
  Calls <- TwoCalls
  Clients = {"c1", "c2"}
  Backlog = 2
  Buffer = 1
  MaxConnects = 2
  MaxBytes = 2
  Connects <- OneForSecond
  Room = 3
  Packet = 3
  MaxLine = 2
  MaxLines = 3
  Ips = {any, local}
  AnyIp = any
  PortNumbers <- TypedPorts
  NoDigits <- NoPort
  MaxFree = 2
  MaxGigabytes = 2
  PerGigabyte = 2
  MaxElements = 3
SPECIFICATION Parts
INVARIANTS
  BadPortIsRefused
CHECK_DEADLOCK FALSE
