CONSTANTS
  Vms = {v1, v2}
  NoVm = NoVm
  Streams = {s1}
  NoStream = NoStream
  t1 = t1
  t2 = t2
  Threads = {t1, t2}
  Requests <- CopyAndPort
SPECIFICATION SerialFairSpec
INVARIANTS SerialTypeOK OnlyLeftCopiesMislead OfferedIsServed
PROPERTIES StreamsEnd
CHECK_DEADLOCK FALSE
