SPECIFICATION FairSpec
CONSTANTS
  None = None
  WakeFd = WakeFd
  lis = lis
  tcp = tcp
  tls = tls
  udp = udp
  Listener = {lis}
  Tcp = {tcp}
  Tls = {tls}
  Udp = {udp}
  Fd = {1, 2}
  OneAtATime = TRUE
  MayCancel = {"read", "accept"}
  MaxRequests = 3
  MaxUnits = 2
  MaxSockets = 2
  Capacity = 1
  ReadSize = {1}
  WriteSize = {2}
INVARIANTS
  RequestsKept
  OwnDescriptor
  BytesOnce
PROPERTIES
  Answered
CHECK_DEADLOCK FALSE
