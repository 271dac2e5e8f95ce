SPECIFICATION FairSpec
CONSTANTS
  InboxCap = 1
  ChanCap = 1
  WireCap = 1
  MaxBurstBytes = 2
  ApparentSizes = {12, 13}
  FrameHeaderSize = 11
  MaxPayloadSize = 2
  WriteSizes = {1, 2}
  ReadSizes = {1}
  MaxBytes <- ClientBytes3
  MaxPings <- ServerPing
  Closers = {"client"}
  NetMayFail = TRUE
PROPERTIES EventuallyDelivered CloseTerminates WriteTerminates
CHECK_DEADLOCK FALSE
