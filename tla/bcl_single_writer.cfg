SPECIFICATION Spec
CONSTANTS
  InboxCap = 1
  ChanCap = 1
  WireCap = 2
  MaxBurstBytes = 2
  ApparentSizes = {12, 13}
  FrameHeaderSize = 11
  MaxPayloadSize = 2
  WriteSizes = {1, 2}
  ReadSizes = {1}
  MaxBytes <- ClientBytes2
  MaxPings <- ClientPing
  Closers = {}
  NetMayFail = FALSE
INVARIANT SingleWriterDelivery
CHECK_DEADLOCK FALSE
