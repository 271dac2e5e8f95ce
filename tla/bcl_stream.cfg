SPECIFICATION Spec
CONSTANTS
  InboxCap = 1
  ChanCap = 1
  WireCap = 2
  MaxBurstBytes = 2
  ApparentSizes = {12, 13}
  FrameHeaderSize = 11
  MaxPayloadSize = 2
  WriteSizes = {1, 2}
  ReadSizes = {1, 2}
  MaxBytes <- ClientBytes2
  MaxPings <- ClientPing
  Closers = {"client"}
  NetMayFail = TRUE

CHECK_DEADLOCK FALSE
INVARIANTS StreamConserved QuietMeansDelivered OpenMeansServed
PROPERTY ImplementsByteStream
