\* Long bursts into small rings: overflow, wrap-around, truncation, reopening;
\* progress of recv and of the packets, timeouts of a millisecond or more.
SPECIFICATION FairSpec
CONSTANTS
  Byte <- MCByte
  Streams = {1, 2}
  Infos = {"driver"}
  NoInfo = "none"
  WIFI_MTU = 34
  Configs <- RingConfigs
  Air <- RingAir
  BufSizes = {1, 2}
  Timeouts = {2}
  TICKS_PER_MS = 2
  I32_MAX_MS = 2
  MaxElapsed = 3
  MaxArrivals = 4
  KbufCap = 4
INVARIANTS
  InOrder
  DrainKeepsOldest
  IInv
PROPERTIES
  RefinesQueue
  RecvReturns
  CaptureIsRead
