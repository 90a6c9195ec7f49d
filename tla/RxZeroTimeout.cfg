\* A program that only ever passes the timeout 0.
SPECIFICATION FairSpec
CONSTANTS
  Byte <- MCByte
  Streams = {1, 2}
  Infos = {"driver"}
  NoInfo = "none"
  WIFI_MTU = 34
  Configs <- LiveConfigs
  Air <- LiveAir
  BufSizes = {1}
  Timeouts = {0}
  TICKS_PER_MS = 2
  I32_MAX_MS = 2
  MaxElapsed = 1
  MaxArrivals = 1
  KbufCap = 1
PROPERTIES
  CaptureIsRead
