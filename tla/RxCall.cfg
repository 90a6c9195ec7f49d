\* Every kind of packet and configuration, the clock, signals and errors.
SPECIFICATION Spec
CONSTANTS
  Byte <- MCByte
  Streams = {1, 2}
  Infos = {"driver"}
  NoInfo = "none"
  WIFI_MTU = 34
  Configs <- AllConfigs
  Air <- AllAir
  BufSizes = {1, 2}
  Timeouts = {0, 1, 3, 5}
  TICKS_PER_MS = 2
  I32_MAX_MS = 1
  MaxElapsed = 6
  MaxArrivals = 2
  KbufCap = 2
INVARIANTS
  TypeOK
  NoOversleep
  OnlyOurs
PROPERTIES
  TimeoutHonest
