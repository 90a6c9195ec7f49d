\* A sender next to the receiver, one far away on either stream.
SPECIFICATION Spec
CONSTANTS
  Byte <- MCByte
  Streams = {1, 2}
  Infos = {"driver"}
  WIFI_MTU = 34
  NearConfigs <- MCNearConfigs
  FarConfigs <- MCFarConfigs
  NearPayloads <- MCNearPayloads
  FarPayloads <- MCFarPayloads
  Seqs = {7, 8}
  SEQ16 = 32
  MaxSends = 2
  MaxOpens = 1
  MinCap = 2
  MaxCap = 2
  BufSizes = {2}
  RadiotapLen = 13
  Fcs <- MCFcs
  Noise <- MCNoise
INVARIANTS
  DeliveredWasSent
  SentIsAcceptable
