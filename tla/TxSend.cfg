\* One sender, opened twice: failing sends and a counter that wraps.
SPECIFICATION WireSpec
CONSTANTS
  Byte <- MCByte
  Streams = {1, 2, 257, 65537, 16777217, 16909060}
  Infos = {"driver"}
  WIFI_MTU = 34
  TxConfigs <- MCTxConfigs
  Payloads <- MCPayloads
  Seqs = {16909060}
  SEQ16 = 48
  MaxSends = 4
  MaxOpens = 2
INVARIANTS
  TxTypeOK
  SeqControlFresh
  WireReadsBack
  FilterSelectsStream
