-------------------------------- MODULE MCWfbTx --------------------------------
(***************************************************************************)
(* An instance of WfbTx and its bytes for TLC.  The 802.11 counter has     *)
(* room for three numbers, so that it wraps; the MTU leaves 2 bytes of     *)
(* payload.  The streams differ in one byte each.                          *)
(***************************************************************************)
EXTENDS WfbWire

MCByte == 0 .. 1
MCPayloads == {<< >>, <<0, 1>>, <<1, 1, 1>>}

TxConfig(iface, stream, type, mcs, bw) ==
  [iface |-> iface, stream_id |-> stream, frame_type |-> type, mcs_index |-> mcs,
   bandwidth |-> bw]

MCTxConfigs ==
  {TxConfig("wlan0", 1, 8, 0, 0), TxConfig("wlan0", 16909060, 180, 15, 40),
   TxConfig("wlan0", 1, 8, 16, 20), TxConfig("wlan0", 1, 8, 1, 80),
   TxConfig("wlan0", 1, 9, 1, 20), TxConfig("", 1, 8, 1, 20),
   TxConfig("wlan0", 0, 8, 1, 20)}
=============================================================================
