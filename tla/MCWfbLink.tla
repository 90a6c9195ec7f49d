------------------------------- MODULE MCWfbLink -------------------------------
(***************************************************************************)
(* An instance of WfbLink for TLC: the two senders use different payloads. *)
(***************************************************************************)
EXTENDS WfbLink

MCByte == 0 .. 2
MCFcs == <<0, 0, 0, 0>>

Config(stream, mcs) ==
  [iface |-> "wlan0", stream_id |-> stream, frame_type |-> 8, mcs_index |-> mcs, bandwidth |-> 20]

MCNearConfigs == {Config(1, 1)}
MCFarConfigs == {Config(1, 1), Config(2, 1)}
MCNearPayloads == {<<1>>}
MCFarPayloads == {<< >>, <<2, 2>>}
MCNoise == {<<0>>}
=============================================================================
