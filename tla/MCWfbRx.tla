------------------------------- MODULE MCWfbRx -------------------------------
(***************************************************************************)
(* Instances of WfbRx for TLC.  The MTU is cut to 34 bytes, so a frame     *)
(* carries at most 2 bytes of payload; radiotap headers are 13 bytes long. *)
(***************************************************************************)
EXTENDS WfbRx

MCByte == 0 .. 2

Captured(len, flags, mine, stream, payload_len, data) ==
  [rt |-> [parsed |-> TRUE, self_injected |-> mine, rt_flags |-> flags,
           radiotap_len |-> 13, info |-> "driver"],
   len |-> len, stream |-> stream,
   hdr |-> [version |-> 0, seq |-> 0, payload_len |-> payload_len, flags |-> 0],
   data |-> data]

(* A complete packet: 13 bytes of radiotap, 24 + 8 of headers, the data. *)
Whole(flags, mine, payload_len, data) ==
  Captured(45 + Len(data), flags, mine, 1, payload_len, data)

Short == Whole({}, FALSE, 1, <<1>>)
Full == Whole({}, FALSE, 2, <<2, 1>>)
NoPayload == Whole({}, FALSE, 0, << >>)
WithFcs == Whole({"FCS"}, FALSE, 2, <<1, 2, 0, 0, 0, 0>>)
EatenByFcs == Whole({"FCS"}, FALSE, 2, <<1, 0, 0, 0, 0>>)
BadFcs == Whole({"FCS", "BADFCS"}, FALSE, 1, <<1, 0, 0, 0, 0>>)
Oversize == Whole({}, FALSE, 3, <<1, 1, 1>>)
Mine == Whole({}, TRUE, 1, <<2>>)
HeaderOnly == Captured(37, {}, FALSE, 1, 0, << >>)
OtherVersion == [Short EXCEPT !.hdr.version = 1]
OtherStream == [Short EXCEPT !.stream = 2]
Unparsed == [Short EXCEPT !.rt.parsed = FALSE]

AllAir == {Short, Full, NoPayload, WithFcs, EatenByFcs, BadFcs, Oversize, Mine,
           HeaderOnly, OtherVersion, OtherStream, Unparsed}
RingAir == {Short, Full}
LiveAir == {Short, Oversize}

Config(iface, stream, ignore, size) ==
  [iface |-> iface, stream_id |-> stream, ignore_self_injected |-> ignore, ring_size |-> size]

AllConfigs == {Config("wlan0", 1, TRUE, 1), Config("wlan0", 1, FALSE, 3),
               Config("wlan0", 2, FALSE, 2),
               Config("", 1, TRUE, 2), Config("wlan0", 0, TRUE, 2)}
RingConfigs == {Config("wlan0", 1, TRUE, 1), Config("wlan0", 1, FALSE, 3)}
LiveConfigs == {Config("wlan0", 1, TRUE, 2)}
=============================================================================
