------------------------------ MODULE RxPacket ------------------------------
(***************************************************************************)
(* The checks of WfbRx::parse_and_enqueue_one_packet (rx.rs): which        *)
(* captured packets carry a frame for the ring, and what that frame is.    *)
(*                                                                         *)
(* A packet is the record the parser works with:                           *)
(*   rt       what radiotap_meta_from_packet returned: parsed is FALSE for *)
(*            None, info stands for the fields that are only copied        *)
(*            (freq, mcs_index, bandwidth, antenna, rssi, noise, count)    *)
(*   len      pkt.len(), the captured length in bytes                      *)
(*   stream   the stream_id in addr2, read only by the pcap filter         *)
(*   hdr      the decoded plaintext header, when the packet is that long   *)
(*   data     the bytes that follow the plaintext header, FCS included     *)
(***************************************************************************)
EXTENDS Naturals, Sequences

CONSTANTS
  Byte,          \* the values of one byte of payload
  Streams,       \* stream identifiers, positive numbers
  Infos,         \* the radiotap metadata that is copied unread
  WIFI_MTU       \* proto.rs: 4045; a small value bounds the model

IEE80211_HEADER_LEN == 24
WFB_PLAINTEXT_HDR_LEN == 8
WFB_PROTO_VERSION == 0

ASSUME MtuAssumption ==
  /\ WIFI_MTU \in Nat
  /\ WIFI_MTU > IEE80211_HEADER_LEN + WFB_PLAINTEXT_HDR_LEN

ASSUME StreamAssumption == Streams \subseteq Nat \ {0}

ASSUME ByteAssumption == 0 \in Byte

compute_max_payload == WIFI_MTU - IEE80211_HEADER_LEN - WFB_PLAINTEXT_HDR_LEN

(* First byte of the payload: radiotap, 802.11 header, plaintext header. *)
PayloadStart(p) ==
  p.rt.radiotap_len + IEE80211_HEADER_LEN + WFB_PLAINTEXT_HDR_LEN

RadiotapMeta ==
  [parsed : BOOLEAN, self_injected : BOOLEAN, rt_flags : SUBSET {"FCS", "BADFCS"},
   radiotap_len : Nat, info : Infos]

Header == [version : Nat, seq : Nat, payload_len : Nat, flags : Nat]

(* What pcap can hand over: radiotap_meta_from_packet gives a result only  *)
(* for a packet of 8 bytes or more whose radiotap length fits in it.       *)
IsPacket(p) ==
  /\ p \in [rt : RadiotapMeta, len : Nat, stream : Streams, hdr : Header,
            data : Seq(Byte)]
  /\ p.rt.parsed => p.len >= 8 /\ p.len >= p.rt.radiotap_len
  /\ Len(p.data) = IF p.len > PayloadStart(p) THEN p.len - PayloadStart(p) ELSE 0

(* The length without the trailing checksum, when the driver kept it. *)
EffectiveLen(p) ==
  IF "FCS" \in p.rt.rt_flags /\ p.len >= 4 THEN p.len - 4 ELSE p.len

(* The driver did not report a failed checksum. *)
AnyChecksum(p) == TRUE

ChecksumOK(p) == "BADFCS" \notin p.rt.rt_flags

(* Both headers are there in full. *)
HasMoreThanHeaders(p) ==
  EffectiveLen(p) > p.rt.radiotap_len + IEE80211_HEADER_LEN + WFB_PLAINTEXT_HDR_LEN

HasHeaders(p) ==
  /\ EffectiveLen(p) > p.rt.radiotap_len + IEE80211_HEADER_LEN
  /\ EffectiveLen(p) - p.rt.radiotap_len - IEE80211_HEADER_LEN >= WFB_PLAINTEXT_HDR_LEN

(* The packet passes every early return of the parser. *)
Accepts(p, ignore_self_injected) ==
  /\ p.rt.parsed
  /\ ~(p.rt.self_injected /\ ignore_self_injected)
  /\ ChecksumOK(p)
  /\ HasHeaders(p)
  /\ p.hdr.version = WFB_PROTO_VERSION
  /\ p.hdr.payload_len <= EffectiveLen(p) - PayloadStart(p)
  /\ p.hdr.payload_len <= compute_max_payload

(* The metadata of the frame; truncated is decided when it is popped. *)
MetaOf(p) ==
  [seq |-> p.hdr.seq, flags |-> p.hdr.flags, info |-> p.rt.info, truncated |-> FALSE]

FrameOf(p) ==
  [payload |-> SubSeq(p.data, 1, p.hdr.payload_len), meta |-> MetaOf(p)]
=============================================================================
