------------------------------- MODULE WfbWire -------------------------------
(***************************************************************************)
(* The bytes of a frame: the two header templates that open patches in     *)
(* src/src/tx.rs, the plaintext header that encode of src/src/proto.rs     *)
(* makes, the four parts that sendmsg puts together; and the way back, as  *)
(* the filter, the parser and decode of the receiver read them.            *)
(*                                                                         *)
(* WfbTx says which frame each send means; this module adds the buffers of *)
(* the sender and the bytes it hands to the kernel for that frame.         *)
(***************************************************************************)
EXTENDS WfbTx, Radiotap

VARIABLES
  ieee_hdr,       \* the synthetic 802.11 header of struct WfbTx
  radiotap_ht,    \* its radiotap header
  wire            \* history: the bytes sendmsg accepted, frame by frame

wire_vars == <<tx_vars, ieee_hdr, radiotap_ht, wire>>

(* The numbers fit the fields they are written to: u16 and u32. *)
ASSUME WidthAssumption ==
  /\ SEQ16 <= 65536
  /\ \A n \in Streams \cup Seqs : n \div 16777216 < 256

(* Offsets count from 0, as in the code. *)
At(bytes, off) == bytes[off + 1]

(* copy_from_slice, and a slice. *)
Put(bytes, off, part) ==
  [i \in 1 .. Len(bytes) |-> IF off < i /\ i <= off + Len(part) THEN part[i - off] ELSE bytes[i]]
Slice(bytes, first, end) == SubSeq(bytes, first + 1, end)

(* to_be_bytes of a u16 and a u32, from_be_bytes, from_le_bytes. *)
BE2(n) == <<(n \div 256) % 256, n % 256>>
LE4(n) == <<n % 256, (n \div 256) % 256, (n \div 65536) % 256, (n \div 16777216) % 256>>
BE4(n) == <<(n \div 16777216) % 256, (n \div 65536) % 256, (n \div 256) % 256, n % 256>>
FromBE2(bytes, off) == At(bytes, off) * 256 + At(bytes, off + 1)
FromBE4(bytes, off) ==
  At(bytes, off) * 16777216 + At(bytes, off + 1) * 65536 + FromBE2(bytes, off + 2)
le_u16(bytes, off) == At(bytes, off) + At(bytes, off + 1) * 256

(* RADIOTAP_HT_TEMPLATE and IEEE80211_HEADER_TEMPLATE. *)
RADIOTAP_HT_TEMPLATE == <<0, 0, 13, 0, 0, 128, 8, 0, 8, 0, 55, 0, 0>>
IEEE80211_HEADER_TEMPLATE ==
  <<8, 1, 0, 0, 255, 255, 255, 255, 255, 255,
    87, 66, 170, 187, 204, 221, 87, 66, 170, 187, 204, 221, 0, 0>>

MCS_FLAGS_OFF == 11
MCS_IDX_OFF == 12
SRC_MAC_THIRD_BYTE == 12
DST_MAC_THIRD_BYTE == 18
FRAME_SEQ_LB == 22
FRAME_SEQ_HB == 23

(* WfbFrameHeader::encode and decode, at an offset of a packet. *)
EncodeLenFirst(hdr) ==
  LET seq == BE4(hdr.seq)
      len == BE2(hdr.payload_len)
  IN  <<hdr.version, len[1], len[2], seq[1], seq[2], seq[3], seq[4], hdr.flags>>

encode(hdr) ==
  LET seq == BE4(hdr.seq)
      len == BE2(hdr.payload_len)
  IN  <<hdr.version, seq[1], seq[2], seq[3], seq[4], len[1], len[2], hdr.flags>>

decode(bytes, off) ==
  [version |-> At(bytes, off), seq |-> FromBE4(bytes, off + 1),
   payload_len |-> FromBE2(bytes, off + 5), flags |-> At(bytes, off + 7)]
-----------------------------------------------------------------------------
WireInit ==
  /\ TxInit
  /\ ieee_hdr = IEEE80211_HEADER_TEMPLATE
  /\ radiotap_ht = RADIOTAP_HT_TEMPLATE
  /\ wire = << >>

(* The headers of a new object: type and stream, bandwidth and MCS. *)
WireOpen(cfg) ==
  LET stream_id_be == BE4(cfg.stream_id)
      typed == Put(IEEE80211_HEADER_TEMPLATE, 0, <<cfg.frame_type>>)
      bw == IF Bandwidth(cfg) = 40 THEN 1 ELSE 0
  IN  /\ TxOpen(cfg)
      /\ ieee_hdr' = Put(Put(typed, SRC_MAC_THIRD_BYTE, stream_id_be), DST_MAC_THIRD_BYTE, stream_id_be)
      /\ radiotap_ht' = Put(Put(RADIOTAP_HT_TEMPLATE, MCS_FLAGS_OFF, <<bw>>), MCS_IDX_OFF, <<Mcs(cfg)>>)
      /\ UNCHANGED wire

(* Each send numbers the header in place, before sendmsg. *)
Numbered ==
  Put(Put(ieee_hdr, FRAME_SEQ_LB, <<ieee80211_seq % 256>>), FRAME_SEQ_HB,
      <<(ieee80211_seq \div 256) % 256>>)

(* The four parts of the message. *)
Message(payload, seq) ==
  radiotap_ht \o Numbered \o encode(Frame(payload, seq).hdr) \o payload

WireSendOk(payload, seq) ==
  /\ SendOk(payload, seq)
  /\ ieee_hdr' = Numbered
  /\ wire' = Append(wire, Message(payload, seq))
  /\ UNCHANGED radiotap_ht

WireSendFails(payload) ==
  /\ SendFails(payload)
  /\ ieee_hdr' = Numbered
  /\ UNCHANGED <<radiotap_ht, wire>>

WireNext ==
  \/ \E cfg \in TxConfigs : WireOpen(cfg) \/ (TxOpenFails(cfg) /\ UNCHANGED <<ieee_hdr, radiotap_ht, wire>>)
  \/ TxClose /\ UNCHANGED <<ieee_hdr, radiotap_ht, wire>>
  \/ \E p \in Payloads :
       \/ SendTooLarge(p) /\ UNCHANGED <<ieee_hdr, radiotap_ht, wire>>
       \/ WireSendFails(p)
       \/ \E s \in Seqs : WireSendOk(p, s)

WireSpec == WireInit /\ [][WireNext]_wire_vars
-----------------------------------------------------------------------------
(* The bits of the little-endian present word at offset 4. *)
BIT == <<1, 2, 4, 8, 16, 32, 64, 128>>
PresentWord(bytes) == {i \in Bits : (At(bytes, 4 + (i \div 8)) \div At(BIT, i % 8)) % 2 = 1}

(* The expression of the pcap filter, ether counted from the 802.11 header. *)
PcapFilter(bytes, stream_id) ==
  LET ether == le_u16(bytes, 2)
  IN  FromBE2(bytes, ether + 10) = 22338 /\ FromBE4(bytes, ether + 12) = stream_id

(* What the arms of the parser make of an MCS field at an offset. *)
McsInfo(bytes, at) ==
  [mcs_index |-> IF (At(bytes, at) \div 2) % 2 = 1 THEN At(bytes, at + 2) % 128 ELSE 0,
   bandwidth |-> IF At(bytes, at) % 2 = 1 /\ At(bytes, at + 1) % 2 = 1 THEN 40 ELSE 20]

(* The packet that parse_and_enqueue_one_packet works on, cut from the     *)
(* bytes of a message as the driver of the sending host hands them back.   *)
PacketOf(bytes) ==
  LET radiotap_len == le_u16(bytes, 2)
      sh_start == radiotap_len + IEE80211_HEADER_LEN
  IN  [rt |-> [parsed |-> TRUE, self_injected |-> RTAP_TX_FLAGS \in PresentWord(bytes),
               rt_flags |-> {}, radiotap_len |-> radiotap_len, info |-> McsInfo(bytes, 10)],
       len |-> Len(bytes),
       stream |-> FromBE4(bytes, radiotap_len + 12),
       hdr |-> decode(bytes, sh_start),
       data |-> Slice(bytes, sh_start + WFB_PLAINTEXT_HDR_LEN, Len(bytes))]

(* What the walk of RadiotapWalk has before it, for the bytes of a message *)
(* with one present word.                                                  *)
HeaderOf(bytes) ==
  [len |-> Len(bytes), version |-> At(bytes, 0), radiotap_len |-> le_u16(bytes, 2),
   words |-> <<PresentWord(bytes)>>]

(* The receiver reads back what the sender meant: from the bytes of every  *)
(* message, failed sends and reopened senders before it included, the      *)
(* offsets and byte orders of the receiver's code recover the frame of     *)
(* that send - both headers, payload, rate and number - and the checks     *)
(* accept it, unless injected frames are to be ignored.                    *)
WireReadsBack ==
  /\ Len(wire) = Len(air)
  /\ \A i \in 1 .. Len(air) :
       LET p == PacketOf(wire[i])
           f == air[i]
       IN  /\ IsTemplate(HeaderOf(wire[i]))
           /\ p.hdr = f.hdr
           /\ FrameOf(p).payload = f.payload
           /\ p.rt.info = [mcs_index |-> f.mcs_index, bandwidth |-> f.bandwidth]
           /\ le_u16(wire[i], p.rt.radiotap_len + FRAME_SEQ_LB) = f.seq_control
           /\ At(wire[i], p.rt.radiotap_len) = f.frame_type
           /\ Accepts(p, FALSE)
           /\ ~Accepts(p, TRUE)

(* The filter of a receiver passes the frames of its stream and no other,  *)
(* whichever of its four bytes two streams differ in.                      *)
FilterSelectsStream ==
  \A i \in 1 .. Len(air), stream_id \in Streams :
    PcapFilter(wire[i], stream_id) <=> stream_id = air[i].stream
=============================================================================
