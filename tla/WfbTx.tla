-------------------------------- MODULE WfbTx --------------------------------
(***************************************************************************)
(* The sender of src/src/tx.rs: open with its checks and defaults, send    *)
(* with the two headers it fills, close.  What happens to the descriptor   *)
(* is module FdLifecycle.  A frame is the record of the fields a receiver  *)
(* can tell apart; air is every frame sendmsg has accepted.                *)
(***************************************************************************)
EXTENDS RxPacket

CONSTANTS
  TxConfigs,     \* the WfbTxConfig values open is called with
  Payloads,      \* the payloads passed to send
  Seqs,          \* the sequence numbers passed to send, u32
  SEQ16,         \* 2^16, the range of the 802.11 sequence control field
  MaxSends,      \* bound: calls of sendmsg by one WfbTx
  MaxOpens       \* bound: WfbTx objects opened one after the other

VARIABLES
  tx,              \* the open WfbTx without its counter, or NoTx
  ieee80211_seq,   \* the counter of struct WfbTx
  tx_result,       \* what the last call returned
  air,             \* history: the frames injected, in order
  sends,           \* history: how often this WfbTx called sendmsg
  opens            \* history: how many were opened

tx_vars == <<tx, ieee80211_seq, tx_result, air, sends, opens>>

(* (seq_num << 4) + fragment_num: the number advances by one. *)
SEQ_STEP == 16

WFB_FRAME_TYPE_DATA == 8
WFB_FRAME_TYPE_RTS == 180

ASSUME SeqSpaceAssumption ==
  /\ SEQ16 \in Nat \ {0}
  /\ SEQ16 % SEQ_STEP = 0

ASSUME TxConfigAssumption ==
  \A cfg \in TxConfigs : /\ cfg.stream_id \in Streams \cup {0}
                         /\ cfg.mcs_index \in Nat
                         /\ cfg.bandwidth \in Nat

ASSUME PayloadAssumption ==
  /\ Payloads \subseteq Seq(Byte)
  /\ Seqs \subseteq Nat
  /\ MaxSends \in Nat
  /\ MaxOpens \in Nat

(* A payload length that send admits fits in the u16 of the header. *)
ASSUME LengthFieldAssumption == WIFI_MTU <= 65536

NoTx == [stream |-> 0]

(* The fields of the radiotap header template that announce what follows. *)
PresentBare == {"MCS"}
PRESENT == {"TX_FLAGS", "MCS"}

(* Zero asks for the default. *)
Mcs(cfg) == IF cfg.mcs_index = 0 THEN 1 ELSE cfg.mcs_index
Bandwidth(cfg) == IF cfg.bandwidth = 0 THEN 20 ELSE cfg.bandwidth

(* What open checks before it makes a socket. *)
ArgsOK(cfg) ==
  /\ cfg.iface # ""
  /\ cfg.stream_id # 0
  /\ cfg.frame_type \in {WFB_FRAME_TYPE_DATA, WFB_FRAME_TYPE_RTS}

(* And with the checks of build_radiotap_ht, behind the socket. *)
TxConfigUnchecked(cfg) == ArgsOK(cfg)
TxConfigOK(cfg) == ArgsOK(cfg) /\ Mcs(cfg) <= 15 /\ Bandwidth(cfg) \in {20, 40}

TxInit ==
  /\ tx = NoTx
  /\ ieee80211_seq = 0
  /\ tx_result = "none"
  /\ air = << >>
  /\ sends = 0
  /\ opens = 0

TxOpen(cfg) ==
  /\ tx = NoTx
  /\ opens < MaxOpens
  /\ TxConfigOK(cfg)
  /\ tx' = [stream |-> cfg.stream_id, frame_type |-> cfg.frame_type,
            mcs_index |-> Mcs(cfg), bandwidth |-> Bandwidth(cfg)]
  /\ ieee80211_seq' = 0
  /\ tx_result' = "ok"
  /\ sends' = 0
  /\ opens' = opens + 1
  /\ UNCHANGED air

(* The arguments are refused; or else the socket, the look-up of the       *)
(* interface or bind fails, or the name of the interface is too long, or,  *)
(* behind all of them, the rate is refused.                                *)
TxOpenFails(cfg) ==
  /\ tx = NoTx
  /\ tx_result' \in IF ArgsOK(cfg) THEN {"Io", "InvalidArgument"} ELSE {"InvalidArgument"}
  /\ UNCHANGED <<tx, ieee80211_seq, air, sends, opens>>

TxClose ==
  /\ tx # NoTx
  /\ tx' = NoTx
  /\ UNCHANGED <<ieee80211_seq, tx_result, air, sends, opens>>

(* The frame of one send: the templates, the plaintext header (the length  *)
(* cast to u16), the payload.                                              *)
Frame(payload, seq) ==
  [present |-> PRESENT, mcs_index |-> tx.mcs_index, bandwidth |-> tx.bandwidth,
   frame_type |-> tx.frame_type, stream |-> tx.stream, seq_control |-> ieee80211_seq,
   hdr |-> [version |-> WFB_PROTO_VERSION, seq |-> seq,
            payload_len |-> Len(payload) % 65536, flags |-> 0],
   payload |-> payload,
   nth |-> sends, session |-> opens]

SendTooLarge(payload) ==
  /\ tx # NoTx
  /\ Len(payload) > compute_max_payload
  /\ tx_result' = "InvalidArgument"
  /\ UNCHANGED <<tx, ieee80211_seq, air, sends, opens>>

(* The counter advances before sendmsg, whose failure does not undo it. *)
AdvanceByOne ==
  /\ sends < MaxSends
  /\ ieee80211_seq' = (ieee80211_seq + 1) % SEQ16
  /\ sends' = sends + 1

Advance ==
  /\ sends < MaxSends
  /\ ieee80211_seq' = (ieee80211_seq + SEQ_STEP) % SEQ16
  /\ sends' = sends + 1

SendOk(payload, seq) ==
  /\ tx # NoTx
  /\ Len(payload) <= compute_max_payload
  /\ Advance
  /\ air' = Append(air, Frame(payload, seq))
  /\ tx_result' = "ok"
  /\ UNCHANGED <<tx, opens>>

SendFails(payload) ==
  /\ tx # NoTx
  /\ Len(payload) <= compute_max_payload
  /\ Advance
  /\ tx_result' = "Io"
  /\ UNCHANGED <<tx, air, opens>>

TxNext ==
  \/ \E cfg \in TxConfigs : TxOpen(cfg) \/ TxOpenFails(cfg)
  \/ TxClose
  \/ \E p \in Payloads : SendTooLarge(p) \/ SendFails(p) \/ \E s \in Seqs : SendOk(p, s)

TxSpec == TxInit /\ [][TxNext]_tx_vars
-----------------------------------------------------------------------------
(* The fields of the sender, and the frames it has injected.               *)
FrameTypes == {WFB_FRAME_TYPE_DATA, WFB_FRAME_TYPE_RTS}

Frames ==
  [present : {PRESENT}, mcs_index : 1 .. 15, bandwidth : {20, 40}, frame_type : FrameTypes,
   stream : Streams, seq_control : 0 .. SEQ16 - 1, hdr : Header, payload : Payloads,
   nth : Nat, session : Nat]

TxTypeOK ==
  /\ tx = NoTx \/ /\ tx.stream \in Streams
                  /\ tx.frame_type \in FrameTypes
                  /\ tx.mcs_index \in 1 .. 15
                  /\ tx.bandwidth \in {20, 40}
  /\ ieee80211_seq \in 0 .. SEQ16 - 1
  /\ tx_result \in {"none", "ok", "InvalidArgument", "Io"}
  /\ sends \in Nat
  /\ opens \in Nat
  /\ air \in Seq(Frames)

(* A receiver that drops repeated sequence numbers, as 802.11 hardware     *)
(* does, loses nothing: two frames of one WfbTx carry the same number only *)
(* when the counter has gone round between them, sends that failed         *)
(* included, and the fragment number stays 0 across the wrap.              *)
SeqControlFresh ==
  /\ \A i \in 1 .. Len(air) : air[i].seq_control % SEQ_STEP = 0
  /\ \A i, j \in 1 .. Len(air) :
       /\ i < j
       /\ air[i].session = air[j].session
       /\ (air[j].nth - air[i].nth) * SEQ_STEP < SEQ16
       => air[i].seq_control # air[j].seq_control
=============================================================================
