-------------------------------- MODULE WfbLink --------------------------------
(***************************************************************************)
(* Two senders and a receiver: near sits on the interface of the receiver, *)
(* as in the simple_txrx examples, far on another host.  The senders are   *)
(* WfbTx, the receiver is the queue of FrameQueue, which WfbRx is shown to *)
(* implement, fed through the capture's filter and the checks of RxPacket. *)
(*                                                                         *)
(* The air loses frames and garbles them.  A driver captures a frame of    *)
(* another host with a radiotap header of its own, with the checksum or    *)
(* without, and a frame of its own host with the radiotap header it was    *)
(* injected with.                                                          *)
(***************************************************************************)
EXTENDS RxPacket

CONSTANTS
  NearConfigs, FarConfigs,      \* what the two senders are opened with
  NearPayloads, FarPayloads,    \* what they send
  Seqs, SEQ16, MaxSends, MaxOpens,
  MinCap, MaxCap, BufSizes,     \* the receiver's capacity and buffers
  RadiotapLen,                  \* length of a captured radiotap header
  Fcs,                          \* the four checksum bytes
  Noise                         \* payloads a garbled frame may seem to carry

VARIABLES
  near_tx, near_seq, near_result, near_air, near_sends, near_opens,
  far_tx, far_seq, far_result, far_air, far_sends, far_opens,
  heard,                   \* how many frames of each the receiver's driver has seen
  cap, q, out,             \* the receiver as a FrameQueue
  filter, ignore_self_injected,
  origin                   \* history: the sender and index of every frame in q

near_vars == <<near_tx, near_seq, near_result, near_air, near_sends, near_opens>>
far_vars == <<far_tx, far_seq, far_result, far_air, far_sends, far_opens>>
rx_vars == <<cap, q, out, filter, ignore_self_injected, origin>>
vars == <<near_vars, far_vars, heard, rx_vars>>

Near == INSTANCE WfbTx
  WITH TxConfigs <- NearConfigs, Payloads <- NearPayloads, tx <- near_tx,
       ieee80211_seq <- near_seq, tx_result <- near_result, air <- near_air,
       sends <- near_sends, opens <- near_opens

Far == INSTANCE WfbTx
  WITH TxConfigs <- FarConfigs, Payloads <- FarPayloads, tx <- far_tx,
       ieee80211_seq <- far_seq, tx_result <- far_result, air <- far_air,
       sends <- far_sends, opens <- far_opens

Senders == {"near", "far"}

Air(s) == IF s = "near" THEN near_air ELSE far_air

ASSUME LinkAssumption ==
  /\ Fcs \in Seq(Byte) /\ Len(Fcs) = 4
  /\ RadiotapLen \in Nat \ {0} /\ RadiotapLen >= 8
  /\ NearPayloads \cup FarPayloads \cup Noise \subseteq Seq(Byte)
  /\ Seqs \subseteq Nat
  /\ WIFI_MTU <= 65536
  /\ MinCap \in Nat \ {0} /\ MaxCap \in Nat

(* Frame f of sender s in the capture: with its checksum or without. *)
Captured(s, f, flags) ==
  LET tail == IF "FCS" \in flags THEN Fcs ELSE << >>
  IN  [rt |-> [parsed |-> TRUE, self_injected |-> s = "near" /\ "TX_FLAGS" \in f.present,
               rt_flags |-> flags, radiotap_len |-> RadiotapLen,
               info |-> CHOOSE i \in Infos : TRUE],
       len |-> RadiotapLen + IEE80211_HEADER_LEN + WFB_PLAINTEXT_HDR_LEN + Len(f.payload \o tail),
       stream |-> f.stream, hdr |-> f.hdr, data |-> f.payload \o tail]

(* The frame garbled: any payload and a length that need not fit, marked.  *)
Garble(f, noise, n) == [f EXCEPT !.payload = noise, !.hdr.payload_len = n]

Garbled(s, f) ==
  {Captured(s, Garble(f, noise, n), {"FCS", "BADFCS"}) :
     noise \in Noise, n \in 0 .. compute_max_payload}

(* What the driver may hand over for it: a frame of another host with the  *)
(* checksum kept or stripped, or garbled; a frame of this host as it was   *)
(* injected.                                                               *)
Variants(s, f) ==
  IF s = "near" THEN {Captured(s, f, {})}
  ELSE {Captured(s, f, flags) : flags \in {{}, {"FCS"}}} \cup Garbled(s, f)

QueueFrames ==
  {[payload |-> p, meta |-> [seq |-> n, flags |-> 0, info |-> i, truncated |-> FALSE]] :
     p \in NearPayloads \cup FarPayloads \cup Noise, n \in Seqs, i \in Infos}

Queue == INSTANCE FrameQueue WITH Frames <- QueueFrames

Init ==
  /\ Near!TxInit
  /\ Far!TxInit
  /\ Queue!Init
  /\ heard = [s \in Senders |-> 0]
  /\ filter = 0 /\ ignore_self_injected = FALSE
  /\ origin = << >>

NearStep == Near!TxNext /\ UNCHANGED <<far_vars, heard, rx_vars>>
FarStep == Far!TxNext /\ UNCHANGED <<near_vars, heard, rx_vars>>

RxOpen ==
  /\ Queue!Open
  /\ filter' \in Streams
  /\ ignore_self_injected' \in BOOLEAN
  /\ UNCHANGED <<near_vars, far_vars, heard, origin>>

RxClose ==
  /\ Queue!Close
  /\ filter' = 0
  /\ ignore_self_injected' = FALSE
  /\ origin' = << >>
  /\ UNCHANGED <<near_vars, far_vars, heard>>

RxRecv ==
  /\ \/ Queue!Dequeue /\ origin' = Tail(origin)
     \/ Queue!GiveUp /\ UNCHANGED origin
  /\ UNCHANGED <<near_vars, far_vars, heard, filter, ignore_self_injected>>

(* The next frame of s is not heard, or comes to nothing: it is filtered,  *)
(* refused, or met by a full ring or a full capture.                       *)
Lost(s) ==
  /\ heard[s] < Len(Air(s))
  /\ heard' = [heard EXCEPT ![s] = @ + 1]
  /\ UNCHANGED <<near_vars, far_vars, rx_vars>>

(* The capture takes p if it passes the filter; the drain takes it to the  *)
(* ring if it is accepted and there is room.                               *)
Take(s, p) ==
  /\ p.stream = filter
  /\ Accepts(p, ignore_self_injected)
  /\ Len(q) < cap
  /\ q' = Append(q, FrameOf(p))
  /\ Queue!Enqueue
  /\ origin' = Append(origin, [sender |-> s, index |-> heard[s] + 1])
  /\ UNCHANGED <<filter, ignore_self_injected>>

Heard(s) ==
  /\ heard[s] < Len(Air(s))
  /\ heard' = [heard EXCEPT ![s] = @ + 1]
  /\ \E p \in Variants(s, Air(s)[heard[s] + 1]) : Take(s, p)
  /\ UNCHANGED <<near_vars, far_vars>>

Next ==
  \/ NearStep \/ FarStep
  \/ RxOpen \/ RxClose \/ RxRecv
  \/ \E s \in Senders : Lost(s) \/ Heard(s)

Spec == Init /\ [][Next]_vars
-----------------------------------------------------------------------------
(* The frame that position i of the queue comes from. *)
Source(i) == Air(origin[i].sender)[origin[i].index]

(* What waits for recv is what was sent: the payload a program gave to     *)
(* send on this stream, byte for byte and without a checksum, with its     *)
(* sequence number - never a garbled frame, and never the program's own    *)
(* when these are ignored, for which the receiver relies on the TX_FLAGS   *)
(* that the sender puts in its radiotap header.                            *)
DeliveredWasSent ==
  /\ Len(q) = Len(origin)
  /\ \A i \in 1 .. Len(q) :
       /\ q[i].payload = Source(i).payload
       /\ q[i].meta.seq = Source(i).hdr.seq
       /\ Source(i).stream = filter
       /\ ignore_self_injected => origin[i].sender = "far"

(* Sender and receiver agree on every limit: no frame that send has let    *)
(* through - empty, of the greatest length, with the checksum kept or not  *)
(* - is refused by a receiver of its stream on another host.               *)
SentIsAcceptable ==
  \A i \in 1 .. Len(far_air), flags \in {{}, {"FCS"}}, ignore \in BOOLEAN :
    Accepts(Captured("far", far_air[i], flags), ignore)
=============================================================================
