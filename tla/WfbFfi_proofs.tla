----------------------------- MODULE WfbFfi_proofs -----------------------------
(***************************************************************************)
(* Proofs about WfbFfi: a C program owns exactly the boxes its handles     *)
(* point to, and sees the queue that recv is, for every capacity, buffer   *)
(* length, frame and number of opens.                                      *)
(***************************************************************************)
EXTENDS WfbFfi, Integers, SequenceTheorems, TLAPS

(* Handles are null or boxes made before; the queue holds frames.          *)
Handles ==
  /\ made \in Nat
  /\ rx_handle \in 0 .. made /\ tx_handle \in 0 .. made
  /\ q \in Seq(Frames)
  /\ cap # 0 <=> rx_handle # Null

IInv == Handles /\ HandlesOwnBoxes

(* What a call that only reads or fills the receiver leaves alone. *)
LEMMA SameBoxes ==
  ASSUME IInv, UNCHANGED <<rx_handle, tx_handle, boxes, made, cap>>, q' \in Seq(Frames)
  PROVE  IInv'
  BY DEF IInv, Handles, HandlesOwnBoxes

LEMMA OwnStep == IInv /\ [Next]_vars => IInv'
  <1> SUFFICES ASSUME IInv, [Next]_vars PROVE IInv'
    OBVIOUS
  <1> USE DEF Null
  <1>1. CASE UNCHANGED vars
    BY <1>1 DEF vars, rx_vars, IInv, Handles, HandlesOwnBoxes
  <1>2. CASE wfb_rx_open
    <2>1. /\ rx_handle = 0 /\ rx_handle' = made + 1 /\ made' = made + 1
          /\ boxes' = boxes \cup {made + 1} /\ tx_handle' = tx_handle
          /\ q' = q /\ cap' \in MinCap .. MaxCap
      BY <1>2 DEF wfb_rx_open, WfbRx!Open, IntoRaw
    <2>2. cap' # 0
      BY <2>1, BufferAssumption
    <2> QED BY <2>1, <2>2 DEF IInv, Handles, HandlesOwnBoxes
  <1>3. CASE RxOpenFails
    BY <1>3 DEF RxOpenFails, vars, rx_vars, IInv, Handles, HandlesOwnBoxes
  <1>4. CASE wfb_rx_close
    <2>1. /\ rx_handle # 0 /\ rx_handle' = 0 /\ made' = made
          /\ boxes' = boxes \ {rx_handle} /\ tx_handle' = tx_handle
          /\ q' = << >> /\ cap' = 0
      BY <1>4 DEF wfb_rx_close, WfbRx!Close, FromRaw
    <2> QED BY <2>1 DEF IInv, Handles, HandlesOwnBoxes
  <1>5. CASE wfb_tx_open
    BY <1>5 DEF wfb_tx_open, IntoRaw, rx_vars, IInv, Handles, HandlesOwnBoxes
  <1>6. CASE wfb_tx_close
    BY <1>6 DEF wfb_tx_close, FromRaw, rx_vars, IInv, Handles, HandlesOwnBoxes
  <1>7. CASE RecvRefused
    BY <1>7, SameBoxes DEF RecvRefused, Receiver, IInv, Handles
  <1>8. ASSUME NEW w \in BOOLEAN, RecvFrame(w) PROVE IInv'
    <2>1. q # << >> /\ q' = Tail(q) /\ q \in Seq(Frames) /\ cap' = cap
      BY <1>8 DEF RecvFrame, WfbRx!Dequeue, IInv, Handles
    <2>2. q' \in Seq(Frames)
      BY <2>1, HeadTailProperties
    <2> QED BY <1>8, <2>1, <2>2, SameBoxes DEF RecvFrame, Returns
  <1>9. ASSUME NEW w \in BOOLEAN, RecvTimeout(w) PROVE IInv'
    BY <1>9, SameBoxes DEF RecvTimeout, WfbRx!GiveUp, Returns, IInv, Handles
  <1>10. CASE RecvError
    BY <1>10, SameBoxes DEF RecvError, WfbRx!Fail, Returns, IInv, Handles
  <1>11. CASE Arrive
    <2>1. q \in Seq(Frames) /\ cap' = cap /\ \E f \in Frames : q' = Append(q, f)
      BY <1>11 DEF Arrive, WfbRx!Enqueue, IInv, Handles
    <2>2. q' \in Seq(Frames)
      BY <2>1
    <2> QED BY <1>11, <2>1, <2>2, SameBoxes DEF Arrive
  <1> QED
    BY <1>1, <1>2, <1>3, <1>4, <1>5, <1>6, <1>7, <1>8, <1>9, <1>10, <1>11
    DEF Next, wfb_rx_recv

LEMMA OwnInit == Init => IInv
  BY DEF Init, WfbRx!Init, IInv, Handles, HandlesOwnBoxes, Null

(* No error path of open loses a box and no call frees one that is held,   *)
(* however often a program opens and closes.                               *)
THEOREM BoxesAreOwned == Spec => []HandlesOwnBoxes
  <1>1. IInv => HandlesOwnBoxes
    BY DEF IInv
  <1> QED BY <1>1, OwnInit, OwnStep, PTL DEF Spec
-----------------------------------------------------------------------------
(* What a buffer holds after part was copied to its front. *)
LEMMA FrontOfBuffer ==
  ASSUME NEW S, NEW part \in Seq(S), NEW n \in Nat, Len(part) <= n
  PROVE  SubSeq(Filled(n, part), 1, Len(part)) = part
  <1> DEFINE b == Filled(n, part)
             c == SubSeq(b, 1, Len(part))
  <1>1. Len(part) \in Nat /\ \A i \in 1 .. Len(part) : part[i] \in S
    OBVIOUS
  <1>2. \A i \in 1 .. Len(part) : b[i] = part[i]
    BY <1>1 DEF Filled
  <1>3. \A i \in 1 .. Len(part) : b[i] \in S
    BY <1>1, <1>2
  <1> HIDE DEF b
  <1>4. /\ c \in Seq(S) /\ Len(c) = Len(part)
        /\ \A i \in 1 .. Len(part) : c[i] = b[i]
    <2>1. /\ c \in Seq(S) /\ Len(c) = IF 1 <= Len(part) THEN Len(part) - 1 + 1 ELSE 0
          /\ \A i \in 1 .. Len(part) - 1 + 1 : c[i] = b[1 + i - 1]
      BY <1>1, <1>3, SubSeqProperties
    <2>2. Len(part) - 1 + 1 = Len(part) /\ \A i \in 1 .. Len(part) : 1 + i - 1 = i
      BY <1>1
    <2> QED BY <1>1, <2>1, <2>2
  <1>5. \A i \in 1 .. Len(part) : c[i] = part[i]
    BY <1>2, <1>4
  <1> HIDE DEF c
  <1>6. c = part
    BY <1>1, <1>4, <1>5, SeqEqual
  <1> QED BY <1>6 DEF c, b

(* A cut frame fits in the buffer it was cut to. *)
LEMMA CutFits ==
  ASSUME NEW f \in Frames, NEW n \in Nat
  PROVE  LET data == WfbRx!Cut(f, n).data
         IN  Len(data) <= n /\ data \in Seq({f.payload[i] : i \in 1 .. Len(f.payload)})
  <1> DEFINE S == {f.payload[i] : i \in 1 .. Len(f.payload)}
             k == IF Len(f.payload) <= n THEN Len(f.payload) ELSE n
  <1>1. f.payload \in Seq(S)
    BY FrameAssumption
  <1>2. k \in Nat /\ k <= n /\ k <= Len(f.payload)
    BY <1>1
  <1>3. WfbRx!Cut(f, n).data = SubSeq(f.payload, 1, k)
    BY DEF WfbRx!Cut
  <1>4. \A i \in 1 .. k : f.payload[i] \in S
    BY <1>1, <1>2
  <1> HIDE DEF k, S
  <1>5. /\ SubSeq(f.payload, 1, k) \in Seq(S)
        /\ Len(SubSeq(f.payload, 1, k)) = IF 1 <= k THEN k - 1 + 1 ELSE 0
    BY <1>2, <1>4, SubSeqProperties
  <1> QED BY <1>2, <1>3, <1>5 DEF S

LEMMA SeesQueue == IInv /\ [Next]_vars => [CProgram!Next]_(CProgram!vars)
  <1> SUFFICES ASSUME IInv, [Next]_vars PROVE CProgram!Next \/ UNCHANGED CProgram!vars
    OBVIOUS
  <1>1. ASSUME UNCHANGED rx_vars PROVE UNCHANGED CProgram!vars
    BY <1>1 DEF rx_vars, CProgram!vars, Seen
  <1>2. CASE UNCHANGED vars \/ RxOpenFails \/ wfb_tx_open \/ wfb_tx_close
    BY <1>1, <1>2 DEF vars, RxOpenFails, wfb_tx_open, wfb_tx_close
  <1>3. CASE wfb_rx_open
    <2>1. cap = 0 /\ cap' \in MinCap .. MaxCap /\ UNCHANGED <<q, out>>
      BY <1>3 DEF wfb_rx_open, WfbRx!Open
    <2>2. Seen' = Seen
      BY <1>3, <2>1 DEF wfb_rx_open, Memory, Seen
    <2> QED BY <2>1, <2>2 DEF CProgram!Next, CProgram!Open
  <1>4. CASE wfb_rx_close
    <2>1. cap # 0 /\ cap' = 0 /\ q' = << >> /\ code' = NoCode
      BY <1>4 DEF wfb_rx_close, WfbRx!Close
    <2>2. Seen' = CProgram!NoResult
      BY <2>1 DEF Seen, NoCode, NULL_PTR, INVALID_ARGUMENT, IO, PCAP, TIMEOUT,
                   WfbRx!NoResult, CProgram!NoResult
    <2> QED BY <2>1, <2>2 DEF CProgram!Next, CProgram!Close
  <1>5. CASE RecvRefused
    <2>1. code' \in {NULL_PTR, INVALID_ARGUMENT} /\ UNCHANGED <<cap, q>>
      BY <1>5 DEF RecvRefused, Receiver
    <2>2. Seen' = CProgram!Failure("InvalidArgument")
      BY <2>1 DEF Seen, NULL_PTR, INVALID_ARGUMENT, IO, PCAP, TIMEOUT, NoCode,
                  WfbRx!Failure, CProgram!Failure
    <2> QED BY <2>1, <2>2 DEF CProgram!Next, CProgram!Fail, CProgram!Codes
  <1>6. CASE RecvError
    <2>1. PICK c \in {"InvalidArgument", "Io", "Pcap"} :
            out' = [tag |-> "err", code |-> c] /\ UNCHANGED <<cap, q>> /\ code' = map_err(out'.code)
      BY <1>6 DEF RecvError, WfbRx!Fail, WfbRx!Codes, WfbRx!Failure
    <2>2. code' = map_err(c)
      BY <2>1
    <2>3. Seen' = CProgram!Failure(c)
      BY <2>2 DEF Seen, map_err, NULL_PTR, INVALID_ARGUMENT, IO, PCAP, TIMEOUT, NoCode,
                  WfbRx!Failure, CProgram!Failure
    <2> QED BY <2>1, <2>3 DEF CProgram!Next, CProgram!Fail, CProgram!Codes
  <1>7. ASSUME NEW w \in BOOLEAN, RecvTimeout(w) PROVE CProgram!Next
    <2>1. cap # 0 /\ q = << >> /\ UNCHANGED <<cap, q>>
      BY <1>7 DEF RecvTimeout, WfbRx!GiveUp
    <2>2. code' = TIMEOUT /\ out_len' = 0 /\ (asked' => out_meta' = DefaultMeta)
      BY <1>7 DEF RecvTimeout, MetaOut
    <2>3. Seen' = CProgram!Timeout
      BY <2>2 DEF Seen, NULL_PTR, INVALID_ARGUMENT, IO, PCAP, TIMEOUT, NoCode,
                  WfbRx!Timeout, CProgram!Timeout
    <2> QED BY <2>1, <2>3 DEF CProgram!Next, CProgram!GiveUp
  <1>8. ASSUME NEW w \in BOOLEAN, RecvFrame(w) PROVE CProgram!Next
    <2>1. q # << >> /\ q' = Tail(q) /\ cap' = cap
      BY <1>8 DEF RecvFrame, WfbRx!Dequeue
    <2>2. PICK n \in BufSizes : out' = WfbRx!Cut(Head(q), n) /\ out_buf' = Filled(n, out'.data)
      BY <1>8 DEF RecvFrame
    <2>3. Head(q) \in Frames /\ n \in Nat
      <3>1. q \in Seq(Frames)
        BY DEF IInv, Handles
      <3> QED BY <2>1, <3>1, HeadTailProperties, BufferAssumption
    <2> DEFINE data == WfbRx!Cut(Head(q), n).data
    <2>4. Len(data) <= n /\ SubSeq(Filled(n, data), 1, Len(data)) = data
      BY <2>3, CutFits, FrontOfBuffer
    <2>5. out_len' = Len(data) /\ out_buf' = Filled(n, data) /\ code' = OK
          /\ (asked' => out_meta' = out'.meta)
      BY <1>8, <2>2 DEF RecvFrame, MetaOut
    <2>6. out'.tag = "frame" /\ out' = [tag |-> "frame", data |-> data, meta |-> out'.meta]
      BY <2>2 DEF WfbRx!Cut
    <2> HIDE DEF data
    <2>7. Seen' = [tag |-> "frame", data |-> data, meta |-> out'.meta]
      <3>1. Seen' = [tag |-> "frame", data |-> SubSeq(out_buf', 1, out_len'),
                     meta |-> IF asked' \/ out'.tag # "frame" THEN out_meta' ELSE out'.meta]
        BY <2>5 DEF Seen, OK, NULL_PTR, INVALID_ARGUMENT, IO, PCAP, TIMEOUT, NoCode
      <3>2. (IF asked' \/ out'.tag # "frame" THEN out_meta' ELSE out'.meta) = out'.meta
        BY <2>5, <2>6
      <3> QED BY <2>4, <2>5, <3>1, <3>2
    <2>8. Seen' = CProgram!Cut(Head(q), n)
      <3>1. CProgram!Cut(Head(q), n) = WfbRx!Cut(Head(q), n)
        BY DEF CProgram!Cut, WfbRx!Cut
      <3> QED BY <2>2, <2>6, <2>7, <3>1
    <2> QED BY <2>1, <2>8 DEF CProgram!Next, CProgram!Dequeue
  <1>9. CASE Arrive
    <2>1. Len(q) < cap /\ cap' = cap /\ \E f \in Frames : q' = Append(q, f)
      BY <1>9 DEF Arrive, WfbRx!Enqueue
    <2>2. Seen' = Seen
      BY <1>9 DEF Arrive, WfbRx!Enqueue, Memory, Seen
    <2> QED BY <2>1, <2>2 DEF CProgram!Next, CProgram!Enqueue
  <1> QED
    BY <1>2, <1>3, <1>4, <1>5, <1>6, <1>7, <1>8, <1>9 DEF Next, wfb_rx_recv

(* Codes, lengths and buffers tell a C program what recv tells a Rust one: *)
(* for every buffer length and frame the calls of wfb_rx_recv are those of *)
(* the bounded queue.                                                      *)
THEOREM CProgramSeesQueue == Spec => RefinesQueue
  <1>1. Init => CProgram!Init
    <2> SUFFICES ASSUME Init PROVE CProgram!Init
      OBVIOUS
    <2>1. cap = 0 /\ q = << >> /\ code = NoCode
      BY DEF Init, WfbRx!Init
    <2>2. Seen = CProgram!NoResult
      BY <2>1 DEF Seen, NULL_PTR, INVALID_ARGUMENT, IO, PCAP, TIMEOUT, NoCode,
                  WfbRx!NoResult, CProgram!NoResult
    <2> QED BY <2>1, <2>2 DEF CProgram!Init
  <1> QED BY <1>1, OwnInit, OwnStep, SeesQueue, PTL DEF Spec, RefinesQueue, CProgram!Spec
=============================================================================
