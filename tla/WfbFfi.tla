-------------------------------- MODULE WfbFfi --------------------------------
(***************************************************************************)
(* The C ABI of src/src/ffi.rs and a program that uses it: opaque handles  *)
(* to boxed objects, results through out pointers, errors as codes.  The   *)
(* receiver in a box is the queue of FrameQueue, which WfbRx is shown to   *)
(* implement; of a sender only what its calls return matters here.         *)
(*                                                                         *)
(* The program does what include/wfb_rs.h leaves to it: its handle         *)
(* variables are null at first, it opens into one that is null, passes     *)
(* what it holds, null or not, and forgets a handle it has closed.         *)
(***************************************************************************)
EXTENDS Naturals, Sequences

CONSTANTS
  Frames, MinCap, MaxCap,
  BufSizes,        \* lengths of the buffers the program passes, positive
  StaleByte,       \* what is in its buffers before the first call
  MaxBoxes         \* bound: objects created

VARIABLES
  rx_handle, tx_handle,       \* the program's handles: Null or a box
  boxes,                      \* the boxes that were leaked to C and not freed
  made,                       \* how many were made
  code,                       \* what the last wfb_rx_recv returned, NoCode before
  out_buf, out_len, out_meta, \* the memory the program lends to wfb_rx_recv
  asked,                      \* history: that call passed an out_meta
  cap, q, out                 \* the receiver in the box, out what it returned

rx_vars == <<rx_handle, code, out_buf, out_len, out_meta, asked, cap, q, out>>
vars == <<rx_vars, tx_handle, boxes, made>>

WfbRx == INSTANCE FrameQueue

ASSUME BufferAssumption ==
  /\ BufSizes \subseteq Nat \ {0}
  /\ MaxBoxes \in Nat
  /\ MinCap \in Nat \ {0} /\ MaxCap \in Nat

(* A payload is a sequence of bytes, whatever a byte is. *)
ASSUME FrameAssumption ==
  \A f \in Frames : f.payload \in Seq({f.payload[i] : i \in 1 .. Len(f.payload)})

Null == 0
NoCode == 256

OK == 0
NULL_PTR == 1
INVALID_ARGUMENT == 2
IO == 3
PCAP == 4
TIMEOUT == 5

map_err(tag) ==
  CASE tag = "InvalidArgument" -> INVALID_ARGUMENT
    [] tag = "Io" -> IO
    [] tag = "Pcap" -> PCAP

(* WfbRxMeta::default, and the same in C. *)
DefaultMeta == [seq |-> 0, truncated |-> FALSE]

Init ==
  /\ rx_handle = Null /\ tx_handle = Null
  /\ boxes = {} /\ made = 0
  /\ code = NoCode
  /\ out_buf = << >> /\ out_len = 0 /\ out_meta = DefaultMeta
  /\ asked = TRUE
  /\ WfbRx!Init

(* Box::into_raw: a pointer that nobody holds yet; Box::from_raw and drop. *)
IntoRaw ==
  /\ made < MaxBoxes
  /\ made' = made + 1
  /\ boxes' = boxes \cup {made + 1}

FromRaw(box) == boxes' = boxes \ {box} /\ UNCHANGED made

Memory == <<out_buf, out_len, out_meta, asked>>
Receiver == <<cap, q, out>>
-----------------------------------------------------------------------------
RxOpenBoxesFirst ==
  /\ rx_handle = Null
  /\ IntoRaw
  /\ UNCHANGED <<rx_vars, tx_handle>>

(* wfb_rx_open and wfb_tx_open: a null cfg, out_handle or iface, an iface  *)
(* that is empty or not UTF-8, or what open refuses; out_handle is not     *)
(* touched.                                                                *)
RxOpenFails ==
  /\ rx_handle = Null
  /\ UNCHANGED vars

wfb_rx_open ==
  /\ rx_handle = Null
  /\ WfbRx!Open
  /\ IntoRaw
  /\ rx_handle' = made'
  /\ UNCHANGED <<tx_handle, code, Memory>>

wfb_tx_open ==
  /\ tx_handle = Null
  /\ IntoRaw
  /\ tx_handle' = made'
  /\ UNCHANGED rx_vars

(* Closing null is refused; the program forgets what it closed, and what   *)
(* that receiver returned.                                                 *)
wfb_rx_close ==
  /\ rx_handle # Null
  /\ FromRaw(rx_handle)
  /\ WfbRx!Close
  /\ rx_handle' = Null
  /\ code' = NoCode
  /\ UNCHANGED <<tx_handle, Memory>>

wfb_tx_close ==
  /\ tx_handle # Null
  /\ FromRaw(tx_handle)
  /\ tx_handle' = Null
  /\ UNCHANGED rx_vars
-----------------------------------------------------------------------------
(* wfb_rx_recv with a null handle, out_buf or out_len, or an empty buffer: *)
(* the receiver is not called.                                             *)
RecvRefused ==
  /\ code' \in IF rx_handle = Null THEN {NULL_PTR} ELSE {NULL_PTR, INVALID_ARGUMENT}
  /\ UNCHANGED <<rx_handle, tx_handle, boxes, made, Memory, Receiver>>

(* The buffer after part was written to it: the rest keeps what it had.    *)
Filled(n, part) == [i \in 1 .. n |-> IF i <= Len(part) THEN part[i] ELSE StaleByte]

(* to_c_meta, only when the program asks for it. *)
MetaOut(meta, wanted) ==
  /\ asked' = wanted
  /\ out_meta' = IF wanted THEN meta ELSE out_meta

Returns == UNCHANGED <<rx_handle, tx_handle, boxes, made>>

RecvFrame(wanted) ==
  /\ rx_handle # Null
  /\ WfbRx!Dequeue
  /\ \E n \in BufSizes : out' = WfbRx!Cut(Head(q), n) /\ out_buf' = Filled(n, out'.data)
  /\ out_len' = Len(out'.data)
  /\ MetaOut(out'.meta, wanted)
  /\ code' = OK
  /\ Returns

RecvTimeoutKeepsLen(wanted) ==
  /\ rx_handle # Null
  /\ WfbRx!GiveUp
  /\ MetaOut(DefaultMeta, wanted)
  /\ code' = TIMEOUT
  /\ UNCHANGED <<out_buf, out_len>>
  /\ Returns

RecvTimeout(wanted) ==
  /\ rx_handle # Null
  /\ WfbRx!GiveUp
  /\ out_len' = 0
  /\ MetaOut(DefaultMeta, wanted)
  /\ code' = TIMEOUT
  /\ UNCHANGED out_buf
  /\ Returns

(* poll failed: only the code says so, out_len and out_meta are not touched. *)
RecvError ==
  /\ rx_handle # Null
  /\ WfbRx!Fail
  /\ code' = map_err(out'.code)
  /\ UNCHANGED Memory
  /\ Returns

(* Frames arrive in the receiver between calls and while recv polls. *)
Arrive ==
  /\ WfbRx!Enqueue
  /\ UNCHANGED <<rx_handle, tx_handle, boxes, made, code, Memory>>

wfb_rx_recv == RecvRefused \/ RecvError \/ \E w \in BOOLEAN : RecvFrame(w) \/ RecvTimeout(w)

Next ==
  \/ wfb_rx_open \/ RxOpenFails \/ wfb_rx_close
  \/ wfb_tx_open \/ wfb_tx_close
  \/ wfb_rx_recv \/ Arrive

Spec == Init /\ [][Next]_vars
-----------------------------------------------------------------------------
(* The result as the program reads it from the code and its own memory;    *)
(* metadata it did not ask for is not compared.                            *)
Seen ==
  CASE code = NoCode -> WfbRx!NoResult
    [] code \in {NULL_PTR, INVALID_ARGUMENT} -> WfbRx!Failure("InvalidArgument")
    [] code = IO -> WfbRx!Failure("Io")
    [] code = PCAP -> WfbRx!Failure("Pcap")
    [] code = TIMEOUT /\ out_len = 0 /\ (asked => out_meta = DefaultMeta) -> WfbRx!Timeout
    [] OTHER -> [tag |-> "frame", data |-> SubSeq(out_buf, 1, out_len),
                 meta |-> IF asked \/ out.tag # "frame" THEN out_meta ELSE out.meta]

CProgram == INSTANCE FrameQueue WITH out <- Seen

(* Through codes and out pointers a C program still has the bounded queue  *)
(* that recv is: each frame once, in order and cut to the buffer of that   *)
(* call, no call that is refused or fails takes one, and a timeout after a *)
(* frame does not show that frame again.                                   *)
RefinesQueue == CProgram!Spec

(* A program that opens into null handles and forgets what it closed has   *)
(* exactly the boxes it holds: none is lost on an error path of open, none *)
(* is freed while held, and what it holds as a receiver is one.            *)
HandlesOwnBoxes ==
  /\ boxes = {rx_handle, tx_handle} \ {Null}
  /\ rx_handle # Null => rx_handle # tx_handle
  /\ cap # 0 <=> rx_handle # Null
=============================================================================
