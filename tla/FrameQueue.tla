----------------------------- MODULE FrameQueue -----------------------------
(***************************************************************************)
(* What a WfbRx promises the program that calls recv, with the ring, the   *)
(* poll loop and the clock left out: a bounded first-in first-out queue of *)
(* frames.  A call takes the oldest frame, cut to the caller's buffer and  *)
(* marked when it was cut, and may report a timeout only when there is no  *)
(* frame to give.  Module WfbRx is shown to implement this one.            *)
(***************************************************************************)
EXTENDS Naturals, Sequences

CONSTANTS
  Frames,    \* every frame that can be queued: [payload, meta] records
  MinCap,    \* smallest capacity a receiver can be opened with
  MaxCap,    \* largest capacity
  BufSizes   \* lengths of the buffers callers pass

VARIABLES
  cap,       \* capacity of the open receiver, 0 while there is none
  q,         \* the frames that wait for a recv, oldest first
  out        \* what the last call returned

vars == <<cap, q, out>>

(* The values a call can return. *)
NoResult == [tag |-> "none"]
Timeout  == [tag |-> "timeout"]
Failure(code) == [tag |-> "err", code |-> code]
Codes == {"InvalidArgument", "Io", "Pcap"}

(* A frame as a caller with room for n bytes sees it. *)
Cut(f, n) ==
  LET k == IF Len(f.payload) <= n THEN Len(f.payload) ELSE n
  IN  [tag  |-> "frame",
       data |-> SubSeq(f.payload, 1, k),
       meta |-> [f.meta EXCEPT !.truncated = k # Len(f.payload)]]

Init ==
  /\ cap = 0
  /\ q = << >>
  /\ out = NoResult

Open ==
  /\ cap = 0
  /\ cap' \in MinCap .. MaxCap
  /\ UNCHANGED <<q, out>>

Close ==
  /\ cap # 0
  /\ cap' = 0
  /\ q' = << >>
  /\ out' = NoResult

Enqueue ==
  /\ Len(q) < cap
  /\ \E f \in Frames : q' = Append(q, f)
  /\ UNCHANGED <<cap, out>>

Dequeue ==
  /\ q # << >>
  /\ \E n \in BufSizes : out' = Cut(Head(q), n)
  /\ q' = Tail(q)
  /\ UNCHANGED cap

GiveUp ==
  /\ cap # 0
  /\ q = << >>
  /\ out' = Timeout
  /\ UNCHANGED <<cap, q>>

Fail ==
  /\ \E c \in Codes : out' = Failure(c)
  /\ UNCHANGED <<cap, q>>

Next == Open \/ Close \/ Enqueue \/ Dequeue \/ GiveUp \/ Fail

Spec == Init /\ [][Next]_vars
=============================================================================
