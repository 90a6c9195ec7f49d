-------------------------------- MODULE WfbRx --------------------------------
(***************************************************************************)
(* The receiver of src/src/rx.rs: the WfbRx object with its bounded ring   *)
(* over flat byte storage, recv with its poll/drain loop, open and drop,   *)
(* against what surrounds it: the pcap buffer that fills while the program *)
(* does something else, the clock, signals and pcap errors.                *)
(*                                                                         *)
(* recv takes &mut self, so one call runs at a time; every other action    *)
(* may happen between any two of its steps.  A step of recv is the code    *)
(* between two points where the outside world can change what it sees: the *)
(* entry, the look at the clock at the top of the loop, the start of poll, *)
(* its return, and each next_packet of the drain.                          *)
(***************************************************************************)
EXTENDS RxPacket

CONSTANTS
  Configs,        \* the WfbRxConfig values open is called with
  NoInfo,         \* the metadata of WfbRxMeta::default()
  Air,            \* the packets that may be captured, before numbering
  BufSizes,       \* lengths of the non-empty buffers passed to recv
  Timeouts,       \* timeouts passed to recv, in clock ticks
  TICKS_PER_MS,   \* clock ticks in the millisecond poll counts in
  I32_MAX_MS,     \* i32::MAX, the longest wait poll is given
  MaxElapsed,     \* bound: the clock of one call stops here
  MaxArrivals,    \* bound: number of packets that arrive
  KbufCap         \* capacity of the pcap buffer, in packets

VARIABLES
  \* struct WfbRx
  ring_size, ignore_self_injected, ring_count, ring_head, ring_tail,
  ring_payload_store, ring_payload_len, ring_meta,
  \* the call in progress: its program point, arguments, clock and result
  pc, buf_len, timeout, elapsed, remaining_ms, wake, result,
  \* the pcap capture: the installed filter, the packets that wait
  filter, kbuf, arrived,
  \* history: frames the current drain has seen, seq of the last one returned,
  \* time lost between the clock and poll in this round of the loop
  burst, last, held

ring == <<ring_size, ring_count, ring_head, ring_tail, ring_payload_store,
          ring_payload_len, ring_meta>>
object == <<ring, ignore_self_injected, filter>>
call == <<pc, buf_len, timeout, elapsed, remaining_ms, held, wake, result>>
capture == <<kbuf, arrived>>
history == <<burst, last>>
vars == <<object, call, capture, history>>

(* Sizes of the ring: 0 asks for 16, and every request is clamped. *)
MinRing == 2
MaxRing == 128

ClampedNot(cfg) == IF cfg.ring_size = 0 THEN 16 ELSE cfg.ring_size

RingSize(cfg) ==
  LET asked == IF cfg.ring_size = 0 THEN 16 ELSE cfg.ring_size
  IN  IF asked < MinRing THEN MinRing ELSE IF asked > MaxRing THEN MaxRing ELSE asked

(* The n-th packet to arrive carries n as its seq. *)
Stamped(p, n) == [p EXCEPT !.hdr.seq = n]

ASSUME ConfigAssumption ==
  \A c \in Configs : /\ c.ring_size \in Nat
                     /\ c.ignore_self_injected \in BOOLEAN
                     /\ c.stream_id \in Streams \cup {0}

ASSUME AirAssumption == \A p \in Air : IsPacket(p)

ASSUME BoundAssumption ==
  /\ BufSizes \subseteq Nat \ {0}
  /\ Timeouts \subseteq 0 .. MaxElapsed
  /\ TICKS_PER_MS \in Nat \ {0}
  /\ I32_MAX_MS \in Nat \ {0}
  /\ MaxElapsed \in Nat
  /\ MaxArrivals \in Nat
  /\ KbufCap \in Nat

Smaller(a, b) == IF a <= b THEN a ELSE b

(* WfbRxMeta::default(), what a fresh slot holds. *)
DefaultMeta == [seq |-> 0, flags |-> 0, info |-> NoInfo, truncated |-> FALSE]

(* What the capture can hold, and the frames it can put in the ring. *)
AirPackets == {Stamped(p, n) : p \in Air, n \in 1 .. MaxArrivals}

AirFrames ==
  {FrameOf(c) : c \in {p \in AirPackets : \E ignore \in BOOLEAN : Accepts(p, ignore)}}

-----------------------------------------------------------------------------
(* Where slot idx begins in the flat store. *)
SlotOffsetShort(idx) == idx * (compute_max_payload - 1)

SlotOffset(idx) == idx * compute_max_payload

(* The frame in slot idx, and the frames of the ring, oldest first. *)
FrameAt(idx) ==
  [payload |-> [j \in 1 .. ring_payload_len[idx] |->
                  ring_payload_store[SlotOffset(idx) + j - 1]],
   meta |-> ring_meta[idx]]

Slot(i) == (ring_head + i - 1) % ring_size

Contents == [i \in 1 .. ring_count |-> FrameAt(Slot(i))]

Queue == INSTANCE FrameQueue
  WITH Frames <- AirFrames, MinCap <- MinRing, MaxCap <- MaxRing,
       cap <- ring_size, q <- Contents, out <- result

NoResult == Queue!NoResult
Timeout == Queue!Timeout
Failure(code) == Queue!Failure(code)

Empty == [i \in {} |-> 0]

(* No receiver is open. *)
Init ==
  /\ ring_size = 0 /\ ring_count = 0 /\ ring_head = 0 /\ ring_tail = 0
  /\ ring_payload_store = Empty /\ ring_payload_len = Empty /\ ring_meta = Empty
  /\ ignore_self_injected = FALSE /\ filter = 0
  /\ pc = "closed"
  /\ buf_len = 0 /\ timeout = 0 /\ elapsed = 0 /\ result = NoResult
  /\ remaining_ms = 0 /\ held = 0 /\ wake = 0
  /\ kbuf = << >> /\ burst = << >> /\ last = 0 /\ arrived = 0
-----------------------------------------------------------------------------
(* WfbRx::open.  The checks come first, then every pcap step (open,        *)
(* setnonblock, filter) may fail; on failure nothing is left behind.       *)
Open(cfg) ==
  /\ pc = "closed"
  /\ cfg.iface # "" /\ cfg.stream_id # 0
  /\ ring_size' = RingSize(cfg)
  /\ ring_count' = 0 /\ ring_head' = 0 /\ ring_tail' = 0
  /\ ring_payload_store' = [i \in 0 .. RingSize(cfg) * compute_max_payload - 1 |-> 0]
  /\ ring_payload_len' = [i \in 0 .. RingSize(cfg) - 1 |-> 0]
  /\ ring_meta' = [i \in 0 .. RingSize(cfg) - 1 |-> DefaultMeta]
  /\ ignore_self_injected' = cfg.ignore_self_injected
  /\ filter' = cfg.stream_id
  /\ pc' = "idle"
  /\ UNCHANGED <<buf_len, timeout, elapsed, remaining_ms, held, wake, result, capture, history>>

OpenFails(cfg) ==
  /\ pc = "closed"
  /\ result' = IF cfg.iface = "" \/ cfg.stream_id = 0
               THEN Failure("InvalidArgument") ELSE Failure("Pcap")
  /\ UNCHANGED <<object, pc, buf_len, timeout, elapsed, remaining_ms, held, wake, capture, history>>

(* Dropping the receiver: no call is in progress, recv borrows it. *)
Close ==
  /\ pc = "idle"
  /\ ring_size' = 0 /\ ring_count' = 0 /\ ring_head' = 0 /\ ring_tail' = 0
  /\ ring_payload_store' = Empty /\ ring_payload_len' = Empty /\ ring_meta' = Empty
  /\ ignore_self_injected' = FALSE /\ filter' = 0
  /\ pc' = "closed"
  /\ result' = NoResult
  /\ kbuf' = << >> /\ last' = 0
  /\ UNCHANGED <<buf_len, timeout, elapsed, remaining_ms, held, wake, arrived, burst>>

(* The driver hands a packet that passes the BPF filter to the capture. *)
PcapFilterOpen(p) == p.stream \in Streams

PcapFilter(p) == p.stream = filter

Arrive(p) ==
  /\ pc # "closed"
  /\ arrived < MaxArrivals
  /\ PcapFilter(p)
  /\ Len(kbuf) < KbufCap
  /\ arrived' = arrived + 1
  /\ kbuf' = Append(kbuf, Stamped(p, arrived'))
  /\ UNCHANGED <<object, call, history>>

(* Time passes while a call runs; outside a call nothing reads the clock.  *)
(* It stops early enough for every wait to end within the bound.           *)
Tick ==
  /\ pc \in {"loop", "timed", "poll", "drain"}
  /\ elapsed < MaxElapsed
  /\ pc = "timed" => elapsed + remaining_ms * TICKS_PER_MS < MaxElapsed
  /\ elapsed' = elapsed + 1
  /\ held' = IF pc = "timed" THEN held + 1 ELSE held
  /\ UNCHANGED <<object, pc, buf_len, timeout, remaining_ms, wake, result, capture, burst, last>>
-----------------------------------------------------------------------------
(* Back to the caller with value r. *)
Return(r) ==
  /\ pc' = "idle"
  /\ result' = r
  /\ buf_len' = 0 /\ timeout' = 0 /\ elapsed' = 0
  /\ remaining_ms' = 0 /\ held' = 0 /\ wake' = 0

(* pop_one: copy the oldest frame out, cut to the caller's n bytes. *)
PopOne(n) ==
  LET idx == ring_head
      to_copy == Smaller(ring_payload_len[idx], n)
  IN  /\ Return([tag  |-> "frame",
                 data |-> [j \in 1 .. to_copy |-> ring_payload_store[SlotOffset(idx) + j - 1]],
                 meta |-> [ring_meta[idx] EXCEPT
                             !.truncated = to_copy # ring_payload_len[idx]]])
      /\ ring_head' = (ring_head + 1) % ring_size
      /\ ring_count' = ring_count - 1
      /\ last' = ring_meta[idx].seq
      /\ UNCHANGED <<ring_size, ring_tail, ring_payload_store, ring_payload_len, ring_meta,
                     ignore_self_injected, filter, capture, burst>>

(* recv with an empty buffer. *)
RecvEmptyBuf ==
  /\ pc = "idle"
  /\ Return(Failure("InvalidArgument"))
  /\ UNCHANGED <<object, capture, history>>

(* recv while the ring holds a frame: no poll, no drain. *)
RecvReady(n) ==
  /\ pc = "idle"
  /\ ring_count > 0
  /\ PopOne(n)

(* recv with nothing in the ring: start the clock and enter the loop. *)
RecvWait(n, t) ==
  /\ pc = "idle"
  /\ ring_count = 0
  /\ pc' = "loop"
  /\ buf_len' = n
  /\ timeout' = t
  /\ elapsed' = 0
  /\ UNCHANGED <<object, remaining_ms, held, wake, result, capture, history>>
-----------------------------------------------------------------------------
(* The top of the loop: a frame to return, no time left, or another poll. *)
LoopPop ==
  /\ pc = "loop"
  /\ ring_count > 0
  /\ PopOne(buf_len)

LoopExpired ==
  /\ pc = "loop"
  /\ ring_count = 0
  /\ elapsed >= timeout
  /\ Return(Timeout)
  /\ UNCHANGED <<object, capture, history>>

(* What is left of the call, in whole milliseconds, as an i32. *)
RemainingMsFromStart == Smaller(timeout \div TICKS_PER_MS, I32_MAX_MS)

RemainingMs == Smaller((timeout - elapsed) \div TICKS_PER_MS, I32_MAX_MS)

LoopTimeFirst ==
  /\ pc = "loop"
  /\ elapsed < timeout
  /\ remaining_ms' = RemainingMs
  /\ pc' = "timed"
  /\ UNCHANGED <<object, buf_len, timeout, elapsed, held, wake, result, capture, history>>

(* Nothing in the ring and time left: the wait is fixed by this look at    *)
(* the clock.                                                              *)
LoopTime ==
  /\ pc = "loop"
  /\ ring_count = 0
  /\ elapsed < timeout
  /\ remaining_ms' = RemainingMs
  /\ pc' = "timed"
  /\ UNCHANGED <<object, buf_len, timeout, elapsed, held, wake, result, capture, history>>

(* poll begins, perhaps later: its wait counts from here. *)
LoopPoll ==
  /\ pc = "timed"
  /\ wake' = elapsed + remaining_ms * TICKS_PER_MS
  /\ remaining_ms' = 0
  /\ pc' = "poll"
  /\ UNCHANGED <<object, buf_len, timeout, elapsed, held, result, capture, history>>

(* poll returns 0: the wait is over and nothing is readable. *)
PollTimeout ==
  /\ pc = "poll"
  /\ kbuf = << >>
  /\ elapsed >= wake
  /\ Return(Timeout)
  /\ UNCHANGED <<object, capture, history>>

PollInterruptedGivesUp ==
  /\ pc = "poll"
  /\ Return(Timeout)
  /\ UNCHANGED <<object, capture, history>>

PollInterruptedRestarts ==
  /\ pc = "poll"
  /\ pc' = "loop"
  /\ elapsed' = 0
  /\ held' = 0 /\ wake' = 0
  /\ UNCHANGED <<object, buf_len, timeout, remaining_ms, result, capture, history>>

(* poll fails with EINTR: the loop goes round. *)
PollInterrupted ==
  /\ pc = "poll"
  /\ pc' = "loop"
  /\ held' = 0 /\ wake' = 0
  /\ UNCHANGED <<object, buf_len, timeout, elapsed, remaining_ms, result, capture, history>>

(* poll fails with any other error. *)
PollFails ==
  /\ pc = "poll"
  /\ Return(Failure("Io"))
  /\ UNCHANGED <<object, capture, history>>

PollReadySkipsDrain ==
  /\ pc = "poll"
  /\ pc' = "loop"
  /\ held' = 0 /\ wake' = 0
  /\ UNCHANGED <<object, buf_len, timeout, elapsed, remaining_ms, result, capture, history>>

(* poll returns 1.  revents is not read, so an error condition of the      *)
(* device looks the same as a packet: kbuf may be empty.                   *)
PollReady ==
  /\ pc = "poll"
  /\ pc' = "drain"
  /\ held' = 0 /\ wake' = 0
  /\ UNCHANGED <<object, buf_len, timeout, elapsed, remaining_ms, result, capture, history>>
-----------------------------------------------------------------------------
(* enqueue_decoded: the new frame is dropped when the ring is full. *)
RingFullLate == ring_count > ring_size

RingFull == ring_count >= ring_size

Enqueue(f) ==
  IF RingFull
  THEN UNCHANGED ring
  ELSE /\ ring_payload_len' = [ring_payload_len EXCEPT ![ring_tail] = Len(f.payload)]
       /\ ring_meta' = [ring_meta EXCEPT ![ring_tail] = f.meta]
       /\ ring_payload_store' =
            [k \in DOMAIN ring_payload_store |->
               IF k \in SlotOffset(ring_tail) .. SlotOffset(ring_tail) + Len(f.payload) - 1
               THEN f.payload[k - SlotOffset(ring_tail) + 1] ELSE ring_payload_store[k]]
       /\ ring_tail' = (ring_tail + 1) % ring_size
       /\ ring_count' = ring_count + 1
       /\ UNCHANGED <<ring_size, ring_head>>

(* drain_pcap_nonblock: one next_packet that yields a packet, parsed and   *)
(* enqueued or discarded.                                                  *)
DrainOne ==
  /\ pc = "drain"
  /\ kbuf # << >>
  /\ kbuf' = Tail(kbuf)
  /\ IF Accepts(Head(kbuf), ignore_self_injected)
     THEN /\ Enqueue(FrameOf(Head(kbuf)))
          /\ burst' = Append(burst, FrameOf(Head(kbuf)))
     ELSE UNCHANGED <<ring, burst>>
  /\ UNCHANGED <<ignore_self_injected, filter, call, arrived, last>>

(* The drain stops at the first Err of next_packet: nothing to read, or    *)
(* any other pcap error, which is not told apart.                          *)
DrainEnd ==
  /\ pc = "drain"
  /\ pc' = "loop"
  /\ burst' = << >>
  /\ UNCHANGED <<object, buf_len, timeout, elapsed, remaining_ms, held, wake, result, capture, last>>

Recv ==
  \/ LoopPop \/ LoopExpired \/ LoopTime \/ LoopPoll
  \/ PollTimeout \/ PollInterrupted \/ PollFails \/ PollReady
  \/ DrainOne \/ DrainEnd

RecvCall ==
  \/ RecvEmptyBuf
  \/ \E n \in BufSizes : RecvReady(n)
  \/ \E n \in BufSizes, t \in Timeouts : RecvWait(n, t)

Next ==
  \/ \E cfg \in Configs : Open(cfg) \/ OpenFails(cfg)
  \/ Close
  \/ \E p \in Air : Arrive(p)
  \/ Tick
  \/ RecvCall
  \/ Recv

Spec == Init /\ [][Next]_vars

(* Fairness.  The clock advances and the thread that runs recv is          *)
(* scheduled; poll returns once the capture is readable or its wait is     *)
(* over.  The program calls recv again and again.  Strong fairness says    *)
(* that the outside world does not cut in at the same point for ever: the  *)
(* thread is not kept from the clock past its deadline in every call, a    *)
(* signal does not hit every poll that has a packet, pcap does not fail on *)
(* every read of a packet that is there.                                   *)
Fairness ==
  /\ WF_vars(Tick)
  /\ WF_vars(LoopPop \/ LoopExpired \/ LoopTime)
  /\ WF_vars(LoopPoll)
  /\ WF_vars(PollTimeout)
  /\ WF_vars(DrainOne \/ DrainEnd)
  /\ WF_vars(\E n \in BufSizes : RecvReady(n))
  /\ WF_vars(\E n \in BufSizes, t \in Timeouts : RecvWait(n, t))
  /\ SF_vars(LoopTime)
  /\ SF_vars(kbuf # << >> /\ PollReady)
  /\ SF_vars(DrainOne)

FairSpec == Spec /\ Fairness
-----------------------------------------------------------------------------
(* Every variable has its type; in particular the ring is either absent or *)
(* of a size between 2 and 128, with an index below it, and the flat store *)
(* is exactly ring_size slots of max_payload bytes (struct WfbRx).         *)
RingTypeOK ==
  /\ ring_size \in {0} \cup MinRing .. MaxRing
  /\ ring_count \in 0 .. ring_size
  /\ ring_head \in Nat /\ ring_tail \in Nat
  /\ ring_size > 0 => ring_head < ring_size /\ ring_tail < ring_size
  /\ ring_payload_store \in [0 .. ring_size * compute_max_payload - 1 -> Byte]
  /\ ring_payload_len \in [0 .. ring_size - 1 -> 0 .. compute_max_payload]
  /\ ring_meta \in [0 .. ring_size - 1 ->
                      [seq : Nat, flags : Nat, info : Infos \cup {NoInfo}, truncated : {FALSE}]]

CallTypeOK ==
  /\ ignore_self_injected \in BOOLEAN
  /\ filter \in Streams \cup {0}
  /\ pc \in {"closed", "idle", "loop", "timed", "poll", "drain"}
  /\ ring_size = 0 <=> pc = "closed"
  /\ buf_len \in BufSizes \cup {0}
  /\ pc \in {"loop", "timed", "poll", "drain"} => buf_len \in BufSizes
  /\ timeout \in Timeouts \cup {0}
  /\ elapsed \in 0 .. MaxElapsed
  /\ remaining_ms \in Nat /\ held \in Nat /\ wake \in Nat

CaptureTypeOK ==
  /\ kbuf \in Seq(AirPackets)
  /\ arrived \in 0 .. MaxArrivals
  /\ burst \in Seq(AirFrames)
  /\ last \in 0 .. MaxArrivals

TypeOK == RingTypeOK /\ CallTypeOK /\ CaptureTypeOK

(* The tail is where head and count say it is: the two indices that        *)
(* enqueue_decoded and pop_one move separately never drift apart.          *)
RingShape == ring_size > 0 => ring_tail = (ring_head + ring_count) % ring_size

RingSeq(i) == Contents[i].meta.seq

(* Frames leave recv in the order in which the capture saw them, none of   *)
(* them twice: what was returned last is older than everything in the      *)
(* ring, which is in order and older than everything pcap still holds.     *)
InOrder ==
  /\ \A i, j \in 1 .. ring_count : i < j => RingSeq(i) < RingSeq(j)
  /\ \A i, j \in 1 .. Len(kbuf) : i < j => kbuf[i].hdr.seq < kbuf[j].hdr.seq
  /\ \A i \in 1 .. ring_count, j \in 1 .. Len(kbuf) : RingSeq(i) < kbuf[j].hdr.seq
  /\ \A i \in 1 .. ring_count : last < RingSeq(i)
  /\ \A j \in 1 .. Len(kbuf) : last < kbuf[j].hdr.seq

(* A drain loses a good frame only behind ring_size others: whatever came  *)
(* before, the ring holds exactly the oldest good frames this drain has    *)
(* read, byte for byte.  It needs every drain to begin with an empty ring, *)
(* which nothing in drain_pcap_nonblock says.                              *)
DrainKeepsOldest ==
  pc = "drain" => Contents = SubSeq(burst, 1, Smaller(Len(burst), ring_size))

(* recv gives up only with an empty ring and when the time is up, to the   *)
(* millisecond that as_millis cuts off and up to the i32::MAX that poll    *)
(* can wait: signals and packets that are not ours do not end the call.    *)
Expires == pc \in {"loop", "poll"} /\ pc' = "idle" /\ result' = Timeout

TimeoutHonest ==
  [][Expires => /\ ring_count = 0
                /\ \/ elapsed + TICKS_PER_MS > timeout
                   \/ elapsed >= I32_MAX_MS * TICKS_PER_MS]_vars

(* However often the loop goes round, a wait in poll passes the deadline   *)
(* of the call by no more than what the thread has lost since its last     *)
(* look at the clock: what earlier rounds have lost is made good.          *)
NoOversleep == pc = "poll" => wake <= timeout + held

(* What a receiver keeps is what it was opened for: every packet that      *)
(* waits in the capture is of its stream, and every frame of the ring is   *)
(* one its own settings accept, as it was parsed - after every reopening,  *)
(* whatever the slot held before.                                          *)
OurFrames ==
  {FrameOf(p) : p \in {c \in AirPackets : c.stream = filter /\ Accepts(c, ignore_self_injected)}}

OnlyOurs ==
  /\ \A j \in 1 .. Len(kbuf) : kbuf[j].stream = filter
  /\ \A i \in 1 .. ring_count : Contents[i] \in OurFrames

(* The ring, the storage arithmetic and the loop together are the queue of *)
(* FrameQueue: nothing is reordered, duplicated, mixed up or cut except by *)
(* the caller's buffer, and a timeout is reported only with nothing to     *)
(* return.                                                                 *)
RefinesQueue == Queue!Spec

(* A call that entered the loop comes back, whatever signals, readiness    *)
(* without packets and pcap errors do to it.                               *)
RecvReturns == pc \in {"loop", "timed", "poll", "drain"} ~> pc \in {"idle", "closed"}

(* What the capture holds is read in the end by a program that keeps       *)
(* calling recv.                                                           *)
CaptureIsRead == kbuf # << >> ~> kbuf = << >>

(* The inductive invariant behind the safety properties above. *)
Numbered ==
  /\ last <= arrived
  /\ \A i \in 1 .. ring_count : RingSeq(i) <= arrived
  /\ \A j \in 1 .. Len(kbuf) : kbuf[j].hdr.seq <= arrived

PollsEmpty == pc \in {"timed", "poll"} => ring_count = 0

(* poll, and the drain behind it, belong to a call with time to wait. *)
PollsWithTime == pc \in {"timed", "poll", "drain"} => timeout > 0

BurstInDrain == pc # "drain" => burst = << >>

(* A wait that poll was given ends at the deadline of the call, but for    *)
(* the part of a millisecond that was cut off and the limit of an i32; the *)
(* same of a wait that is to begin.                                        *)
NotBefore(end) ==
  \/ end + TICKS_PER_MS > timeout
  \/ end >= I32_MAX_MS * TICKS_PER_MS

PollWaits == pc = "poll" => NotBefore(wake)

TimedWaits ==
  pc = "timed" =>
    LET end == elapsed + remaining_ms * TICKS_PER_MS
    IN  NotBefore(end) /\ end <= timeout + held

IInv ==
  /\ TypeOK
  /\ RingShape
  /\ Contents \in Seq(AirFrames)
  /\ InOrder
  /\ Numbered
  /\ PollsEmpty
  /\ BurstInDrain
  /\ DrainKeepsOldest
  /\ NoOversleep
  /\ PollWaits
  /\ TimedWaits
  /\ PollsWithTime
=============================================================================
