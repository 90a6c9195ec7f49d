# A TLA+ model of wfb_rs

wfb_rs sends and receives plaintext frames over Wi-Fi interfaces in monitor
mode. A sender (`WfbTx`) injects 802.11 frames through a packet socket; a
receiver (`WfbRx`) captures them with libpcap, picks those of its stream, and
hands them to the program through `recv`. A C ABI wraps both, and a Python
package wraps the C ABI.

This directory holds TLA+ modules of the parts that have state, TLC
configurations that check them on small instances, and TLAPS proofs for all
values of the constants. Run them from this directory:

    tlc -workers 2 -config RxRing.cfg MCWfbRx.tla
    tlapm WfbRx_proofs.tla

## 1. Inventory

| Part | State | Operations | Hard behaviour |
|---|---|---|---|
| `WfbRx` (src/rx.rs) | bounded ring over flat storage (`ring_*`), descriptor, capture, `ignore_self_injected` | `open`, `recv`, `Drop`; inside: `pop_one`, `enqueue_decoded`, `drain_pcap_nonblock`, `parse_and_enqueue_one_packet` | index arithmetic and wrap-around, overflow, deadlines across EINTR and spurious readiness, order between ring, drain and capture, error paths, the double close in `Drop` |
| Radiotap parser (src/rx.rs) | that of the walk: present words, field, offset, antenna slot | `radiotap_meta_from_packet` | alignment, extended present words, early stops, more antennas than slots, bounds |
| Frame codec (src/proto.rs) | none | `WfbFrameHeader::encode`, `decode`, `compute_max_payload` | byte order, limits |
| `WfbTx` (src/tx.rs) | descriptor, header templates, 16-bit 802.11 counter | `open`, `send`, `close`, `Drop` | error paths of `open` after the socket exists, `close` followed by `Drop`, the counter when `sendmsg` fails |
| C ABI (src/ffi.rs) | boxed objects behind opaque handles | `wfb_tx_*`, `wfb_rx_*` | ownership across the boundary, null handles, results through memory of the caller, two calls on one handle |
| Python package (python/) | `_closed`, `_handle`, a cached library | `Tx`, `Rx`: `send`, `recv`, `close`, `__exit__`, `__del__` | threads that use and close one object, Ctrl-C between two statements |
| Python example (python/examples) | a stop flag, two threads | read and send, receive, stop, join, close | a join with a time limit before close, Ctrl-C anywhere |
| Rust examples (examples/) | counters | threads that send and receive | - |

How they interact. The program calls `recv` or `send` on one thread at a time
per object (`&mut self`). `recv` polls the capture's descriptor and drains the
capture without blocking; the kernel fills the capture at any time, after the
BPF filter of `WfbRx::open`. Descriptor numbers are shared by everything in the
process. The C ABI turns an object into a pointer, and with it the compiler's
guarantees (one user at a time, no use after drop) into obligations of the
caller; the Python package keeps them only in part.

What makes each part correct:

- receiver: frames come out in order, once, complete or marked `truncated`;
  only the newest frames of a burst are lost, and only behind `ring_size` others;
  a timeout means that there was nothing to return and that the time is up;
  `recv` comes back.
- parser and checks: every field is read inside the packet and, in the namespace of
  radiotap, where the standard puts it; what is delivered lies inside the packet, without the checksum, and belongs
  to the stream.
- sender: every frame is built from the templates and the caller's payload, and its
  bytes read back as that frame; the socket is closed on every path and not used after.
- descriptors: an object that is in use has the number the kernel gave to it.
- C ABI and Python: the box is freed once and never used after; through codes and
  memory the caller still sees the receiver's queue.

PROJECT.json lists the hazards line by line.

## 2. Modules

| Module | Models | How |
|---|---|---|
| `RxPacket` | the checks of `parse_and_enqueue_one_packet`, limits of proto.rs | operators on an abstract packet: what the radiotap parser returned, the captured length, the decoded header, the payload bytes |
| `WfbRx` | the whole receiver with its surroundings | state machine; variables `ring_*` are the fields, `pc` the point `recv` is at, `kbuf` the capture, `elapsed` the clock of the call |
| `FrameQueue` | the promise of a receiver | abstract bounded FIFO queue with cut-to-buffer results and timeouts |
| `MCWfbRx` | - | packets, configurations and sizes for TLC |
| `WfbRx_proofs` | - | theorems about `WfbRx` |
| `FdLifecycle` | `open`, `close` and `Drop` of senders and receivers against the kernel's descriptor table | state machine; one step per system call that matters |
| `MCFdLifecycle`, `FdLifecycle_proofs` | - | symmetry for TLC; theorems |
| `PyHandle` | one `Tx` or `Rx` of api.py over ffi.rs, several threads | state machine; one step per statement that touches the shared fields or calls C |
| `MCPyHandle`, `PyHandle_proofs` | - | symmetry for TLC; theorems |
| `Radiotap` | the layout of a radiotap header: alignments, sizes, what is known | operators: the table of the code for the walk; apart from it, external, the table of the standard with what it asks of a sequence of reads (`LaidOut`, `DataFields`, `OnlyRadiotap`) |
| `RadiotapWalk` | `radiotap_meta_from_packet` | state machine; one step per present word and per field bit |
| `WfbTx` | the sender: checks and defaults of `open`, `send`, `close` | state machine; one action per call and outcome |
| `WfbWire` | the bytes: header templates, `encode` and `decode`, the message of `sendmsg`, the filter expression | `WfbTx` with the buffers of the sender and the bytes it hands to the kernel |
| `WfbLink` | two senders, the air, the driver and a receiver | composes two instances of `WfbTx` with `FrameQueue` and the checks of `RxPacket` |
| `WfbFfi` | `wfb_rx_*`, `wfb_tx_open`, `wfb_tx_close` and a C program | state machine over a `FrameQueue`; shown to be that queue again |
| `SimpleTxRx` | python/examples/simple_txrx.py | two threads around an instance of `PyHandle`, with a clock |
| `MCWfbTx`, `MCWfbLink`, `MCRadiotap`, `MCWfbFfi` | - | configurations, payloads, packets and frames for TLC |
| `WfbTx_proofs` (also of `WfbWire`), `WfbLink_proofs`, `Radiotap_proofs`, `WfbFfi_proofs`, `SimpleTxRx_proofs` | - | theorems |

### WfbRx: state and steps

The ring is modelled as it is in the code: one flat array of
`ring_size * max_payload` bytes, an array of lengths, an array of metadata, head,
tail and count. That is what makes order and overlap of slots something to check.
`Contents` reads the ring back as a sequence of frames; it is the refinement
mapping to `FrameQueue`.

`recv` is cut where something else can happen: at entry (`RecvEmptyBuf`,
`RecvReady`, `RecvWait`), at the top of the loop (`LoopPop`; then the clock is read,
`LoopExpired` or `LoopTime`), at the call of poll (`LoopPoll`), when poll returns (`PollTimeout`, `PollInterrupted`, `PollFails`,
`PollReady`) and at each `next_packet` of the drain (`DrainOne`, `DrainEnd`).
Between any two of them packets may arrive (`Arrive`) and time may pass (`Tick`). The
wait is computed from the clock read in `LoopTime` and begins in `LoopPoll`, so a thread
that is held up between the two is woken late by as much; the history variable `held`
counts it.
`DrainEnd` may happen while packets are there, because the code takes every pcap
error for the end of the data; `PollReady` may happen while none are there,
because the code does not read `revents`.

A tick of the clock is shorter than the millisecond poll counts in
(`TICKS_PER_MS`), so that cutting off with `as_millis` is visible; `I32_MAX_MS`
stands for `i32::MAX` and is small, so that the limit is reached.

Data is abstract where nothing depends on it: the radiotap metadata that is only
copied is one value (`info`), bytes are small numbers, the MTU is a constant. The
history variables are `burst`, the good frames the drain in progress has read, and
`last`, the number of the frame returned last; packets are numbered as they
arrive, in the field `seq` that the sender's program fills. `OurFrames` are the frames that the present settings let through.

### FdLifecycle: state and steps

`table` is the kernel's table, `fd[o]` the number object `o` remembers, `pc[o]` how
far its life has come. `Allocate` gives the lowest free number, as the kernel does;
`CloseFd` closes whatever the remembered number means at that moment. Every
failing exit of `WfbTx::open` and `WfbRx::open` is an action. `TxClose` and
`TxDropClosed` are the two closes of `WfbTx::close`; `RxDrop` and `RxDropCapture` are
the two closes of dropping a receiver. `ExplicitClose` says whether the program uses
`WfbTx::close` at all (the C ABI and Python never do). An object is `Pending` between its
two closes; `OpensApart` is the rule that nothing is opened while one is, and `RuleSpec`
the program that keeps it.

### PyHandle: state and steps

`closed` and `handle` are the Python fields, `freed` counts `Box::from_raw`. A thread
in state `native` is inside a C call with the interpreter lock released. `Interrupt` is
Ctrl-C, which Python raises in the main thread between two statements of an operation.
Two history variables: `overlap`, some close ran while another operation was in progress;
`cut`, a close was interrupted after the C call and before the statement that clears the
pointer.

### WfbTx: state and steps

`tx` is the open object (its templates as the fields they carry), `ieee80211_seq` its
counter. `TxOpen` makes the checks of `open` and `build_radiotap_ht` and applies the
defaults; `TxOpenFails` is a refused configuration or a socket error, either of them when
only the rate is bad, which is tested behind the socket. `Advance` is the
step of the counter, which `send` makes before `sendmsg`, so that `SendOk` and `SendFails`
both make it; `SendTooLarge` returns before it. A frame is the record of what a receiver
can tell apart, with two history fields: which `WfbTx` sent it and at which of its calls.

### WfbWire: state and steps

`ieee_hdr` and `radiotap_ht` are the two buffers of `WfbTx`, `wire` the bytes of every
message, beside the frames in `air`. `WireOpen` patches the templates as `open` and
`build_radiotap_ht` do, each send patches the counter into the same buffer
(`Numbered`, also when `sendmsg` then fails), `Message` puts the four parts together.
The way back reads those bytes with the offsets and byte orders of the receiver:
`PacketOf` cuts them as the parser does and gives the packet that `RxPacket` checks,
`PcapFilter` is the expression `WfbRx::open` compiles. `HeaderOf` is what the walk of
`RadiotapWalk` has before it for these bytes; `IsTemplate` in `Radiotap` says what the
template announces, and the run `Radiotap` shows how the walk reads such a header.

### RadiotapWalk: state and steps

`Refuse` and `Checked` are the tests before the loops; `ReadWord` and `WordOutside` one
turn of the loop over the present words; `Skip`, the stops, `FieldOutside`, `ReadField` and
`WalkEnds` one turn of the walk. A value taken from the packet is the offset it was read
at, so that what is checked is where the parser looks; what an MCS field announces is
chosen when it is read. `reads` is a history variable. `StepsLeft` bounds what the two loops
can still do, and `RefusedForCause` says when the answer may be `None`.

What is asked of the walk is said with the standard's own table (`STANDARD`), so that a
wrong entry in `field_layout` shows. `ReadsLaidOut`, `NothingMissed`, `SlotsMatch` and
`RefusedForCause`, and of `DecisionsSeen` that nothing is made up, are about headers of the
radiotap namespace (`OnlyRadiotap`): no word with bit 30, and bit 29 in every word but
the last. Bits of a vendor's word name no field of radiotap. A further word without bit 29
goes on with fields 32 and above, which the code would take for the first 32 again;
neither the comments nor the tests of rx.rs have such a header, and it is outside too.

### WfbFfi: state and steps

`rx_handle` and `tx_handle` are the variables of the C program, `boxes` what
`Box::into_raw` has given away and `Box::from_raw` has not taken back, `code`, `out_buf`,
`out_len` and `out_meta` what `wfb_rx_recv` writes. Every return of `wfb_rx_recv` is an
action: refused arguments, a frame, a timeout, a failure. The program passes null where
it likes, opens into null handles and forgets what it has closed, as
include/wfb_rs.h leaves to it. `Seen` reads the result back from code and memory; with it
in the place of `out` the program implements `FrameQueue`.

### SimpleTxRx: state and steps

`main` and `loop` are where the two threads are, `stop` is the event, the Rx is an instance
of `PyHandle`. `Tick` lets time pass; `waited` is how long the `recv` in progress has
waited for a packet, `joined` how long the join lasts. A `recv` may come back late or
never. `MainInterrupted` is Ctrl-C where no `except` is waiting for it. History:
`interrupted`, and `lag`, the time the receiving thread spends elsewhere than waiting for
a packet once it has been asked to stop.

### WfbLink: state and steps

Two senders: `near` on the receiver's own interface, `far` on another host. `heard` counts
how many frames of each the receiver's driver has seen. `Lost` skips the next one: not
heard, filtered out, refused, or met by a full capture or ring. `Heard` takes it: the
driver makes a packet of it (`Variants`: with or without the checksum; garbled and marked
BADFCS; a frame of the own host keeps the radiotap header it was injected with), the
filter and `Accepts` let it through, and it joins the queue. The receiver is the abstract
`FrameQueue`, which `WfbRx_proofs` proves `WfbRx` to implement. `origin` is a history
variable beside the queue: the sender and the index of every frame in it.

## 3. Runs

| Run | Bounds | Shows |
|---|---|---|
| `RxRing` | rings of 2 and 3, reopening, 4 packets of 1 or 2 bytes, capture of 4, buffers of 1 and 2, a timeout of 1 ms | order, contents after overflow and wrap-around, `IInv` as an invariant, and the refinement of `FrameQueue`; `recv` returns, packets are read |
| `RxCall` | 12 kinds of packet, good and bad configurations of two streams, timeouts of 0 to 5 half-milliseconds with a poll limit of 1 ms, 2 packets | type correctness; poll never wakes a call past its deadline, but for the time it was held up; timeouts are honest; nothing foreign is kept, also when the receiver is reopened on another stream |
| `RxZeroTimeout` | timeout 0 only | a finding: the capture is never read |
| `FdSafe` | 2 threads, 2 senders, 1 receiver, 1 file, 4 numbers, explicit close included; the program keeps the rule `OpensApart` | nothing leaks and nobody loses a descriptor |
| `FdRxDrop` | 2 threads, 1 sender, 1 receiver, 1 file | a finding: the double close in `WfbRx::drop` |
| `PyClose` | 3 threads, one of them interrupted by Ctrl-C, at most 2 frees before no more close begins | the box is freed once unless a close overlaps or is cut short at one place; a closed object holds no pointer |
| `SimpleTxRx` | a receive timeout of 2 ticks, a slack of 2, the join at most 5 | when close can overlap a recv, and when the timed join protects the Rx that close frees; the program ends |
| `Ffi` | 3 boxes, a queue of 2, 3 frames (one empty), buffers of 1 and 3 | the program owns exactly the boxes it holds, and sees the queue |
| `RadiotapVendor` | three words, the second in the namespace of a vendor | a finding: what follows a vendor namespace is read inside it |
| `Radiotap` | every set of 10 fields in one word, 2 words, every field of the standard behind an even and an odd offset, 6 words with up to 6 antennas, the packets of `RadiotapVendor`; packets that end early; malformed headers | fields are read where the standard's table puts them and inside the packet, none is missed, levels go with their antenna; a refusal has a cause in the packet; the header of our own sender is understood; the parser ends |
| `TxSend` | one `WfbTx` opened twice, 4 calls of `sendmsg` each, a counter of 3 numbers, 7 configurations of which 2 are good, 6 streams to filter for | numbers are fresh across failed sends and the wrap; the receiver's code reads every message back from its bytes, and the filter tells the streams apart |
| `Link` | 2 senders with 2 `sendmsg` each, 2 streams, 2 bytes of payload at most, empty payloads, queue of 2 | only what was sent on the stream is delivered; all that was sent can be |

Why the bounds are enough. Four packets into rings of two and three wrap both
indices and overflow both rings, and a capture of four lets one drain meet an
overflow. Two packets are enough for `RxCall`, whose properties are about the
clock: the number of signals and spurious wake-ups before a deadline has no bound, and
the deadline is several ticks away. The counter of `TxSend` wraps within one object's
sends, and its streams and its sequence number have a different digit in every byte; the
high byte of the counter stays 0 there, and only the proof covers it. `Link` has every
kind of packet from every sender in every order. The packets of `Radiotap` have every
alignment (1, 2, 4, 8), every field of the standard, an unknown one, both namespaces, and
more antennas than slots. Three threads let a close meet a use and another close. In
`SimpleTxRx` the join may end because the thread did, at its limit, or a tick late. What
the bounds might hide is covered by the proofs, which have none of them: `WfbRx_proofs`
holds for every MTU, ring size up to 128, set of packets and timeout.

Deadlock is checked in every run but `Radiotap`, `RadiotapVendor` and `SimpleTxRx`, whose
parser and program end.

### Findings

- **A timeout of 0 never reads the capture.** `recv` tests `elapsed >= timeout`
  (rx.rs:487) before it polls, so a call with timeout 0 and an empty ring gives up
  at once. A program that polls with 0 - which api.py:158 admits - never gets a
  packet. Run `RxZeroTimeout` shows it under all the fairness there is.
- **Dropping a receiver closes its descriptor twice.** rx.rs:519 closes the raw
  descriptor, and then the `pcap` field closes it again, as the comment two lines
  above says it will. Run `FdRxDrop` shows another thread's descriptor (in the trace a
  sender's socket) losing the number in between.
- **A vendor namespace is taken for a bit without data.** In radiotap.c, which rx.rs:112
  names as the source of the layout, bit 30 is a field of 6 bytes, aligned to 2, with the
  vendor's data behind it. rx.rs:173-177 goes on without moving the offset, where
  rx.rs:153-154 promises to advance over the arguments that are present. Run
  `RadiotapVendor` shows a bit of the vendor's word read as TSFT at the offset where the
  vendor's field lies.

`WfbTx::close` has the same shape (close, then `Drop`). No document says how it may be
used, so it is a hazard here and not a finding; `FdSafe` includes it.

## 4. Fairness

`RxRing` and `RxZeroTimeout` check `FairSpec`. Weak fairness: the clock advances, the
thread in `recv` is scheduled, poll returns when its wait is over and nothing is
readable, and the program calls `recv` again and again. Strong fairness says that
the outside world does not cut in at the same place for ever: the thread is not
held up past its deadline before it reads the clock each time (`LoopTime`), a poll that has a
packet to report is not interrupted by a signal each time (`PollReady` with packets),
and a read of a packet that is there does not fail each time (`DrainOne`). The code
retries in all three cases and has nothing else to rely on. Packets that arrive are
finitely many; the drain has no bound of its own, so against a stream that never
pauses it would not end.

`SimpleTxRx` checks `MainEnds` under weak fairness of the clock and of the main thread
after its loop (`MainStops`, `MainJoined`, `MainCloses`), which nothing in the program can
block for longer than the join. Nothing is asked of the receiving thread, which may stay
in `recv` for ever, nor of the end of the input.

## 5. Proofs

All theorems are proved for every value of the constants that satisfies the named
assumptions (`MtuAssumption`, `StreamAssumption`, `ByteAssumption`,
`ConfigAssumption`, `AirAssumption`, `BoundAssumption`, `ObjectAssumption`,
`ThreadAssumption`, `TimeAssumption`, `BufferAssumption`, `FrameAssumption`,
`PacketAssumption`, `SeqSpaceAssumption`, `TxConfigAssumption`, `PayloadAssumption`,
`LengthFieldAssumption`, `WidthAssumption`, `LinkAssumption`), which TLC evaluates in the
runs. They say of a constant what its type in the code says (a u32 is less than 2^32), or
that a bound is a number; `PacketAssumption` says that a packet has the present words its
bits announce, or ends before.

**WfbRx_proofs.** `Invariant` proves `Spec => []IInv`. None of the properties is
inductive alone: that an enqueue does not touch a waiting frame needs the slots to
be apart, which needs the tail to be where head and count say (`RingShape`) and
lengths to be within a slot (`TypeOK`); that a drain keeps the oldest frames needs
the ring to be empty when it begins (`PollsEmpty`, `BurstInDrain`); that frames stay in
order needs their numbers to be below the next one (`Numbered`); that a timeout is
honest needs to know how long poll was told to wait (`TimedWaits` between the reading of
the clock and the call, `PollWaits` from then on). That poll does not oversleep
(`WaitsInTime`) is a bound with `held` in it: what the code computes is exact at the
moment it reads the clock, and every tick before the call comes on top. The arithmetic is in
lemmas of its own (`Wrap`, `WrapStep`, `SlotsApart`); `PopContents` and
`EnqueueContents` say what the two ring operations do to the ring read as a sequence,
and every later step uses only those. From `IInv` follow `TypeCorrect`, `Ordered`,
`OldestKept`, `WaitsInTime`, `HonestTimeouts` (an action property), and
`ImplementsQueue`: initial states map to initial states of `FrameQueue`, and every step
maps to one of its steps or to a stutter. `AcceptInBounds` is about the checks alone:
an accepted packet holds all of the payload it announces.

`ZeroTimeoutNeverReads` shows the cause of the zero-timeout finding: the drain is reached
through poll alone, and poll only by a call whose time was not up (`PollsWithTime`, part of
`IInv`; lemma `ReadersWait`), so with no other timeout than 0 no step takes a packet from
the capture, for every configuration, capture and arrival; the run shows the loss, the
theorem that there is no instance without it. `KeepsOnlyOurs` follows what is kept from
the filter to the ring: the elements of a sequence survive `Tail` and `Append` (`OfTail`,
`OfAppend`), the two ring operations are `Tail` and `Append` of `Contents`, and a receiver
that is not open has an empty ring and capture, so that the settings of the next one start
with nothing that is older.

**FdLifecycle_proofs.** `NothingLeaks` holds for every program: whatever owns a number
in the table is alive and remembers that number. Both double closes (tx.rs:200,
rx.rs:519) need a condition on the program, and `RuleIsEnough` states it as a rule: if no
thread opens anything while an object is between its two closes, every object keeps its
descriptor, however many threads open and close in whatever way. The invariant adds that
between the two closes the number stays free. `SafeUseKeepsRule` shows which programs keep
the rule without trying: one thread, or senders that are only dropped and no receivers.
`OwnDescriptors` puts the two together; `FdRxDrop` shows that without the rule the property
fails.

**PyHandle_proofs.** `ClosedIsEmpty` holds for any interleaving. `FreedOnce` is proved from
`Exclusive`: without overlaps, a thread in `close` is alone, and once the box is freed the
handle is null or that thread is about to clear it; the one place where Ctrl-C breaks this
is the one `cut` records.

**SimpleTxRx_proofs.** The proof is composed from that of the wrapper. `UsesTheWrapper`
shows that every step of the example is a step of `PyHandle` on its Rx or leaves it alone,
so the example implements `PyHandle`; `RxKeepsPromises` instantiates `PyHandle_proofs` with
the two threads of the example and gets its three invariants for that Rx without proving
them again. What is left is the example's own part. `ContractKept`: close overlaps a
`recv` only after Ctrl-C or when the receiving thread lags by the slack. `TimeSpent` splits
the time since the stop flag into what the last `recv` waited and the lag of the thread;
`AfterJoin` says that once main is past an uninterrupted join, the thread has ended or the
join took `TIMEOUT + SLACK`, of which `recv` waits `TIMEOUT` at most, so that the lag is
`SLACK` or more. `JoinProtects` follows from the two: a program that keeps the contract
gets what the wrapper promises.

**WfbFfi_proofs.** `BoxesAreOwned` is proved with the types of the handles (`Handles`: a box
that is held is one that was made). `CProgramSeesQueue` is the refinement: after
`RecvFrame` the front of the buffer is what the receiver cut for it (`FrontOfBuffer`,
`CutFits`), so that `Seen` is its result, and every other call leaves queue and capacity
alone.

**Radiotap_proofs.** One invariant carries the theorems. `Stages` says which present
words have been read, and that only the last has no extension bit; `InOrder`, `Covered` and
`Counted` say that `reads` is increasing, is exactly the data fields before
`field_index`, and has as many antennas as `ant_idx`; `Stopped` why a walk ended. Where
fields lie needs the arithmetic of alignment (`AlignUp` finds the only multiple closer than
the alignment). The invariant speaks of the walk as it is: it has the table of the code and
its bits without data (`ReadsByTable`, `DataByTable`), and holds of every header. Two lemmas
lead from there to the standard. `TableIsStandard`: on every field the code knows, its
alignment and size are those of the standard's table, which makes a wrong entry a failed
proof. `FieldsAgree`: where every word is of the radiotap namespace, the bits the walk
takes for data are the standard's (`DataFields`). That premise stands in
`FieldsWhereTheyLie`, `AllFieldsRead`, `LevelsOfTheirAntenna` and `NoneHasCause`; without it
the first two and the last are false, as the finding shows. That levels go with their antenna needs that within a word the bits of
signal (5) and noise (6) come before that of the antenna (11), and that a level that waits
for the antenna of its word is in the slot that antenna will take (`SlotsWait`).
`DecisionsNotMissed` adds that the walk cannot stop before bit 15 of the first word, all
bits below 18 but 14 being known there and one word holding one antenna (`FirstAntenna`).
`NoneHasCause` is the other half of `AllFieldsRead`: the parser gives up only where the
packet ends before something it announces, so nothing well formed of the radiotap namespace
is thrown away, and
`AcceptedFits` that it answers only for a header that the packet holds. `TemplateUnderstood`
joins the two sides of the link: for every packet that begins like those of `build_radiotap_ht`
the walk reads exactly the two fields of the template, at offsets 8 and 10.
`ParserEnds` proves a variant, `StepsLeft`, which every step lowers: termination is an
action property here, and needs no fairness.

**WfbTx_proofs.** `TxTypeCorrect` holds for every set of configurations and payloads: what
`open` admits after its defaults is in range, and a length `send` admits survives the
cast to u16. `FreshNumbers` is proved from `Counted`: the counter is 16 times the number of
sends, less a whole number of rounds, and every frame on the air shows the count of its
send. Two equal numbers then differ by a whole number of rounds (`Round`, `ShowsApart`).
`ReadsBackAlways` and `FilterSelects` are about the bytes. `WireInv` says of the buffers that
they are the templates patched for the open object, and of every message that its bytes lie
where the frame says (`Laid`): the header survives every patch of the counter
(`NumberedHeader`), and the four parts stand one behind the other (`FourParts`). From
`Laid` alone the receiver's reads follow, field by field (`LaidPresent`, `LaidInfo`,
`LaidDecodes`, `LaidPayload`, `LaidFilter`), since digits in base 256 put together again
are the number (`FourDigits`, `TwoDigits`). `WireImplementsTx` shows that the sender with
buffers implements `WfbTx`; `NumbersOnWire` brings its two invariants over.

**WfbLink_proofs.** `WellMadeIsAccepted` is about the checks alone: a frame within the
limits of `send` passes all of them, at every length of the radiotap header, with the
checksum or without. `LimitsAgree` adds that all that is on the air is of that kind.
`DeliveredIsSent` is proved from `Made` (what the senders and the queue are made of) and
`Traced` (every frame in the queue is the frame its `origin` points to): a garbled packet is
refused, and what is cut out of an accepted one is the payload without the checksum.

Model-checked only: `RecvReturns`, `CaptureIsRead` and `MainEnds` (liveness under fairness is
out of the proof system's reach; `ZeroTimeoutNeverReads` and `ParserEnds` are the safety parts
of it that can be proved), and the findings, of which `ZeroTimeoutNeverReads` proves the
first.
Every invariant and action property that a passing run checks is the subject of a theorem.

## 6. Not modelled

- The Rust examples. `simple_txrx.rs` and `bandwidth.rs` are straight loops around `send` and
  `recv` with counters and printing; each object belongs to one thread by the type system
  and nothing is closed while it is used. The endless join of `simple_txrx.rs` is a hazard
  in the list.
- `wfb_tx_send`, which is `WfbTx::send` behind two null checks; `catch_unwind`, which guards
  against panics that the modelled code cannot reach.
- The Python package's search for the shared library and the cache of `get_capi`.
- 802.11 retransmission and hardware duplicate filtering; frames are sent without
  acknowledgement (NOACK in the template).
- Two calls of `recv` at once on one object. Rust forbids it, the C ABI does not; what
  would happen is undefined.
- `rcv_buf_size` of `WfbRxConfig`: no code reads it.
- Build, packaging, tests: they have no behaviour of the program at run time.

## 7. Plan

1. Done: receiver with its queue, descriptors, Python handles, sender, link between senders
   and a receiver, with their proofs.
2. Done: the radiotap walk against the standard's own table, the bytes of a frame and the way
   back, the C ABI as the queue again, the Python example as a client of `PyHandle`, Ctrl-C;
   with their proofs, and the proof of `DeliveredIsSent`.
3. Done: the proofs put together from parts (the example on the wrapper, the wire on the
   sender, the discipline of descriptors as a rule), the reasons of a refusal, the end of
   the parser, what a receiver reads and keeps.
4. Left: `WfbLink` over `WfbWire`, so that the link starts from bytes; `wfb_tx_send` in
   `WfbFfi` over `WfbTx`; a rate that the drain can be outrun at, once a document says what
   `recv` promises there.
