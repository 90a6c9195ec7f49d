------------------------------ MODULE SimpleTxRx ------------------------------
(***************************************************************************)
(* python/examples/simple_txrx.py: the main thread reads lines and sends   *)
(* them, a daemon thread receives; at the end the main thread asks the     *)
(* other one to stop, joins it for a limited time, and leaves the with     *)
(* block, which closes the Rx whether the thread has ended or not.  The Rx *)
(* is a PyHandle.                                                          *)
(*                                                                         *)
(* The program is safe by its timing: the join waits for one receive       *)
(* timeout and a slack of 200 ms.  Time counts in ticks.                   *)
(***************************************************************************)
EXTENDS Naturals

CONSTANTS
  TIMEOUT,      \* timeout_ms
  SLACK,        \* the 0.2 s that join adds
  MaxJoin,      \* bound: how late the main thread may wake from the join
  MaxFrees

ASSUME TimeAssumption ==
  /\ TIMEOUT \in Nat /\ SLACK \in Nat \ {0}
  /\ MaxJoin \in Nat /\ MaxJoin >= TIMEOUT + SLACK

VARIABLES
  closed, handle, freed, pc, code, outcome, overlap, cut,   \* the Rx object
  main,           \* where the main thread is in run_simple_txrx
  loop,           \* where rx_loop is
  stop,           \* stop_event
  waited,         \* how long the recv in progress has waited, TIMEOUT at most
  joined,         \* how long the join has lasted
  interrupted,    \* history: Ctrl-C arrived outside the try or in its finally
  lag             \* history: time after stop_event.set() that rx_loop spent
                  \* elsewhere than waiting for a packet

rx_vars == <<closed, handle, freed, pc, code, outcome, overlap, cut>>
vars == <<rx_vars, main, loop, stop, waited, joined, interrupted, lag>>

Threads == {"main", "rx"}

Rx == INSTANCE PyHandle WITH Main <- "main"

JoinLimitShort == SLACK
JoinLimit == TIMEOUT + SLACK

Init ==
  /\ Rx!Init
  /\ main = "started"
  /\ loop = "top"
  /\ stop = FALSE
  /\ waited = 0 /\ joined = 0
  /\ interrupted = FALSE
  /\ lag = 0

(* recv waits for a packet, within its timeout. *)
Waiting == pc["rx"] = "native" /\ waited < TIMEOUT

(* Time passes for both threads. *)
Tick ==
  /\ joined < MaxJoin
  /\ waited' = IF Waiting THEN waited + 1 ELSE waited
  /\ joined' = IF main = "joining" THEN joined + 1 ELSE joined
  /\ lag' = IF main = "joining" /\ loop # "ended" /\ ~ Waiting THEN lag + 1 ELSE lag
  /\ UNCHANGED <<rx_vars, main, loop, stop, interrupted>>
-----------------------------------------------------------------------------
(* rx_loop: while not stop_event.is_set() ... *)
LoopTest ==
  /\ loop = "top"
  /\ loop' = IF stop THEN "ended" ELSE "recv"
  /\ UNCHANGED <<rx_vars, main, stop, waited, joined, interrupted, lag>>

(* ... rx.recv_optional(timeout_ms): the check of Rx.recv, the C call.     *)
(* recv returns a packet, a timeout or a failure, a packet at any time; a  *)
(* timeout when the time is up, or later when the thread is held up or the *)
(* drain goes on.                                                          *)
LoopRecv ==
  /\ loop = "recv"
  /\ \/ Rx!UseCheck("rx") \/ Rx!UseCall("rx")
     \/ Rx!UseReturn("rx", "ok") \/ Rx!UseReturn("rx", "error")
  /\ waited' = 0
  /\ loop' = IF pc'["rx"] # "idle" THEN "recv"
             ELSE IF outcome'["rx"] = "ok" THEN "print" ELSE "ended"
  /\ UNCHANGED <<main, stop, joined, interrupted, lag>>

LoopPrint ==
  /\ loop = "print"
  /\ loop' = "top"
  /\ UNCHANGED <<rx_vars, main, stop, waited, joined, interrupted, lag>>

RxThread == LoopTest \/ LoopRecv \/ LoopPrint
-----------------------------------------------------------------------------
MainGoes(from, to) ==
  /\ main = from
  /\ main' = to
  /\ UNCHANGED <<rx_vars, loop, waited, joined, lag>>

(* The try is entered after the thread was started. *)
MainTry == MainGoes("started", "reading") /\ UNCHANGED <<stop, interrupted>>

(* The last line, Ctrl-C among the lines, or an exception of send.         *)
MainLeaves == MainGoes("reading", "finally") /\ UNCHANGED <<stop, interrupted>>

MainStopsQuietly == MainGoes("finally", "joining") /\ UNCHANGED <<stop, interrupted>>

MainStops ==
  /\ MainGoes("finally", "joining")
  /\ stop' = TRUE
  /\ UNCHANGED interrupted

(* rx_thread.join(timeout=...) *)
MainJoinedUnlimited ==
  /\ loop = "ended"
  /\ MainGoes("joining", "closing")
  /\ UNCHANGED <<stop, interrupted>>

MainJoined ==
  /\ loop = "ended" \/ joined >= JoinLimit
  /\ MainGoes("joining", "closing")
  /\ UNCHANGED <<stop, interrupted>>

(* Ctrl-C where no except is waiting for it: the with block is left.       *)
MainInterrupted ==
  /\ main \in {"started", "finally", "joining"}
  /\ MainGoes(main, "closing")
  /\ interrupted' = TRUE
  /\ UNCHANGED stop

(* Rx.__exit__, and Rx.__del__ when the object goes; Ctrl-C may cut either *)
(* short.                                                                  *)
MainCloses ==
  /\ main \in {"closing", "deleting"}
  /\ Rx!Close("main") \/ Rx!Interrupt("main")
  /\ main' = IF pc'["main"] # "idle" THEN main
             ELSE IF main = "closing" THEN "deleting" ELSE "ended"
  /\ UNCHANGED <<loop, stop, waited, joined, interrupted, lag>>

MainThread == MainTry \/ MainLeaves \/ MainStops \/ MainJoined \/ MainInterrupted \/ MainCloses

Next == Tick \/ RxThread \/ MainThread

Spec == Init /\ [][Next]_vars

(* The clock advances and the main thread is scheduled; nothing is asked   *)
(* of the receiving thread, which may be stuck in recv for ever.           *)
FairSpec == Spec /\ WF_vars(Tick) /\ WF_vars(MainStops \/ MainJoined) /\ WF_vars(MainCloses)
-----------------------------------------------------------------------------
TypeOK ==
  /\ main \in {"started", "reading", "finally", "joining", "closing", "deleting", "ended"}
  /\ loop \in {"top", "recv", "print", "ended"}
  /\ stop \in BOOLEAN /\ interrupted \in BOOLEAN
  /\ waited \in 0 .. TIMEOUT
  /\ joined \in 0 .. MaxJoin
  /\ lag \in Nat

(* The example keeps the contract of the wrapper: its close overlaps a     *)
(* recv only when Ctrl-C cut the join short or the receiving thread spent  *)
(* the slack outside the timeout of its last recv.                         *)
KeepsContract == overlap => interrupted \/ lag >= SLACK

(* The limit of the join is enough: the Rx is never freed under a recv,    *)
(* nor twice, unless Ctrl-C cut the join or the close, or the receiving    *)
(* thread spent the slack outside the timeout of its one last recv -       *)
(* printing, not scheduled, or in a drain that went on.                    *)
JoinIsEnough ==
  \/ interrupted \/ cut \/ lag >= SLACK
  \/ freed <= 1 /\ (pc["rx"] = "native" => freed = 0)

(* The program ends once it was asked to, even when the receiving thread   *)
(* never comes back.                                                       *)
MainEnds == main = "finally" ~> main = "ended"
=============================================================================
