--------------------------- MODULE SimpleTxRx_proofs ---------------------------
(***************************************************************************)
(* Proofs about SimpleTxRx: the timed join of the Python example protects  *)
(* the Rx for every timeout and slack.  The argument is in two parts.  The *)
(* example is one of the programs PyHandle describes, so whatever is       *)
(* proved of PyHandle holds of its Rx; and it keeps the contract under     *)
(* which PyHandle is safe.                                                 *)
(***************************************************************************)
EXTENDS SimpleTxRx, TLAPS

RxProved == INSTANCE PyHandle_proofs WITH Main <- "main"

-----------------------------------------------------------------------------
(* Every step of the example is a step of its Rx, or leaves the Rx alone.  *)
LEMMA RxStep == [Next]_vars => [Rx!Next]_rx_vars
  <1> SUFFICES ASSUME [Next]_vars PROVE Rx!Next \/ UNCHANGED rx_vars
    OBVIOUS
  <1>1. "rx" \in Threads /\ "main" \in Threads
    BY DEF Threads
  <1>2. CASE LoopRecv
    BY <1>1, <1>2 DEF LoopRecv, Rx!Next, Rx!Use
  <1>3. CASE MainCloses
    BY <1>1, <1>3 DEF MainCloses, Rx!Next
  <1>4. CASE Tick \/ LoopTest \/ LoopPrint
    BY <1>4 DEF Tick, LoopTest, LoopPrint
  <1>5. CASE MainTry \/ MainLeaves \/ MainStops \/ MainJoined \/ MainInterrupted
    BY <1>5 DEF MainTry, MainLeaves, MainStops, MainJoined, MainInterrupted, MainGoes
  <1>6. CASE UNCHANGED vars
    BY <1>6 DEF vars
  <1> QED BY <1>2, <1>3, <1>4, <1>5, <1>6 DEF Next, RxThread, MainThread

(* The two threads of run_simple_txrx use their Rx as api.py allows: the   *)
(* example implements PyHandle.                                            *)
THEOREM UsesTheWrapper == Spec => Rx!Spec
  <1>1. Init => Rx!Init
    BY DEF Init
  <1>2. [Next]_vars => [Rx!Next]_(Rx!vars)
    BY RxStep DEF rx_vars, Rx!vars
  <1> QED BY <1>1, <1>2, PTL DEF Spec, Rx!Spec

(* The PyHandle that the example uses is the one the proofs are about.     *)
LEMMA SameObject == Rx!Spec => RxProved!Spec
  <1>1. Rx!Init => RxProved!Init
    BY DEF Rx!Init, RxProved!Init
  <1>2. Rx!Next => RxProved!Next
    BY DEF Rx!Next, Rx!Use, Rx!UseCheck, Rx!UseRefused, Rx!UseCall, Rx!UseReturn, Rx!Close,
           Rx!CloseCheck, Rx!CloseTest, Rx!CloseCall, Rx!CloseClear, Rx!CloseMark,
           Rx!Interrupt, Rx!Goto, Rx!Finish, Rx!Closing, Rx!Others,
           RxProved!Next, RxProved!Use, RxProved!UseCheck, RxProved!UseRefused,
           RxProved!UseCall, RxProved!UseReturn, RxProved!Close, RxProved!CloseCheck,
           RxProved!CloseTest, RxProved!CloseCall, RxProved!CloseClear, RxProved!CloseMark,
           RxProved!Interrupt, RxProved!Goto, RxProved!Finish, RxProved!Closing,
           RxProved!Others
  <1>3. [Rx!Next]_(Rx!vars) => [RxProved!Next]_(RxProved!vars)
    BY <1>2 DEF Rx!vars, RxProved!vars
  <1> QED BY <1>1, <1>3, PTL DEF Rx!Spec, RxProved!Spec

(* What api.py promises of any object holds of the Rx of the example.      *)
THEOREM RxKeepsPromises ==
  Spec => [](Rx!TypeOK /\ Rx!ClosedHoldsNothing /\ Rx!SafeUnlessOverlapped)
  <1>1. "main" \in Threads
    BY DEF Threads
  <1>2. RxProved!Spec => []RxProved!Inv
    BY <1>1, RxProved!HandleInvariant DEF RxProved!ThreadAssumption
  <1>3. RxProved!Inv => Rx!TypeOK
    BY DEF RxProved!Inv, RxProved!TypeOK, Rx!TypeOK
  <1>4. RxProved!Inv => Rx!ClosedHoldsNothing
    BY DEF RxProved!Inv, RxProved!Cleared, RxProved!ClosedHoldsNothing, Rx!ClosedHoldsNothing
  <1>5. RxProved!Inv => Rx!SafeUnlessOverlapped
    BY DEF RxProved!Inv, RxProved!Exclusive, Rx!SafeUnlessOverlapped
  <1> QED BY <1>2, <1>3, <1>4, <1>5, SameObject, UsesTheWrapper, PTL
-----------------------------------------------------------------------------
Closed == {"closing", "deleting", "ended"}

(* The receiving thread is in recv, or outside the object. *)
RxInLoop ==
  /\ pc["rx"] \in {"idle", "checked", "native"}
  /\ pc["rx"] # "idle" => loop = "recv"
  /\ pc["rx"] # "native" => waited = 0

(* The main thread touches the object only when it has left the block. *)
Uses == main \notin Closed => pc["main"] = "idle"

(* While the main thread joins, the receiving thread spends the time in    *)
(* the one recv it may have begun before stop was set, or it lags.         *)
TimeSpent ==
  main = "joining" =>
    /\ stop = TRUE
    /\ loop = "recv" => joined <= lag + waited
    /\ loop \in {"top", "print"} => joined <= lag + TIMEOUT

NotBefore == main \in {"started", "reading", "finally"} => joined = 0

(* What the main thread knows after the join. *)
AfterJoin ==
  main \in Closed => interrupted \/ lag >= SLACK \/ loop = "ended"

IInv == TypeOK /\ RxInLoop /\ Uses /\ TimeSpent /\ NotBefore /\ AfterJoin /\ KeepsContract

LEMMA InitInv == Init => IInv
  <1> SUFFICES ASSUME Init PROVE IInv
    OBVIOUS
  <1>1. /\ pc = [th \in Threads |-> "idle"] /\ overlap = FALSE
        /\ main = "started" /\ loop = "top" /\ stop = FALSE
        /\ waited = 0 /\ joined = 0 /\ interrupted = FALSE /\ lag = 0
    BY DEF Init, Rx!Init
  <1>2. pc["rx"] = "idle" /\ pc["main"] = "idle"
    BY <1>1 DEF Threads
  <1>3. TIMEOUT \in Nat /\ MaxJoin \in Nat
    BY TimeAssumption
  <1>4. TypeOK
    <2>1. stop \in BOOLEAN /\ interrupted \in BOOLEAN
      BY <1>1
    <2>2. waited \in 0 .. TIMEOUT /\ joined \in 0 .. MaxJoin /\ lag \in Nat
      BY <1>1, <1>3
    <2> QED BY <1>1, <2>1, <2>2 DEF TypeOK
  <1>5. RxInLoop /\ Uses /\ TimeSpent /\ NotBefore /\ AfterJoin
    BY <1>1, <1>2 DEF RxInLoop, Uses, TimeSpent, NotBefore, AfterJoin, Closed
  <1>6. KeepsContract
    BY <1>1 DEF KeepsContract
  <1> QED BY <1>4, <1>5, <1>6 DEF IInv

LEMMA TickStep == IInv /\ Tick => IInv'
  <1> SUFFICES ASSUME IInv, Tick PROVE IInv'
    OBVIOUS
  <1>1. /\ joined < MaxJoin
        /\ waited' = IF Waiting THEN waited + 1 ELSE waited
        /\ joined' = IF main = "joining" THEN joined + 1 ELSE joined
        /\ lag' = IF main = "joining" /\ loop # "ended" /\ ~ Waiting THEN lag + 1 ELSE lag
        /\ UNCHANGED <<pc, overlap, main, loop, stop, interrupted>>
    BY DEF Tick, rx_vars
  <1>2. TIMEOUT \in Nat /\ SLACK \in Nat /\ MaxJoin \in Nat
    BY TimeAssumption
  <1>3. waited \in Nat /\ waited <= TIMEOUT /\ joined \in Nat /\ lag \in Nat
    BY <1>2 DEF IInv, TypeOK
  <1>4. TypeOK' /\ lag' >= lag
    BY <1>1, <1>2, <1>3 DEF IInv, TypeOK, Waiting
  <1>5. RxInLoop' /\ Uses' /\ NotBefore'
    BY <1>1 DEF IInv, RxInLoop, Uses, NotBefore, Waiting
  <1>6. TimeSpent'
    BY <1>1, <1>2, <1>3 DEF IInv, RxInLoop, TimeSpent, Waiting
  <1>7. (lag >= SLACK) => (lag' >= SLACK)
    BY <1>2, <1>3, <1>4 DEF TypeOK
  <1>8. AfterJoin' /\ KeepsContract'
    BY <1>1, <1>7 DEF IInv, AfterJoin, KeepsContract
  <1> QED BY <1>4, <1>5, <1>6, <1>8 DEF IInv

(* The thread tests stop, or prints: the object is not touched. *)
LEMMA LoopAloneStep == IInv /\ (LoopTest \/ LoopPrint) => IInv'
  <1> SUFFICES ASSUME IInv, LoopTest \/ LoopPrint PROVE IInv'
    OBVIOUS
  <1>1. /\ \/ loop = "top" /\ loop' = IF stop THEN "ended" ELSE "recv"
           \/ loop = "print" /\ loop' = "top"
        /\ UNCHANGED <<pc, overlap, main, stop, waited, joined, interrupted, lag>>
    BY DEF LoopTest, LoopPrint, rx_vars
  <1>2. TypeOK' /\ RxInLoop' /\ Uses' /\ NotBefore' /\ AfterJoin' /\ KeepsContract'
    BY <1>1 DEF IInv, TypeOK, RxInLoop, Uses, NotBefore, AfterJoin, KeepsContract
  <1>3. TimeSpent'
    BY <1>1 DEF IInv, TimeSpent
  <1> QED BY <1>2, <1>3 DEF IInv

LEMMA LoopRecvStep == IInv /\ Rx!TypeOK /\ LoopRecv => IInv'
  <1> SUFFICES ASSUME IInv, Rx!TypeOK, LoopRecv PROVE IInv'
    OBVIOUS
  <1>1. /\ loop = "recv" /\ waited' = 0
        /\ loop' = IF pc'["rx"] # "idle" THEN "recv"
                   ELSE IF outcome'["rx"] = "ok" THEN "print" ELSE "ended"
        /\ UNCHANGED <<main, stop, joined, interrupted, lag>>
    BY DEF LoopRecv
  <1>2. \E at \in {"idle", "checked", "native"} : pc' = [pc EXCEPT !["rx"] = at]
    BY DEF LoopRecv, Rx!UseCheck, Rx!UseCall, Rx!UseReturn, Rx!Goto, Rx!Finish
  <1>3. DOMAIN pc = Threads /\ "rx" \in Threads /\ "main" \in Threads
    BY DEF Rx!TypeOK, Threads
  <1>4. pc'["main"] = pc["main"] /\ pc'["rx"] \in {"idle", "checked", "native"}
    BY <1>2, <1>3
  <1>5. overlap' => overlap \/ Rx!Closing("main")
    BY DEF LoopRecv, Rx!UseCheck, Rx!UseCall, Rx!UseReturn, Rx!Others, Threads
  <1>6. TIMEOUT \in Nat
    BY TimeAssumption
  <1>7. TypeOK'
    BY <1>1, <1>6 DEF IInv, TypeOK
  <1>8. RxInLoop' /\ Uses' /\ NotBefore' /\ AfterJoin'
    BY <1>1, <1>4 DEF IInv, RxInLoop, Uses, NotBefore, AfterJoin
  <1>9. TimeSpent'
    <2>1. pc'["rx"] # "idle" => waited = 0 \/ ~ (pc["rx"] # "native")
      BY DEF IInv, RxInLoop
    <2>2. pc["rx"] = "native" => pc'["rx"] = "idle"
      BY <1>3 DEF LoopRecv, Rx!UseCheck, Rx!UseCall, Rx!UseReturn, Rx!Goto, Rx!Finish
    <2>3. waited \in Nat /\ waited <= TIMEOUT /\ joined \in Nat /\ lag \in Nat
      BY <1>6 DEF IInv, TypeOK
    <2> QED BY <1>1, <1>6, <2>1, <2>2, <2>3 DEF IInv, TimeSpent
  <1>10. KeepsContract'
    <2>1. ASSUME Rx!Closing("main") PROVE interrupted \/ lag >= SLACK
      BY <1>1, <2>1 DEF Rx!Closing, IInv, Uses, AfterJoin
    <2> QED BY <1>1, <1>5, <2>1 DEF IInv, KeepsContract
  <1> QED BY <1>7, <1>8, <1>9, <1>10 DEF IInv

LEMMA MainGoesStep ==
  ASSUME IInv, MainTry \/ MainLeaves \/ MainStops \/ MainJoined \/ MainInterrupted
  PROVE  IInv'
  <1>1. TIMEOUT \in Nat /\ SLACK \in Nat
    BY TimeAssumption
  <1>2. UNCHANGED <<pc, overlap, loop, waited, joined, lag>>
    BY DEF MainTry, MainLeaves, MainStops, MainJoined, MainInterrupted, MainGoes, rx_vars
  <1>3. /\ main \notin Closed
        /\ \/ main' \in {"reading", "finally"} /\ main \in {"started", "reading"}
              /\ stop' = stop /\ interrupted' = interrupted
           \/ main = "finally" /\ main' = "joining" /\ stop' = TRUE /\ interrupted' = interrupted
           \/ main' = "closing" /\ interrupted' = TRUE /\ stop' = stop
           \/ main = "joining" /\ main' = "closing" /\ interrupted' = interrupted /\ stop' = stop
              /\ (loop = "ended" \/ joined >= TIMEOUT + SLACK)
    BY DEF MainTry, MainLeaves, MainStops, MainJoined, MainInterrupted, MainGoes, Closed, JoinLimit
  <1>4. waited \in Nat /\ waited <= TIMEOUT /\ joined \in Nat /\ lag \in Nat
    BY <1>1 DEF IInv, TypeOK
  <1>5. TypeOK' /\ RxInLoop' /\ Uses' /\ NotBefore' /\ KeepsContract'
    <2>1. interrupted => interrupted'
      BY <1>3
    <2>2. KeepsContract'
      BY <1>2, <2>1 DEF IInv, KeepsContract
    <2>3. TypeOK'
      BY <1>2, <1>3 DEF IInv, TypeOK
    <2>4. RxInLoop' /\ Uses' /\ NotBefore'
      BY <1>2, <1>3 DEF IInv, RxInLoop, Uses, NotBefore, Closed
    <2> QED BY <2>2, <2>3, <2>4
  <1>6. TimeSpent'
    BY <1>1, <1>2, <1>3, <1>4 DEF IInv, TimeSpent, NotBefore, Closed
  <1>7. AfterJoin'
    <2>1. ASSUME main = "joining", joined >= TIMEOUT + SLACK
          PROVE  loop = "ended" \/ lag >= SLACK
      BY <2>1, <1>1, <1>4 DEF IInv, TypeOK, TimeSpent
    <2> QED BY <1>2, <1>3, <2>1 DEF IInv, AfterJoin, Closed
  <1> QED BY <1>5, <1>6, <1>7 DEF IInv

LEMMA ClosesStep == IInv /\ Rx!TypeOK /\ MainCloses => IInv'
  <1> SUFFICES ASSUME IInv, Rx!TypeOK, MainCloses PROVE IInv'
    OBVIOUS
  <1>1. /\ main \in {"closing", "deleting"}
        /\ main' \in Closed
        /\ UNCHANGED <<loop, stop, waited, joined, interrupted, lag>>
    BY DEF MainCloses, Closed
  <1>2. \E at \in {"idle", "testing", "freeing", "clearing", "marking"} :
          pc' = [pc EXCEPT !["main"] = at]
    BY DEF MainCloses, Rx!Close, Rx!CloseCheck, Rx!CloseTest, Rx!CloseCall, Rx!CloseClear,
           Rx!CloseMark, Rx!Interrupt, Rx!Goto, Rx!Finish
  <1>3. pc'["rx"] = pc["rx"]
    BY <1>2 DEF Rx!TypeOK, Threads
  <1>4. overlap' => overlap \/ pc["rx"] # "idle"
    BY DEF MainCloses, Rx!Close, Rx!CloseCheck, Rx!CloseTest, Rx!CloseCall, Rx!CloseClear,
           Rx!CloseMark, Rx!Interrupt, Rx!Others, Threads
  <1>5. TypeOK' /\ RxInLoop' /\ Uses' /\ TimeSpent' /\ NotBefore' /\ AfterJoin'
    BY <1>1, <1>3 DEF IInv, TypeOK, RxInLoop, Uses, TimeSpent, NotBefore, AfterJoin, Closed
  <1>6. KeepsContract'
    <2>1. ASSUME pc["rx"] # "idle" PROVE interrupted \/ lag >= SLACK
      BY <1>1, <2>1 DEF IInv, RxInLoop, AfterJoin, Closed
    <2> QED BY <1>1, <1>4, <2>1 DEF IInv, KeepsContract
  <1> QED BY <1>5, <1>6 DEF IInv

LEMMA StepInv == IInv /\ Rx!TypeOK /\ [Next]_vars => IInv'
  <1> SUFFICES ASSUME IInv, Rx!TypeOK, [Next]_vars PROVE IInv'
    OBVIOUS
  <1>1. CASE UNCHANGED vars
    BY <1>1 DEF vars, rx_vars, IInv, TypeOK, RxInLoop, Uses, TimeSpent, NotBefore, AfterJoin,
                KeepsContract
  <1> QED BY <1>1, TickStep, LoopAloneStep, LoopRecvStep, MainGoesStep, ClosesStep
          DEF Next, RxThread, MainThread

(* The inductive invariant holds in every state of every execution; in     *)
(* particular the clocks, the program points and the flags keep their      *)
(* types.                                                                  *)
THEOREM Invariant == Spec => []IInv
  <1>1. Spec => []Rx!TypeOK
    BY RxKeepsPromises, PTL
  <1> QED BY <1>1, InitInv, StepInv, PTL DEF Spec

(* For every receive timeout and slack, however slow either thread is: the *)
(* close of run_simple_txrx overlaps no recv, but for Ctrl-C and a thread  *)
(* that lags by the slack.                                                 *)
THEOREM ContractKept == Spec => []KeepsContract
  <1>1. IInv => KeepsContract
    BY DEF IInv
  <1> QED BY <1>1, Invariant, PTL

(* So the join keeps close from freeing the Rx under a recv, or twice:     *)
(* what the wrapper promises to a program that keeps its contract.         *)
THEOREM JoinProtects == Spec => []JoinIsEnough
  <1>1. KeepsContract /\ Rx!SafeUnlessOverlapped => JoinIsEnough
    BY DEF KeepsContract, Rx!SafeUnlessOverlapped, JoinIsEnough, Threads
  <1> QED BY <1>1, ContractKept, RxKeepsPromises, PTL
=============================================================================
