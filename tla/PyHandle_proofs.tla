---------------------------- MODULE PyHandle_proofs ----------------------------
(***************************************************************************)
(* Proofs about PyHandle, for any number of threads and any bound.         *)
(***************************************************************************)
EXTENDS PyHandle, TLAPS

(* A thread about to mark the object closed has taken the pointer away. *)
Cleared ==
  /\ ClosedHoldsNothing
  /\ \A th \in Threads : pc[th] = "marking" => handle = "null"

(* Without overlaps a close runs alone, and without Ctrl-C there the box   *)
(* is freed only between the C call of that close and the statement that   *)
(* clears the pointer.                                                     *)
Exclusive ==
  ~ overlap /\ ~ cut =>
    /\ \A th \in Threads : Closing(th) => \A other \in Others(th) : pc[other] = "idle"
    /\ freed <= 1
    /\ freed = 0 \/ handle = "null" \/ \E th \in Threads : pc[th] = "clearing"
    /\ \A th \in Threads : pc[th] = "native" => freed = 0
    /\ \A th \in Threads : pc[th] = "freeing" => handle = "box" /\ freed = 0

Inv == TypeOK /\ Cleared /\ Exclusive

(* The program points, the two codes and the results keep their types in   *)
(* every statement of api.py.                                              *)
LEMMA TypeStep == TypeOK /\ [Next]_vars => TypeOK'
<1> SUFFICES ASSUME TypeOK, [Next]_vars PROVE TypeOK'
  OBVIOUS
<1>1. CASE UNCHANGED vars
  BY <1>1 DEF TypeOK, vars
<1>2. ASSUME NEW th \in Threads, UseCheck(th) PROVE TypeOK'
  BY <1>2 DEF TypeOK, UseCheck, Goto, Finish
<1>3. ASSUME NEW th \in Threads, UseRefused(th) \/ UseCall(th) PROVE TypeOK'
  <2>1. CASE UseRefused(th)
    BY <2>1 DEF TypeOK, UseRefused, Goto, Finish
  <2>2. CASE UseCall(th)
    BY <2>2 DEF TypeOK, UseCall, Goto, Finish
  <2> QED
    BY <1>3, <2>1, <2>2
<1>4. ASSUME NEW th \in Threads, NEW r \in {"ok", "error"}, UseReturn(th, r) PROVE TypeOK'
  BY <1>4 DEF TypeOK, UseReturn, Goto, Finish
<1>5. ASSUME NEW th \in Threads, CloseCheck(th) PROVE TypeOK'
  BY <1>5 DEF TypeOK, CloseCheck, Goto, Finish
<1>6. ASSUME NEW th \in Threads, CloseTest(th) PROVE TypeOK'
  BY <1>6 DEF TypeOK, CloseTest, Goto
<1>7. ASSUME NEW th \in Threads, CloseCall(th) PROVE TypeOK'
  BY <1>7 DEF TypeOK, CloseCall, Goto
<1>8. ASSUME NEW th \in Threads, CloseClear(th) PROVE TypeOK'
  BY <1>8 DEF TypeOK, CloseClear, Goto
<1>9. ASSUME NEW th \in Threads, CloseMark(th) PROVE TypeOK'
  BY <1>9 DEF TypeOK, CloseMark, Goto, Finish
<1>10. ASSUME NEW th \in Threads, Interrupt(th) PROVE TypeOK'
  BY <1>10 DEF TypeOK, Interrupt, Finish, Goto
<1> QED
  BY <1>1, <1>2, <1>3, <1>4, <1>5, <1>6, <1>7, <1>8, <1>9, <1>10 DEF Next, Use, Close

(* No statement gives a pointer back once close has cleared it. *)
LEMMA ClearedStep == TypeOK /\ Cleared /\ [Next]_vars => Cleared'
<1> SUFFICES ASSUME TypeOK, Cleared, [Next]_vars PROVE Cleared'
  OBVIOUS
<1> USE DEF TypeOK, Cleared, ClosedHoldsNothing, Goto, Finish
<1>1. CASE UNCHANGED vars
  BY <1>1 DEF vars
<1>2. ASSUME NEW th \in Threads, Use(th) PROVE Cleared'
  BY <1>2 DEF Use, UseCheck, UseRefused, UseCall, UseReturn
<1>3. ASSUME NEW th \in Threads, CloseCheck(th) \/ CloseTest(th) \/ CloseCall(th)
      PROVE  Cleared'
  BY <1>3 DEF CloseCheck, CloseTest, CloseCall
<1>4. ASSUME NEW th \in Threads, CloseClear(th) \/ CloseMark(th) PROVE Cleared'
  BY <1>4 DEF CloseClear, CloseMark
<1>5. ASSUME NEW th \in Threads, Interrupt(th) PROVE Cleared'
  BY <1>5 DEF Interrupt
<1> QED
  BY <1>1, <1>2, <1>3, <1>4, <1>5 DEF Next, Close

(* A close that runs alone stays alone, and frees the box once. *)
LEMMA ExclusiveStep == TypeOK /\ Cleared /\ Exclusive /\ [Next]_vars => Exclusive'
<1> SUFFICES ASSUME TypeOK, Cleared, Exclusive, [Next]_vars, ~ overlap', ~ cut' PROVE Exclusive'
  BY DEF Exclusive
<1> USE DEF Closing, Others
<1>1. CASE UNCHANGED vars
  BY <1>1 DEF Exclusive, vars
<1>2. ASSUME NEW th \in Threads, UseCheck(th) PROVE Exclusive'
  <2>1. ~ overlap /\ ~ cut /\ \A other \in Others(th) : ~ Closing(other)
    BY <1>2 DEF UseCheck, TypeOK
  <2>2. pc'[th] \in {"idle", "checked"} /\ \A o \in Others(th) : pc'[o] = pc[o]
    BY <1>2 DEF UseCheck, Goto, Finish, TypeOK
  <2> QED
    BY <1>2, <2>1, <2>2 DEF UseCheck, Exclusive
<1>3. ASSUME NEW th \in Threads, UseRefused(th) \/ UseCall(th) PROVE Exclusive'
  <2>1. ~ overlap /\ ~ cut /\ pc[th] = "checked" /\ pc'[th] \in {"idle", "native"}
    BY <1>3 DEF UseRefused, UseCall, Goto, Finish, TypeOK
  <2>2. \A o \in Others(th) : pc'[o] = pc[o]
    BY <1>3 DEF UseRefused, UseCall, Goto, Finish, TypeOK
  <2>3. \A o \in Threads : ~ Closing(o)
    BY <2>1 DEF Exclusive
  <2>4. pc'[th] = "native" => freed = 0
    BY <1>3, <2>1, <2>3 DEF UseRefused, UseCall, Exclusive, Goto, Finish, TypeOK
  <2> QED
    BY <1>3, <2>1, <2>2, <2>3, <2>4 DEF UseRefused, UseCall, Exclusive
<1>4. ASSUME NEW th \in Threads, NEW r \in {"ok", "error"}, UseReturn(th, r)
      PROVE  Exclusive'
  <2>1. ~ overlap /\ ~ cut /\ pc[th] = "native" /\ pc'[th] = "idle"
    BY <1>4 DEF UseReturn, Goto, Finish, TypeOK
  <2>2. \A o \in Others(th) : pc'[o] = pc[o]
    BY <1>4 DEF UseReturn, Goto, Finish, TypeOK
  <2> QED
    BY <1>4, <2>1, <2>2 DEF UseReturn, Exclusive
<1>5. ASSUME NEW th \in Threads, CloseCheck(th) PROVE Exclusive'
  <2>1. ~ overlap /\ ~ cut /\ \A other \in Others(th) : pc[other] = "idle"
    BY <1>5 DEF CloseCheck, TypeOK
  <2>2. pc[th] = "idle" /\ pc'[th] \in {"idle", "testing"}
    BY <1>5 DEF CloseCheck, Goto, Finish, TypeOK
  <2>3. \A o \in Others(th) : pc'[o] = pc[o]
    BY <1>5 DEF CloseCheck, Goto, Finish, TypeOK
  <2> QED
    BY <1>5, <2>1, <2>2, <2>3 DEF CloseCheck, Exclusive
<1>6. ASSUME NEW th \in Threads,
             CloseTest(th) \/ CloseCall(th) \/ CloseClear(th) \/ CloseMark(th)
      PROVE  Exclusive'
  <2>1. ~ overlap /\ ~ cut /\ Closing(th)
    BY <1>6 DEF CloseTest, CloseCall, CloseClear, CloseMark
  <2>2. \A o \in Others(th) : pc[o] = "idle"
    BY <2>1 DEF Exclusive
  <2>3. \A o \in Others(th) : pc'[o] = "idle"
    BY <1>6, <2>2 DEF CloseTest, CloseCall, CloseClear, CloseMark, Goto, Finish, TypeOK
  <2>4. CASE CloseTest(th)
    <3>1. pc[th] = "testing" /\ pc'[th] \in {"marking", "freeing"}
      BY <2>4 DEF CloseTest, Goto, TypeOK
    <3>2. freed = 0 \/ handle = "null"
      BY <2>1, <2>2, <3>1 DEF Exclusive
    <3>3. pc'[th] = "freeing" => handle = "box"
      BY <2>4 DEF CloseTest, Goto, TypeOK
    <3> QED
      BY <2>1, <2>3, <2>4, <3>1, <3>2, <3>3 DEF CloseTest, Exclusive
  <2>5. CASE CloseCall(th)
    <3>1. pc[th] = "freeing" /\ pc'[th] = "clearing"
      BY <2>5 DEF CloseCall, Goto, TypeOK
    <3>2. freed = 0
      BY <2>1, <3>1 DEF Exclusive
    <3>3. freed' \in {0, 1}
      BY <2>5, <3>2 DEF CloseCall
    <3> QED
      BY <2>1, <2>3, <3>1, <3>3 DEF Exclusive
  <2>6. CASE CloseClear(th)
    <3>1. pc'[th] = "marking" /\ handle' = "null" /\ freed' = freed
      BY <2>6 DEF CloseClear, Goto, TypeOK
    <3> QED
      BY <2>1, <2>3, <3>1 DEF Exclusive
  <2>7. CASE CloseMark(th)
    <3>1. pc[th] = "marking" /\ pc'[th] = "idle" /\ handle' = handle /\ freed' = freed
      BY <2>7 DEF CloseMark, Goto, Finish, TypeOK
    <3>2. handle = "null"
      BY <3>1 DEF Cleared
    <3> QED
      BY <2>1, <2>3, <3>1, <3>2 DEF Exclusive
  <2> QED
    BY <1>6, <2>4, <2>5, <2>6, <2>7
<1>7. ASSUME NEW th \in Threads, Interrupt(th) PROVE Exclusive'
  <2>1. ~ overlap /\ ~ cut /\ pc[th] # "clearing" /\ pc'[th] = "idle"
    BY <1>7 DEF Interrupt, Finish, Goto, TypeOK
  <2>2. \A o \in Others(th) : pc'[o] = pc[o]
    BY <1>7 DEF Interrupt, Finish, Goto, TypeOK
  <2>3. handle' = handle /\ freed' = freed
    BY <1>7 DEF Interrupt
  <2> QED
    BY <2>1, <2>2, <2>3 DEF Exclusive
<1> QED
  BY <1>1, <1>2, <1>3, <1>4, <1>5, <1>6, <1>7 DEF Next, Use, Close

(* The inductive invariant of one Rx or Tx object of api.py. *)
THEOREM HandleInvariant == Spec => []Inv
<1>1. Init => Inv
  <2> SUFFICES ASSUME Init PROVE Inv
    OBVIOUS
  <2>1. TypeOK
    BY DEF Init, TypeOK
  <2>2. Cleared
    BY DEF Init, Cleared, ClosedHoldsNothing
  <2>3. freed <= 1 /\ \A th \in Threads : ~ Closing(th) /\ pc[th] = "idle"
    BY DEF Init, Closing
  <2>4. Exclusive
    BY <2>3 DEF Init, Exclusive
  <2> QED
    BY <2>1, <2>2, <2>4 DEF Inv
<1>2. Inv /\ [Next]_vars => Inv'
  BY TypeStep, ClearedStep, ExclusiveStep DEF Inv
<1> QED
  BY <1>1, <1>2, PTL DEF Spec

(* Whatever the threads do, an object that says it is closed holds no      *)
(* pointer (close in api.py).                                              *)
THEOREM ClosedIsEmpty == Spec => []ClosedHoldsNothing
<1>1. Inv => ClosedHoldsNothing
  BY DEF Inv, Cleared
<1> QED
  BY <1>1, HandleInvariant, PTL

(* As long as no close overlaps another operation, and Ctrl-C does not cut *)
(* one right after its C call, the box is freed at most once and no C call *)
(* runs on a freed one.                                                    *)
THEOREM FreedOnce == Spec => []SafeUnlessOverlapped
<1>1. Inv => SafeUnlessOverlapped
  BY DEF Inv, Exclusive, SafeUnlessOverlapped
<1> QED
  BY <1>1, HandleInvariant, PTL
=============================================================================
