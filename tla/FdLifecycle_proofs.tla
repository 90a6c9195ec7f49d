-------------------------- MODULE FdLifecycle_proofs --------------------------
(***************************************************************************)
(* Theorems about descriptors, for any number of threads, objects and      *)
(* descriptors.  Whatever it is called, a step of the program does one of  *)
(* four things to the object it is about: it gives it a descriptor, moves  *)
(* it along, frees its descriptor, or frees the same number once more.     *)
(***************************************************************************)
EXTENDS FdLifecycle, TLAPS

LiveStates == {"lookup", "bind", "build", "setup", "open"}
PendingStates == {"closed", "fields"}

Opens(o) ==
  /\ pc[o] = "none"
  /\ Allocate(o)
  /\ \E s \in LiveStates : Become(o, s)

Moves(o) ==
  /\ Live(o)
  /\ \E s \in LiveStates : Become(o, s)
  /\ UNCHANGED <<table, fd>>

Closes(o) ==
  /\ Live(o)
  /\ CloseFd(o)
  /\ \/ Become(o, "none")
     \/ /\ o \in Rxs \/ ExplicitClose
        /\ \E s \in PendingStates : Become(o, s)
  /\ UNCHANGED fd

ClosesAgain(o) ==
  /\ pc[o] \in PendingStates
  /\ CloseFd(o)
  /\ Become(o, "none")
  /\ UNCHANGED fd

(* The thread is at the disposal of o, and stays with it while its number  *)
(* is to be closed a second time.                                          *)
Holds(th, o) ==
  /\ runs[th] \in {Idle, o}
  /\ \E x \in {Idle, o} : runs' = [runs EXCEPT ![th] = x]
  /\ pc' = [pc EXCEPT ![o] = "closed"] \/ pc' = [pc EXCEPT ![o] = "fields"]
       => runs' = [runs EXCEPT ![th] = o]

(* Every step is one of the four. *)
LEMMA StepKinds ==
  ASSUME TypeOK, Next
  PROVE  \E th \in Threads, o \in Objects :
           Holds(th, o) /\ (Opens(o) \/ Moves(o) \/ Closes(o) \/ ClosesAgain(o))
  <1> USE DEF TypeOK, Opens, Moves, Closes, ClosesAgain, Live, LiveStates, PendingStates, Become
  <1>1. ASSUME NEW th \in Threads, NEW t \in Txs, TxStep(th, t)
        PROVE  /\ Opens(t) \/ Moves(t) \/ Closes(t) \/ ClosesAgain(t)
               /\ Holds(th, t)
    <2>1. t \in Objects
      BY DEF Objects
    <2>2. CASE TxSocket(th, t)
      BY <2>1, <2>2 DEF TxSocket, Enter, Holds
    <2>3. CASE TxOpenFails(th, t) \/ TxBuildFails(th, t)
      BY <2>1, <2>3 DEF TxOpenFails, TxBuildFails, Leave, Holds
    <2>4. CASE TxLookup(th, t) \/ TxBind(th, t)
      BY <2>1, <2>4 DEF TxLookup, TxBind, Within, Holds
    <2>5. CASE TxOpened(th, t)
      BY <2>1, <2>5 DEF TxOpened, Leave, Holds
    <2>6. CASE TxDrop(th, t)
      BY <2>1, <2>6 DEF TxDrop, Alone, Holds
    <2>7. CASE TxClose(th, t)
      BY <2>1, <2>7 DEF TxClose, Enter, Holds
    <2>8. CASE TxDropClosed(th, t)
      BY <2>1, <2>8 DEF TxDropClosed, Leave, Holds
    <2> QED BY <1>1, <2>2, <2>3, <2>4, <2>5, <2>6, <2>7, <2>8 DEF TxStep
  <1>2. ASSUME NEW th \in Threads, NEW r \in Rxs, RxStep(th, r)
        PROVE  /\ Opens(r) \/ Moves(r) \/ Closes(r) \/ ClosesAgain(r)
               /\ Holds(th, r)
    <2>1. r \in Objects
      BY DEF Objects
    <2>2. CASE RxOpenPcap(th, r)
      BY <2>1, <2>2 DEF RxOpenPcap, Enter, Holds
    <2>3. CASE RxSetupFails(th, r) \/ RxOpened(th, r)
      BY <2>1, <2>3 DEF RxSetupFails, RxOpened, Leave, Holds
    <2>4. CASE RxDrop(th, r)
      BY <2>1, <2>4 DEF RxDrop, Enter, Holds
    <2>5. CASE RxDropCapture(th, r)
      BY <2>1, <2>5 DEF RxDropCapture, Leave, Holds
    <2> QED BY <1>2, <2>2, <2>3, <2>4, <2>5 DEF RxStep
  <1>3. ASSUME NEW th \in Threads, NEW f \in Files, FileStep(th, f)
        PROVE  /\ Opens(f) \/ Moves(f) \/ Closes(f) \/ ClosesAgain(f)
               /\ Holds(th, f)
    <2>1. f \in Objects
      BY DEF Objects
    <2> QED BY <1>3, <2>1 DEF FileStep, FileOpen, FileClose, Alone, Holds
  <1>4. Txs \subseteq Objects /\ Rxs \subseteq Objects /\ Files \subseteq Objects
    BY DEF Objects
  <1> HIDE DEF TypeOK, Opens, Moves, Closes, ClosesAgain, Live, LiveStates, PendingStates, Become
  <1> QED BY <1>1, <1>2, <1>3, <1>4 DEF Next-----------------------------------------------------------------------------
(* A fresh number was free, and is recorded on both sides. *)
LEMMA AllocateEffect ==
  ASSUME TypeOK, NEW o \in Objects, Allocate(o)
  PROVE  \E n \in Fds : /\ table[n] = Free
                        /\ table' = [table EXCEPT ![n] = o]
                        /\ fd' = [fd EXCEPT ![o] = n]
  BY DEF Allocate, FreeFds

(* Types are kept. *)
LEMMA TypeInv ==
  ASSUME TypeOK, [Next]_vars
  PROVE  TypeOK'
  <1>1. ASSUME NEW th \in Threads, NEW o \in Objects, Holds(th, o),
               Opens(o) \/ Moves(o) \/ Closes(o) \/ ClosesAgain(o)
        PROVE  TypeOK'
    <2>1. runs' \in [Threads -> Objects \cup {Idle}]
      BY <1>1 DEF Holds, TypeOK
    <2>2. pc' \in [Objects -> {"none", "lookup", "bind", "build", "setup", "open", "closed", "fields"}]
      BY <1>1 DEF Opens, Moves, Closes, ClosesAgain, Become, LiveStates, PendingStates, TypeOK
    <2>3. CASE Opens(o)
      <3>1. PICK n \in Fds : table' = [table EXCEPT ![n] = o] /\ fd' = [fd EXCEPT ![o] = n]
        BY <2>3, AllocateEffect DEF Opens
      <3> QED BY <2>1, <2>2, <3>1 DEF TypeOK
    <2>4. CASE Moves(o) \/ Closes(o) \/ ClosesAgain(o)
      BY <2>1, <2>2, <2>4 DEF Moves, Closes, ClosesAgain, CloseFd, TypeOK
    <2> QED BY <1>1, <2>3, <2>4
  <1>2. CASE UNCHANGED vars
    BY <1>2 DEF vars, TypeOK
  <1> QED BY <1>1, <1>2, StepKinds

(* A descriptor in the table has a live object that holds its number: the  *)
(* only way out of the live states frees it, and a second close can only   *)
(* take entries away.                                                      *)
LEMMA NoLeakInv ==
  ASSUME TypeOK, NoLeak, [Next]_vars
  PROVE  NoLeak'
  <1>1. ASSUME NEW th \in Threads, NEW o \in Objects,
               Opens(o) \/ Moves(o) \/ Closes(o) \/ ClosesAgain(o)
        PROVE  NoLeak'
    <2> SUFFICES ASSUME NEW n \in Fds, table'[n] # Free
                 PROVE  Live(table[n])' /\ (fd[table[n]] = n)'
      BY DEF NoLeak
    <2>1. ASSUME table'[n] = table[n], table[n] # o, pc'[table[n]] = pc[table[n]],
                 fd'[table[n]] = fd[table[n]]
          PROVE  Live(table[n])' /\ (fd[table[n]] = n)'
      BY <2>1 DEF NoLeak, Live
    <2>2. table[n] # Free => table[n] \in Objects
      BY DEF TypeOK
    <2>3. CASE Opens(o)
      <3>1. PICK m \in Fds : /\ table[m] = Free
                             /\ table' = [table EXCEPT ![m] = o] /\ fd' = [fd EXCEPT ![o] = m]
        BY <2>3, AllocateEffect DEF Opens
      <3>2. pc[o] = "none" /\ pc'[o] \in LiveStates /\ \A x \in Objects \ {o} : pc'[x] = pc[x]
        BY <2>3 DEF Opens, Become, LiveStates, TypeOK
      <3>3. CASE n = m
        <4>1. table'[n] = o /\ fd'[o] = n
          BY <3>1, <3>3 DEF TypeOK
        <4> QED BY <3>2, <4>1 DEF Live, LiveStates
      <3>4. CASE n # m
        <4>1. table'[n] = table[n]
          BY <3>1, <3>4 DEF TypeOK
        <4>2. table[n] # o
          BY <3>2, <4>1 DEF NoLeak, Live
        <4>3. fd'[table[n]] = fd[table[n]] /\ pc'[table[n]] = pc[table[n]]
          BY <2>2, <3>1, <3>2, <4>1, <4>2 DEF TypeOK
        <4> QED BY <2>1, <4>1, <4>2, <4>3
      <3> QED BY <3>3, <3>4
    <2>4. CASE Moves(o)
      <3>1. table' = table /\ fd' = fd
        BY <2>4 DEF Moves
      <3>2. Live(o) /\ pc'[o] \in LiveStates /\ \A x \in Objects \ {o} : pc'[x] = pc[x]
        BY <2>4 DEF Moves, Become, LiveStates, TypeOK
      <3>3. table[n] \in Objects /\ Live(table[n]) /\ fd[table[n]] = n
        BY <2>2, <3>1 DEF NoLeak
      <3> QED BY <3>1, <3>2, <3>3 DEF Live, LiveStates
    <2>5. CASE Closes(o) \/ ClosesAgain(o)
      <3>1. table' = [table EXCEPT ![fd[o]] = Free] /\ fd' = fd
        BY <2>5 DEF Closes, ClosesAgain, CloseFd
      <3>2. \A x \in Objects \ {o} : pc'[x] = pc[x]
        BY <2>5 DEF Closes, ClosesAgain, Become, TypeOK
      <3>3. n # fd[o] /\ table'[n] = table[n]
        BY <3>1 DEF TypeOK
      <3>4. table[n] # o
        BY <3>3 DEF NoLeak
      <3>5. pc'[table[n]] = pc[table[n]]
        BY <2>2, <3>2, <3>3, <3>4
      <3> QED BY <2>1, <3>1, <3>3, <3>4, <3>5
    <2> QED BY <1>1, <2>3, <2>4, <2>5
  <1>2. CASE UNCHANGED vars
    BY <1>2 DEF vars, NoLeak, Live
  <1> QED BY <1>1, <1>2, StepKinds

(* No descriptor is left behind, on any path and with any threads. *)
THEOREM NothingLeaks == Spec => [](TypeOK /\ NoLeak)
  <1>1. Init => TypeOK /\ NoLeak
    BY DEF Init, TypeOK, NoLeak
  <1>2. TypeOK /\ NoLeak /\ [Next]_vars => TypeOK' /\ NoLeak'
    BY TypeInv, NoLeakInv
  <1> QED BY <1>1, <1>2, PTL DEF Spec
-----------------------------------------------------------------------------
(* Between its two closes a number stays free, since nothing opens then. *)
PendingFree ==
  \A o \in Objects : Pending(o) => fd[o] \in Fds /\ table[fd[o]] = Free

OwnInv ==
  /\ TypeOK
  /\ UsesOwnDescriptor
  /\ \A o \in Objects : Live(o) => fd[o] \in Fds
  /\ PendingFree

(* Every step of an object that keeps the rule keeps the others'           *)
(* descriptors, and the numbers that wait for a second close free.         *)
LEMMA OwnStep ==
  ASSUME OwnInv, OpensApart, NEW o \in Objects, TypeOK',
         Opens(o) \/ Moves(o) \/ Closes(o) \/ ClosesAgain(o)
  PROVE  OwnInv'
  <1>1. /\ TypeOK /\ UsesOwnDescriptor /\ PendingFree
        /\ \A x \in Objects : Live(x) => fd[x] \in Fds
    BY DEF OwnInv
  <1>2. \A x \in Objects \ {o} : pc'[x] = pc[x]
    BY <1>1 DEF Opens, Moves, Closes, ClosesAgain, Become, TypeOK
  <1>3. ASSUME NEW x \in Objects \ {o}, Live(x)'
        PROVE  fd'[x] = fd[x] /\ fd[x] \in Fds /\ table'[fd[x]] = x
    <2>1. Live(x) /\ fd[x] \in Fds /\ table[fd[x]] = x
      BY <1>1, <1>2, <1>3 DEF Live, UsesOwnDescriptor
    <2>2. x # Free
      BY ObjectAssumption
    <2>3. CASE Opens(o)
      <3>1. PICK n \in Fds : /\ table[n] = Free
                             /\ table' = [table EXCEPT ![n] = o] /\ fd' = [fd EXCEPT ![o] = n]
        BY <1>1, <2>3, AllocateEffect DEF Opens
      <3> QED BY <1>1, <2>1, <2>2, <3>1 DEF TypeOK
    <2>4. CASE Moves(o)
      BY <2>1, <2>4 DEF Moves
    <2>5. CASE Closes(o) \/ ClosesAgain(o)
      <3>1. table' = [table EXCEPT ![fd[o]] = Free] /\ fd' = fd
        BY <2>5 DEF Closes, ClosesAgain, CloseFd
      <3>2. fd[o] \in Fds /\ table[fd[o]] \in {o, Free}
        BY <1>1, <2>5 DEF Closes, ClosesAgain, PendingFree, Pending, PendingStates, UsesOwnDescriptor
      <3> QED BY <1>1, <2>1, <2>2, <3>1, <3>2 DEF TypeOK
    <2> QED BY <2>3, <2>4, <2>5
  <1>4. Live(o)' => fd'[o] \in Fds /\ table'[fd'[o]] = o
    <2>1. CASE Opens(o)
      <3>1. PICK n \in Fds : /\ table' = [table EXCEPT ![n] = o] /\ fd' = [fd EXCEPT ![o] = n]
        BY <1>1, <2>1, AllocateEffect DEF Opens
      <3> QED BY <1>1, <3>1 DEF TypeOK
    <2>2. CASE Moves(o)
      BY <1>1, <2>2 DEF Moves, UsesOwnDescriptor
    <2>3. CASE Closes(o) \/ ClosesAgain(o)
      <3>1. pc'[o] \in {"none", "closed", "fields"}
        BY <1>1, <2>3 DEF Closes, ClosesAgain, Become, PendingStates, TypeOK
      <3> QED BY <3>1 DEF Live
    <2> QED BY <2>1, <2>2, <2>3
  <1>5. ASSUME NEW x \in Objects, Pending(x)'
        PROVE  fd'[x] \in Fds /\ table'[fd'[x]] = Free
    <2>1. CASE x = o
      <3>1. Closes(o)
        BY <1>1, <1>5, <2>1
           DEF Opens, Moves, Closes, ClosesAgain, Become, LiveStates, Pending, TypeOK
      <3>2. fd' = fd /\ fd[o] \in Fds /\ table' = [table EXCEPT ![fd[o]] = Free]
        BY <1>1, <3>1 DEF Closes, CloseFd
      <3> QED BY <1>1, <2>1, <3>2 DEF TypeOK
    <2>2. CASE x # o
      <3>1. Pending(x) /\ fd[x] \in Fds /\ table[fd[x]] = Free
        BY <1>1, <1>2, <1>5, <2>2 DEF Pending, PendingFree
      <3>2. ~ Opens(o)
        <4>1. ASSUME Opens(o) PROVE pc[o] = "none" /\ pc'[o] # "none"
          BY <1>1, <4>1 DEF Opens, Become, LiveStates, TypeOK
        <4> QED BY <3>1, <4>1 DEF OpensApart
      <3>3. fd' = fd /\ (table' = table \/ table' = [table EXCEPT ![fd[o]] = Free])
        BY <3>2 DEF Moves, Closes, ClosesAgain, CloseFd
      <3> QED BY <1>1, <3>1, <3>3 DEF TypeOK
    <2> QED BY <2>1, <2>2
  <1>6. UsesOwnDescriptor' /\ \A x \in Objects : Live(x)' => fd'[x] \in Fds
    BY <1>3, <1>4 DEF UsesOwnDescriptor
  <1>7. PendingFree'
    BY <1>5 DEF PendingFree
  <1> QED BY <1>6, <1>7 DEF OwnInv

(* The rule is enough: whatever threads open and close, in whatever way, a *)
(* program that opens nothing between the two closes of a number never     *)
(* uses a descriptor that is not its own (tx.rs and rx.rs close twice).    *)
THEOREM RuleIsEnough == RuleSpec => []UsesOwnDescriptor
  <1>1. Init => OwnInv
    BY DEF Init, OwnInv, TypeOK, UsesOwnDescriptor, Live, PendingFree, Pending
  <1>2. OwnInv /\ [Next /\ OpensApart]_vars => OwnInv'
    <2> SUFFICES ASSUME OwnInv, [Next /\ OpensApart]_vars PROVE OwnInv'
      OBVIOUS
    <2>1. TypeOK /\ TypeOK'
      BY TypeInv DEF OwnInv
    <2>2. CASE Next /\ OpensApart
      BY <2>1, <2>2, StepKinds, OwnStep
    <2>3. CASE UNCHANGED vars
      BY <2>1, <2>3 DEF vars, OwnInv, UsesOwnDescriptor, Live, PendingFree, Pending
    <2> QED BY <2>2, <2>3
  <1>3. OwnInv => UsesOwnDescriptor
    BY DEF OwnInv
  <1> QED BY <1>1, <1>2, <1>3, PTL DEF RuleSpec
-----------------------------------------------------------------------------
(* Programs that keep the rule without knowing it: one thread, or senders  *)
(* that are only dropped.                                                  *)
SafeUse ==
  \/ \A a, b \in Threads : a = b
  \/ Rxs = {} /\ ~ ExplicitClose

(* The one thread is busy with the object whose number waits. *)
BusyInv ==
  /\ TypeOK
  /\ \A o \in Objects : Pending(o) =>
       /\ \A a, b \in Threads : a = b
       /\ \E th \in Threads : runs[th] = o

LEMMA BusyStep ==
  ASSUME SafeUse, BusyInv, NEW th \in Threads, NEW o \in Objects, Holds(th, o), TypeOK',
         Opens(o) \/ Moves(o) \/ Closes(o) \/ ClosesAgain(o)
  PROVE  BusyInv' /\ OpensApart
  <1>1. TypeOK
    BY DEF BusyInv
  <1>2. \A x \in Objects \ {o} : pc'[x] = pc[x]
    BY <1>1 DEF Opens, Moves, Closes, ClosesAgain, Become, TypeOK
  <1>3. ASSUME NEW x \in Objects \ {o}, Pending(x)
        PROVE  FALSE
    BY <1>3, ObjectAssumption DEF BusyInv, Holds
  <1>4. ASSUME Pending(o)'
        PROVE  (\A a, b \in Threads : a = b) /\ \E t \in Threads : runs'[t] = o
    <2>1. Closes(o) /\ (o \in Rxs \/ ExplicitClose)
      BY <1>1, <1>4 DEF Opens, Moves, Closes, ClosesAgain, Become, LiveStates, Pending, TypeOK
    <2>2. \A a, b \in Threads : a = b
      BY <2>1 DEF SafeUse
    <2>3. runs' = [runs EXCEPT ![th] = o]
      BY <1>1, <1>4, <2>1 DEF Closes, Become, Pending, PendingStates, Holds, TypeOK
    <2> QED BY <1>1, <2>2, <2>3 DEF TypeOK
  <1>5. BusyInv'
    BY <1>2, <1>3, <1>4 DEF BusyInv, Pending
  <1>6. OpensApart
    <2> SUFFICES ASSUME NEW x \in Objects, Pending(x), NEW y \in Objects, pc[y] = "none"
                 PROVE  pc'[y] = "none"
      BY DEF OpensApart
    <2>1. x = o
      BY <1>3
    <2>2. y # o
      BY <2>1 DEF Pending
    <2> QED BY <1>2, <2>2
  <1> QED BY <1>5, <1>6

(* A program of either kind keeps the rule. *)
THEOREM SafeUseKeepsRule ==
  ASSUME SafeUse
  PROVE  Spec => RuleSpec
  <1>1. Init => BusyInv
    BY DEF Init, BusyInv, TypeOK, Pending
  <1>2. BusyInv /\ [Next]_vars => BusyInv' /\ [Next /\ OpensApart]_vars
    <2> SUFFICES ASSUME BusyInv, [Next]_vars PROVE BusyInv' /\ [Next /\ OpensApart]_vars
      OBVIOUS
    <2>1. TypeOK /\ TypeOK'
      BY TypeInv DEF BusyInv
    <2>2. CASE Next
      BY <2>1, <2>2, StepKinds, BusyStep
    <2>3. CASE UNCHANGED vars
      BY <2>1, <2>3 DEF vars, BusyInv, Pending
    <2> QED BY <2>2, <2>3
  <1> QED BY <1>1, <1>2, PTL DEF Spec, RuleSpec

(* With one thread, or with senders that are only dropped, no object ever  *)
(* uses a descriptor that is not its own, double closes or not.            *)
THEOREM OwnDescriptors ==
  ASSUME SafeUse
  PROVE  Spec => []UsesOwnDescriptor
  BY RuleIsEnough, SafeUseKeepsRule, PTL
=============================================================================
