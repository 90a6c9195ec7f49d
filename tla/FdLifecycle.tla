----------------------------- MODULE FdLifecycle -----------------------------
(***************************************************************************)
(* Who owns which file descriptor, in a program that opens and closes      *)
(* senders (tx.rs), receivers (rx.rs) and other files from several         *)
(* threads.  The kernel hands out the lowest free number, so a number that *)
(* was closed is soon somebody else's.                                     *)
(*                                                                         *)
(* Every step holds at most one system call on a descriptor, and threads   *)
(* interleave between steps.  An object is used by one thread at a time    *)
(* (&mut self, or ownership), which runs[th] records while the thread is   *)
(* inside an operation of more than one step.                              *)
(***************************************************************************)
EXTENDS Naturals

CONSTANTS
  Threads,
  Txs, Rxs, Files,   \* senders, receivers and other files of the program
  Fds,               \* bound: the descriptor numbers of the process
  ExplicitClose,     \* the program calls WfbTx::close, not only drop
  NoFd, Free, Idle

Objects == Txs \cup Rxs \cup Files

ASSUME ObjectAssumption ==
  /\ Fds \subseteq Nat
  /\ NoFd \notin Fds
  /\ Free \notin Objects
  /\ Idle \notin Objects
  /\ Txs \cap Rxs = {} /\ Txs \cap Files = {} /\ Rxs \cap Files = {}
  /\ ExplicitClose \in BOOLEAN

VARIABLES
  table,   \* the kernel's table: who was given the number, or Free
  pc,      \* how far each object is in its life
  fd,      \* the number each object holds in its field
  runs     \* the object a thread is in the middle of opening or closing

vars == <<table, pc, fd, runs>>

Init ==
  /\ table = [n \in Fds |-> Free]
  /\ pc = [o \in Objects |-> "none"]
  /\ fd = [o \in Objects |-> NoFd]
  /\ runs = [th \in Threads |-> Idle]

(* The states in which an object counts on its descriptor. *)
Live(o) == pc[o] \in {"lookup", "bind", "build", "setup", "open"}

FreeFds == {n \in Fds : table[n] = Free}

(* A system call that yields a new descriptor for o, and close(2) of a     *)
(* number: whoever has it loses it, and closing a free one is EBADF.       *)
Allocate(o) ==
  \E n \in FreeFds :
    /\ \A m \in FreeFds : n <= m
    /\ table' = [table EXCEPT ![n] = o]
    /\ fd' = [fd EXCEPT ![o] = n]

CloseFd(o) == table' = [table EXCEPT ![fd[o]] = Free]

Become(o, state) == pc' = [pc EXCEPT ![o] = state]

(* Thread th takes the first, a middle, the last step of an operation on o. *)
Enter(th, o) == runs[th] = Idle /\ runs' = [runs EXCEPT ![th] = o]
Within(th, o) == runs[th] = o /\ UNCHANGED runs
Leave(th, o) == runs[th] = o /\ runs' = [runs EXCEPT ![th] = Idle]
Alone(th) == runs[th] = Idle /\ UNCHANGED runs
-----------------------------------------------------------------------------
(* WfbTx::open: socket(2), unless the arguments are refused or no          *)
(* descriptor is left, which changes nothing.                              *)
TxSocket(th, t) ==
  /\ pc[t] = "none"
  /\ Allocate(t)
  /\ Become(t, "lookup")
  /\ Enter(th, t)

(* The interface name is too long, SIOCGIFINDEX fails, or bind fails: each *)
(* return closes the socket first.                                         *)
TxOpenFailsLeaks(th, t) ==
  /\ pc[t] \in {"lookup", "bind"}
  /\ Become(t, "none")
  /\ Leave(th, t)
  /\ UNCHANGED <<table, fd>>

TxOpenFailsGoesOn(th, t) ==
  /\ pc[t] \in {"lookup", "bind"}
  /\ CloseFd(t)
  /\ Become(t, "build")
  /\ Within(th, t)
  /\ UNCHANGED fd

TxOpenFails(th, t) ==
  /\ pc[t] \in {"lookup", "bind"}
  /\ CloseFd(t)
  /\ Become(t, "none")
  /\ Leave(th, t)
  /\ UNCHANGED fd

TxLookup(th, t) ==
  /\ pc[t] = "lookup"
  /\ Become(t, "bind")
  /\ Within(th, t)
  /\ UNCHANGED <<table, fd>>

TxBind(th, t) ==
  /\ pc[t] = "bind"
  /\ Become(t, "build")
  /\ Within(th, t)
  /\ UNCHANGED <<table, fd>>

(* build_radiotap_ht refuses mcs_index or bandwidth: the WfbTx built so    *)
(* far is dropped, and its Drop closes the socket.                         *)
TxBuildFails(th, t) ==
  /\ pc[t] = "build"
  /\ CloseFd(t)
  /\ Become(t, "none")
  /\ Leave(th, t)
  /\ UNCHANGED fd

TxOpened(th, t) ==
  /\ pc[t] = "build"
  /\ Become(t, "open")
  /\ Leave(th, t)
  /\ UNCHANGED <<table, fd>>

(* Drop, which is also all that wfb_tx_close does. *)
TxDrop(th, t) ==
  /\ pc[t] = "open"
  /\ CloseFd(t)
  /\ Become(t, "none")
  /\ Alone(th)
  /\ UNCHANGED fd

(* WfbTx::close(self) closes; self then goes out of scope, and Drop closes *)
(* the same number again, since nothing has set it to -1.                  *)
TxClose(th, t) ==
  /\ ExplicitClose
  /\ pc[t] = "open"
  /\ CloseFd(t)
  /\ Become(t, "closed")
  /\ Enter(th, t)
  /\ UNCHANGED fd

TxDropClosed(th, t) ==
  /\ pc[t] = "closed"
  /\ CloseFd(t)
  /\ Become(t, "none")
  /\ Leave(th, t)
  /\ UNCHANGED fd
-----------------------------------------------------------------------------
(* WfbRx::open: pcap makes the socket; when setnonblock or the filter      *)
(* fails the Capture is dropped, which closes it.                          *)
RxOpenPcap(th, r) ==
  /\ pc[r] = "none"
  /\ Allocate(r)
  /\ Become(r, "setup")
  /\ Enter(th, r)

RxSetupFails(th, r) ==
  /\ pc[r] = "setup"
  /\ CloseFd(r)
  /\ Become(r, "none")
  /\ Leave(th, r)
  /\ UNCHANGED fd

RxOpened(th, r) ==
  /\ pc[r] = "setup"
  /\ Become(r, "open")
  /\ Leave(th, r)
  /\ UNCHANGED <<table, fd>>

(* Drop closes the raw descriptor that open took from the Capture, ...     *)
RxDrop(th, r) ==
  /\ pc[r] = "open"
  /\ CloseFd(r)
  /\ Become(r, "fields")
  /\ Enter(th, r)
  /\ UNCHANGED fd

(* ... and then its fields are dropped: pcap_close closes it again. *)
RxDropCapture(th, r) ==
  /\ pc[r] = "fields"
  /\ CloseFd(r)
  /\ Become(r, "none")
  /\ Leave(th, r)
  /\ UNCHANGED fd
-----------------------------------------------------------------------------
(* Any other file of the program, opened and closed in one call each. *)
FileOpen(th, f) ==
  /\ pc[f] = "none"
  /\ Allocate(f)
  /\ Become(f, "open")
  /\ Alone(th)

FileClose(th, f) ==
  /\ pc[f] = "open"
  /\ CloseFd(f)
  /\ Become(f, "none")
  /\ Alone(th)
  /\ UNCHANGED fd

TxStep(th, t) ==
  \/ TxSocket(th, t) \/ TxOpenFails(th, t) \/ TxLookup(th, t) \/ TxBind(th, t)
  \/ TxBuildFails(th, t) \/ TxOpened(th, t)
  \/ TxDrop(th, t) \/ TxClose(th, t) \/ TxDropClosed(th, t)

RxStep(th, r) ==
  \/ RxOpenPcap(th, r) \/ RxSetupFails(th, r) \/ RxOpened(th, r)
  \/ RxDrop(th, r) \/ RxDropCapture(th, r)

FileStep(th, f) == FileOpen(th, f) \/ FileClose(th, f)

Next ==
  \E th \in Threads :
    \/ \E t \in Txs : TxStep(th, t)
    \/ \E r \in Rxs : RxStep(th, r)
    \/ \E f \in Files : FileStep(th, f)

Spec == Init /\ [][Next]_vars

(* A number waits for its second close. *)
Pending(o) == pc[o] \in {"closed", "fields"}

(* The rule for programs that have more than one thread: nothing is opened *)
(* - a sender, a receiver or any other file - between the two closes of a  *)
(* number.  One thread keeps it without knowing, and so does a program     *)
(* without receivers that leaves senders to drop.                          *)
OpensApart ==
  (\E o \in Objects : Pending(o)) => \A o \in Objects : pc[o] = "none" => pc'[o] = "none"

RuleSpec == Init /\ [][Next /\ OpensApart]_vars
-----------------------------------------------------------------------------
(* Every variable has its type. *)
TypeOK ==
  /\ table \in [Fds -> Objects \cup {Free}]
  /\ pc \in [Objects -> {"none", "lookup", "bind", "build", "setup", "open", "closed", "fields"}]
  /\ fd \in [Objects -> Fds \cup {NoFd}]
  /\ runs \in [Threads -> Objects \cup {Idle}]

(* While an object counts on its descriptor, the number is its own: what   *)
(* a sender writes, a receiver polls or the rest of the program reads goes *)
(* to the file it was opened for, whatever other threads open and close.   *)
UsesOwnDescriptor == \A o \in Objects : Live(o) => table[fd[o]] = o

(* No descriptor is left behind: on every error path of open and every way *)
(* to close, a number that was given to an object is freed with it.        *)
NoLeak == \A n \in Fds : table[n] # Free => Live(table[n]) /\ fd[table[n]] = n
=============================================================================
