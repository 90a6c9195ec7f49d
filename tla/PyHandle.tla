------------------------------- MODULE PyHandle -------------------------------
(***************************************************************************)
(* One Rx or Tx object of the Python package (api.py) on top of the C ABI  *)
(* (ffi.rs), used by several Python threads.  The object keeps _closed and *)
(* _handle; _handle points to the boxed Rust object, which wfb_rx_close    *)
(* and wfb_tx_close free.  Rx and Tx have the same code for this; an       *)
(* operation is recv or send.                                              *)
(*                                                                         *)
(* ctypes releases the interpreter lock around each C call, and threads    *)
(* may switch between any two statements, so every statement that reads or *)
(* writes the shared fields, and every C call, is a step.                  *)
(***************************************************************************)
EXTENDS Naturals

CONSTANTS
  Threads,
  Main,         \* the thread that Ctrl-C interrupts
  MaxFrees      \* bound: no more closes once the box was freed this often

ASSUME ThreadAssumption == Main \in Threads

VARIABLES
  closed,    \* self._closed
  handle,    \* self._handle.value: "box", or "null"
  freed,     \* how many times Box::from_raw was given the box
  pc,        \* the statement each thread is at
  code,      \* the code a thread's last C call returned
  outcome,   \* what each thread's last operation returned or raised
  overlap,   \* history: a close ran at the same time as another operation
  cut        \* history: a close was interrupted right after it freed the box

vars == <<closed, handle, freed, pc, code, outcome, overlap, cut>>

Closing(th) == pc[th] \in {"testing", "freeing", "clearing", "marking"}
Others(th) == Threads \ {th}

Init ==
  /\ closed = FALSE
  /\ handle = "box"
  /\ freed = 0
  /\ pc = [th \in Threads |-> "idle"]
  /\ code = [th \in Threads |-> "ok"]
  /\ outcome = [th \in Threads |-> "none"]
  /\ overlap = FALSE
  /\ cut = FALSE

Goto(th, where) == pc' = [pc EXCEPT ![th] = where]
Finish(th, r) == Goto(th, "idle") /\ outcome' = [outcome EXCEPT ![th] = r]
-----------------------------------------------------------------------------
(* recv or send: if self._closed: raise RuntimeError. *)
UseCheck(th) ==
  /\ pc[th] = "idle"
  /\ IF closed
     THEN Finish(th, "RuntimeError")
     ELSE Goto(th, "checked") /\ UNCHANGED outcome
  /\ overlap' = (overlap \/ \E other \in Others(th) : Closing(other))
  /\ UNCHANGED <<closed, handle, freed, code, cut>>

(* The arguments are of the wrong type or size: raised before the C call.  *)
UseRefused(th) ==
  /\ pc[th] = "checked"
  /\ Finish(th, "ValueError")
  /\ UNCHANGED <<closed, handle, freed, code, overlap, cut>>

(* The C call reads self._handle and is refused when that is null.         *)
UseCall(th) ==
  /\ pc[th] = "checked"
  /\ IF handle = "null"
     THEN Finish(th, "WfbRsNullPointerError") /\ code' = [code EXCEPT ![th] = "null"]
     ELSE Goto(th, "native") /\ UNCHANGED <<outcome, code>>
  /\ UNCHANGED <<closed, handle, freed, overlap, cut>>

(* The C call, which has used the box all along, returns ok or a failure.  *)
UseReturn(th, r) ==
  /\ pc[th] = "native"
  /\ code' = [code EXCEPT ![th] = r]
  /\ Finish(th, r)
  /\ UNCHANGED <<closed, handle, freed, overlap, cut>>
-----------------------------------------------------------------------------
(* close: if self._closed: return.  __exit__ and __del__ do the same.      *)
CloseCheck(th) ==
  /\ pc[th] = "idle"
  /\ freed < MaxFrees
  /\ IF closed
     THEN Finish(th, "ok")
     ELSE Goto(th, "testing") /\ UNCHANGED outcome
  /\ overlap' = (overlap \/ \E other \in Others(th) : pc[other] # "idle")
  /\ UNCHANGED <<closed, handle, freed, code, cut>>

(* if self._handle and self._handle.value: *)
CloseTest(th) ==
  /\ pc[th] = "testing"
  /\ IF handle = "null"
     THEN Goto(th, "marking") /\ code' = [code EXCEPT ![th] = "ok"]
     ELSE Goto(th, "freeing") /\ UNCHANGED code
  /\ UNCHANGED <<closed, handle, freed, outcome, overlap, cut>>

(* wfb_rx_close(self._handle): null is refused, a pointer is freed.        *)
CloseCallRaises(th) ==
  /\ pc[th] = "freeing"
  /\ IF handle = "null"
     THEN code' = [code EXCEPT ![th] = "null"] /\ UNCHANGED freed
     ELSE code' = [code EXCEPT ![th] = "ok"] /\ freed' = freed + 1
  /\ Finish(th, code'[th])
  /\ UNCHANGED <<closed, handle, overlap, cut>>

CloseCall(th) ==
  /\ pc[th] = "freeing"
  /\ IF handle = "null"
     THEN code' = [code EXCEPT ![th] = "null"] /\ UNCHANGED freed
     ELSE code' = [code EXCEPT ![th] = "ok"] /\ freed' = freed + 1
  /\ Goto(th, "clearing")
  /\ UNCHANGED <<closed, handle, outcome, overlap, cut>>

(* self._handle = WfbRxHandle() *)
CloseClearForgets(th) ==
  /\ pc[th] = "clearing"
  /\ Goto(th, "marking")
  /\ UNCHANGED <<closed, handle, freed, code, outcome, overlap, cut>>

CloseClear(th) ==
  /\ pc[th] = "clearing"
  /\ handle' = "null"
  /\ Goto(th, "marking")
  /\ UNCHANGED <<closed, freed, code, outcome, overlap, cut>>

(* self._closed = True, then raise_for_code. *)
CloseMark(th) ==
  /\ pc[th] = "marking"
  /\ closed' = TRUE
  /\ Finish(th, IF code[th] = "null" THEN "WfbRsNullPointerError" ELSE "ok")
  /\ UNCHANGED <<handle, freed, code, overlap, cut>>

(* Ctrl-C: the interpreter raises KeyboardInterrupt in the main thread     *)
(* between two statements of an operation, after a C call for instance.    *)
Interrupt(th) ==
  /\ th = Main
  /\ pc[th] = "checked" \/ Closing(th)
  /\ Finish(th, "KeyboardInterrupt")
  /\ cut' = (cut \/ pc[th] = "clearing")
  /\ UNCHANGED <<closed, handle, freed, code, overlap>>

Use(th) ==
  \/ UseCheck(th) \/ UseRefused(th) \/ UseCall(th)
  \/ \E r \in {"ok", "error"} : UseReturn(th, r)

Close(th) ==
  \/ CloseCheck(th) \/ CloseTest(th) \/ CloseCall(th) \/ CloseClear(th) \/ CloseMark(th)

Next == \E th \in Threads : Use(th) \/ Close(th) \/ Interrupt(th)

Spec == Init /\ [][Next]_vars
-----------------------------------------------------------------------------
(* Every variable has its type. *)
TypeOK ==
  /\ closed \in BOOLEAN
  /\ handle \in {"box", "null"}
  /\ freed \in Nat
  /\ pc \in [Threads -> {"idle", "checked", "native", "testing", "freeing", "clearing", "marking"}]
  /\ code \in [Threads -> {"ok", "null", "error"}]
  /\ outcome \in [Threads -> {"none", "ok", "error", "RuntimeError", "ValueError",
                            "WfbRsNullPointerError", "KeyboardInterrupt"}]
  /\ overlap \in BOOLEAN
  /\ cut \in BOOLEAN

(* The contract of the wrapper: as long as no close overlaps another       *)
(* operation, however many threads use the object, however often it is     *)
(* closed and wherever Ctrl-C cuts an operation short, the box is freed at *)
(* most once and no C call runs on a freed one - except when it cuts a     *)
(* close between the C call and the statement that clears the pointer,     *)
(* which __del__ then frees again.  (Sends or recvs may overlap each other *)
(* for that; they race on the box, which is another matter.)               *)
SafeUnlessOverlapped ==
  ~ overlap /\ ~ cut =>
    /\ freed <= 1
    /\ \A th \in Threads : pc[th] = "native" => freed = 0

(* Even when closes overlap, an object that says it is closed holds no     *)
(* pointer: what comes later is refused and never reaches the box.         *)
ClosedHoldsNothing == closed => handle = "null"
=============================================================================
