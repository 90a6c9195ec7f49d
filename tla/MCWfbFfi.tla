------------------------------- MODULE MCWfbFfi -------------------------------
(***************************************************************************)
(* An instance of WfbFfi for TLC: an empty frame, a short and a long one.  *)
(***************************************************************************)
EXTENDS WfbFfi

Frame(payload, n) == [payload |-> payload, meta |-> [seq |-> n, truncated |-> FALSE]]

MCFrames == {Frame(<< >>, 1), Frame(<<5>>, 2), Frame(<<6, 7>>, 3)}
=============================================================================
