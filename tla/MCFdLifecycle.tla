---------------------------- MODULE MCFdLifecycle ----------------------------
(***************************************************************************)
(* An instance of FdLifecycle for TLC: two senders that are alike.         *)
(***************************************************************************)
EXTENDS FdLifecycle, TLC

Symmetry == Permutations(Txs)
=============================================================================
