------------------------------ MODULE MCPyHandle ------------------------------
(***************************************************************************)
(* An instance of PyHandle for TLC: symmetric threads but the main one.    *)
(***************************************************************************)
EXTENDS PyHandle, TLC

Symmetry == Permutations(Threads \ {Main})
=============================================================================
