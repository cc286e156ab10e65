---------------------------- MODULE MCPrintDispatch ----------------------------
(* PrintDispatch on small instances. *)
EXTENDS PrintDispatch, TLC

\* Orders and request sessions are interchangeable; the loop is not one of them.
Symmetry == Permutations(Order) \cup Permutations(Request)
=============================================================================
