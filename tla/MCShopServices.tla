---------------------------- MODULE MCShopServices ----------------------------
(* The services around an order on small instances. *)
EXTENDS ShopServices, TLC

\* Rows and requests of one kind are interchangeable.  Sets of different services
\* share their values: only one of the services takes steps.
Symmetry ==
  UNION {Permutations(kind) : kind \in {Sitting, TableOrder, Guest}}
=============================================================================
