---------------------------- MODULE MCSalesSync ----------------------------
(***************************************************************************)
(* Two tasks and a direct run read products and orders page by page, while *)
(* stock changes, orders are placed and grow old, webhooks arrive and the  *)
(* process restarts.  One product is new, so that no row of it carries the *)
(* merchant, and has a variant, far, that the query does not ask for.  Of  *)
(* the earlier orders one is beyond the lines that are asked for, and one  *)
(* sells far.                                                              *)
(***************************************************************************)
EXTENDS SalesSync, TLC

CONSTANTS old, new, far, o1, o2, o3

MCSkuOf == [o \in Orders |-> CASE o = o1 -> old [] o = o2 -> far [] o = o3 -> new]
MCCatalog == <<{old}, {new}>>
MCEarlier == <<o1, o2>>

\* The tasks behave alike.
QueuedRuns == Permutations(Tasks)
=============================================================================
