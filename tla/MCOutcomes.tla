----------------------------- MODULE MCOutcomes -----------------------------
(***************************************************************************)
(* Two orders of one SKU, approved as drafted or trimmed, over three days  *)
(* with a delivery of one day and windows of one day.                      *)
(***************************************************************************)
EXTENDS Outcomes

CONSTANTS o1, o2, s1

MCSkuOf == [o \in Orders |-> s1]
=============================================================================
