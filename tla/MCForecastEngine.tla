-------------------------- MODULE MCForecastEngine --------------------------
(***************************************************************************)
(* A merchant at which runs, requests and the job meet, and another that   *)
(* is only in the job's way.                                               *)
(***************************************************************************)
EXTENDS ForecastEngine

CONSTANTS shop, other, r1, p1, p2

MCStart == [m \in Merchants |-> "shadow"]

MCAsks == [p \in Posts |-> IF p = p1 THEN {"exponential", "shadow"} ELSE {"ensemble"}]

MCMerchantOf == [x \in Runs \cup Posts |-> shop]
=============================================================================
