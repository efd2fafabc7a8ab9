----------------------------- MODULE MCWebhooks -----------------------------
(* An order delivered up to three times, and an update that is too long.   *)
EXTENDS Webhooks, TLC

CONSTANTS order, update, first, second, long

MCEventOf == first :> order @@ second :> order @@ long :> update
=============================================================================
