----------------------------- MODULE MCLLMCalls -----------------------------
(***************************************************************************)
(* Two chat turns that share a client, and a run that has a client of its  *)
(* own and shares the budget with them.                                    *)
(***************************************************************************)
EXTENDS LLMCalls

CONSTANTS r1, t1, t2
=============================================================================
