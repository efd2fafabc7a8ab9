------------------------------ MODULE Engines ------------------------------
(***************************************************************************)
(* The engines a merchant's forecasts can come from, which ForecastEngine  *)
(* chooses and the runs of ForecastNode forecast with.                     *)
(***************************************************************************)
EXTENDS Naturals, FiniteSets

CONSTANTS
    Runs,  \* pipeline runs
    None

Engines == {"exponential", "shadow", "ensemble"}
=============================================================================
