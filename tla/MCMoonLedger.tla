---------------------------- MODULE MCMoonLedger ----------------------------
(* MoonLedger on a small instance. *)
EXTENDS MoonLedger

CONSTANTS cap, metro, saveA, saveB
=============================================================================
