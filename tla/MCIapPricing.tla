---------------------------- MODULE MCIapPricing ----------------------------
(***************************************************************************)
(* The in-app purchase alone: what the docs say of a second apply that has *)
(* a warm cache.                                                           *)
(***************************************************************************)
EXTENDS IapPricing

CONSTANTS us, gb, s1, a1
=============================================================================
