----------------------------- MODULE MCSubPrice -----------------------------
(***************************************************************************)
(* The price of one territory alone: what the docs say of it without the   *)
(* condition that the rows it is judged by are true.                       *)
(***************************************************************************)
EXTENDS SubPrice

CONSTANT a1
=============================================================================
