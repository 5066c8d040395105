---------------------------- MODULE MCIntroOffers ----------------------------
(***************************************************************************)
(* Two territories, two configurations, one apply that comes back as often *)
(* as it likes: each may or may not be priced, cached and have an offer.   *)
(***************************************************************************)
EXTENDS IntroOffers, TLC

CONSTANTS us, gb, week, month, a1

MCSymmetry == Permutations({us, gb}) \cup Permutations({week, month})
=============================================================================
