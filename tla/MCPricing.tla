----------------------------- MODULE MCPricing ------------------------------
(***************************************************************************)
(* The prices of one in-app purchase (IapPricing) and of one subscription  *)
(* in one territory (SubPrice), each explored with the other at rest.      *)
(*                                                                         *)
(* In-app purchase: two territories and a ladder of two prices more than   *)
(* half apart, one caller that syncs and one that applies, each as often   *)
(* as it likes, and one edit by hand.  Subscription: two overlapping       *)
(* applies, each as often as it likes, by rows as old as they may be, of   *)
(* any of three prices: 4 to 6 and 4 to 2 are the half that is still       *)
(* allowed, 2 to 4 and 6 to 2 are not.                                     *)
(***************************************************************************)
EXTENDS IapPricing, TLC

CONSTANTS us, gb, s1, a1, b1, b2,
          SubPrices, SubApplies

VARIABLES
  part,     \* the part that moves
  current, pending, paid, cached, subPc, item, snap, sound, misled

Sub == INSTANCE SubPrice WITH Price <- SubPrices, Apply <- SubApplies, pc <- subPc

subVars == <<current, pending, paid, cached, subPc, item, snap, sound, misled>>

MCSymmetry == Permutations({us, gb}) \cup Permutations({b1, b2})

MCInit ==
  /\ part \in {"iap", "subscription"}
  /\ Init /\ Sub!Init
  /\ part # "iap" => manual = NoPrices
  /\ part # "subscription" => current = 0

IapStep == part = "iap" /\ Next /\ UNCHANGED <<part, subVars>>
SubStep == part = "subscription" /\ Sub!Next /\ UNCHANGED <<part, vars>>

MCNext == IapStep \/ SubStep
MCSpec == MCInit /\ [][MCNext]_<<part, vars, subVars>>

PaysMoreOnlyIfMisled == Sub!PaysMoreOnlyIfMisled
LeavesBandOnlyIfMisjudged == Sub!LeavesBandOnlyIfMisjudged
=============================================================================
