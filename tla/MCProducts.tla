----------------------------- MODULE MCProducts -----------------------------
(***************************************************************************)
(* Products at App Store Connect (MCSubClone) and the two services beside  *)
(* it (MCRcSwap), each part explored with all others at rest.              *)
(*                                                                         *)
(* RevenueCat swap: two of the same product, one after the other or        *)
(* overlapping, over two entitlements (one does not hold the old product)  *)
(* and two packages in two offerings.  RevenueCat calls: three requests,   *)
(* two at a time, one product to attach, lists of two pages and two tries. *)
(* Search Ads: three requests or edits by hand, two at a time, on two      *)
(* campaigns and two days, on both databases.                              *)
(***************************************************************************)
EXTENDS MCSubClone

CONSTANTS e1, e2, p1, p2, o1, o2, c1, c2,
          SwapsAtOnce, Entitlement, Package, Offering, OfferingOf, Held,
          RcProducts, RC_RETRIES, MaxPages, MaxRcCalls,
          Campaigns, MAX_TRIES, MaxDay, MaxThings, MaxAdCalls

VARIABLES
  beside,   \* whether one of the services moves
  product, att, swapPc, swapFound, swapTodo, swapErrs,
  service, creds, link, linkRows, rc, rcRun, rcOverlap, rcCalls,
  live, things, adIds, db, postgres, adRun, dropped, today, adCalls

\* The instance brings the theorems about the services as well.
Services == INSTANCE RcSwapProofs WITH
  MaxActive <- SwapsAtOnce, pc <- swapPc, found <- swapFound, todo <- swapTodo, errs <- swapErrs,
  MaxCalls <- MaxRcCalls, rows <- linkRows, run <- rcRun, overlap <- rcOverlap,
  calls <- rcCalls, ids <- adIds, part <- service

ASSUME ServicesSetting == Services!Setting /\ Services!CallSetting

appStoreVars == <<explored, vars, catalogVars, partVars>>
serviceVars == <<product, att, swapPc, swapFound, swapTodo, swapErrs,
                 service, creds, link, linkRows, rc, rcRun, rcOverlap, rcCalls,
                 live, things, adIds, db, postgres, adRun, dropped, today, adCalls>>

MCOfferingOf == p1 :> o1 @@ p2 :> o2
MCHeld == {e1, p1, p2}
Symmetry ==
  Permutations({r1, r2}) \cup Permutations({x1, x2}) \cup Permutations({c1, c2})

AllInit ==
  /\ beside \in BOOLEAN
  /\ MCInit /\ Services!MCInit
  /\ beside => explored = "clone" /\ kind = "subscription"
  /\ ~beside => service = "swap"

AppStoreStep == ~beside /\ MCNext /\ UNCHANGED <<beside, serviceVars>>
ServiceStep == beside /\ Services!MCNext /\ UNCHANGED <<beside, appStoreVars>>

AllNext == AppStoreStep \/ ServiceStep
AllSpec == AllInit /\ [][AllNext]_<<beside, appStoreVars, serviceVars>>

CleanSwapMovesWhatItFound == Services!CleanSwapMovesWhatItFound
LossIsReported == Services!LossIsReported
HandsOver == Services!HandsOver
OneSecret == Services!OneSecret
CallSaysWhatWasDone == Services!CallSaysWhatWasDone
AccountIsMirrored == Services!AccountIsMirrored
=============================================================================
