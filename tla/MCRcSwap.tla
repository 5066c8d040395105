------------------------------ MODULE MCRcSwap ------------------------------
(***************************************************************************)
(* The two services beside App Store Connect: the RevenueCat swap, the     *)
(* calls passed on to RevenueCat, and Search Ads.  One part moves, the     *)
(* others rest.                                                            *)
(***************************************************************************)
EXTENDS RcSwap

CONSTANTS RcProducts, RC_RETRIES, MaxPages, MaxCalls,
          Campaigns, MAX_TRIES, MaxDay, MaxThings, MaxAdCalls

VARIABLES
  part,
  creds, link, rows, rc, run, overlap, calls,
  live, things, ids, db, postgres, adRun, dropped, today, adCalls

S == INSTANCE RcSurface WITH Runs <- Run
A == INSTANCE SearchAds WITH Runs <- Run, run <- adRun, calls <- adCalls, MaxCalls <- MaxAdCalls

\* Lists have pages.
CallSetting == MaxPages \in Nat

surfaceVars == <<creds, link, rows, rc, run, overlap, calls>>
adVars == <<live, things, ids, db, postgres, adRun, dropped, today, adCalls>>

MCInit ==
  /\ part \in {"swap", "calls", "ads"}
  /\ Init /\ S!Init /\ A!Init
  /\ part # "ads" => live = {} /\ postgres

SwapStep == part = "swap" /\ Next /\ UNCHANGED <<part, surfaceVars, adVars>>
CallStep == part = "calls" /\ S!Next /\ UNCHANGED <<part, vars, adVars>>
AdStep   == part = "ads" /\ A!Next /\ UNCHANGED <<part, vars, surfaceVars>>

MCNext == SwapStep \/ CallStep \/ AdStep
MCSpec == MCInit /\ [][MCNext]_<<part, vars, surfaceVars, adVars>>

OneSecret == S!OneSecret
CallSaysWhatWasDone == S!CallSaysWhatWasDone
AccountIsMirrored == A!AccountIsMirrored
=============================================================================
