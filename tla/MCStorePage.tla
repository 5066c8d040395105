---------------------------- MODULE MCStorePage -----------------------------
(***************************************************************************)
(* What makes a store page, each part explored with the others at rest.    *)
(*                                                                         *)
(* Texts: two locales, two texts, and any two of sync, create, update,     *)
(* delete and bulk apply, overlapping or one after the other; the bulk     *)
(* apply is of the promotional text, which a live version lets one write   *)
(* and a version in review does not.  Listing: two requests that overlap,  *)
(* two proposals, a pack of one of the two other locales, so that a        *)
(* localize needs a second call, and a cap of two, so that it is met.      *)
(* Experiments, custom product pages, single screenshots: two requests     *)
(* that overlap in any order, with every answer lost or refused.  Two      *)
(* experiments and two review submissions, so that a submit meets what an  *)
(* earlier one has left; two keywords, so that one is kept while another   *)
(* goes; a set of at most two screenshots, so that it is full, and three   *)
(* edits of it, so that a third follows two that failed or overlapped.     *)
(***************************************************************************)
EXTENDS Metadata

CONSTANTS
  en, de, a, b, src, fr, it, r1, r2, prop1, prop2, exp1, exp2, k1, k2, n1,
  Requests, Proposals, Source, OtherLocales, MaxPack, Cap, Calls,
  Exps, Files, MAX_TREATMENTS, MaxSubs, MaxCalls,
  Keywords, PageLocales, Seed, Names, MAX_SCREENSHOT_FILES, MaxEdits

VARIABLES
  part,     \* the part that moves
  cache, recent, lock, postgres, req, draft, stored, lost, asked, calls,
  expState, treatments, subs, loc, expRun, sent, late, refused, orphan, expCalls,
  pages, offered, pageRun, excused, pageCalls,
  set, edit, mixed, edits

L == INSTANCE Listing WITH Others <- OtherLocales
X == INSTANCE Experiments WITH Runs <- Requests, run <- expRun, calls <- expCalls
P == INSTANCE CustomPages WITH Runs <- Requests, Locales <- PageLocales, run <- pageRun, calls <- pageCalls
A == INSTANCE AssetTools WITH Runs <- Requests, run <- edit, calls <- edits, MaxCalls <- MaxEdits

listingVars == <<cache, recent, lock, postgres, req, draft, stored, lost, asked, calls>>
expVars == <<expState, treatments, subs, loc, expRun, sent, late, refused, orphan, expCalls>>
pageVars == <<pages, offered, pageRun, excused, pageCalls>>
assetVars == <<set, edit, mixed, edits>>
MCBulkFields == {"promotional_text"}
MCOtherLocales == <<fr, it>>
MCFiles == <<1, 2>>
Symmetry == Permutations(Locales) \cup Permutations(Values)

MCInit ==
  /\ part \in {"texts", "listing", "experiments", "pages", "assets"}
  /\ Init /\ L!Init /\ X!Init /\ P!Init /\ A!Init
  /\ part # "texts" => drift
  /\ part # "listing" => postgres
  /\ part # "experiments" => loc = X!NoLoc /\ expState[exp1] = "prepare"
  /\ part # "pages" => offered = {} /\ pages[1].keywords = {}
  /\ part # "assets" => set.shots = <<>>

TextStep       == part = "texts" /\ Next /\ UNCHANGED <<part, listingVars, expVars, pageVars, assetVars>>
ListingStep    == part = "listing" /\ L!Next /\ UNCHANGED <<part, vars, expVars, pageVars, assetVars>>
ExperimentStep == part = "experiments" /\ X!Next /\ UNCHANGED <<part, vars, listingVars, pageVars, assetVars>>
PageStep       == part = "pages" /\ P!Next /\ UNCHANGED <<part, vars, listingVars, expVars, assetVars>>
AssetStep      == part = "assets" /\ A!Next /\ UNCHANGED <<part, vars, listingVars, expVars, pageVars>>

MCNext == TextStep \/ ListingStep \/ ExperimentStep \/ PageStep \/ AssetStep
MCSpec == MCInit /\ [][MCNext]_<<part, vars, listingVars, expVars, pageVars, assetVars>>

CapHolds == L!CapHolds
BuysWithinQuota == L!BuysWithinQuota
BatchesAddUp == L!BatchesAddUp
SubmitIsClean == X!SubmitIsClean
CleansUpItsOwn == X!CleansUpItsOwn
KeywordsBetween == P!KeywordsBetween
NoHalfPages == P!NoHalfPages
SlotIsExact == A!SlotIsExact
=============================================================================
