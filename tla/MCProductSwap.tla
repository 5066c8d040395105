--------------------------- MODULE MCProductSwap ----------------------------
(***************************************************************************)
(* A swap request, r1, and one more request or retry, r2, one after the    *)
(* other, over a source with one locale and one entitlement that holds the *)
(* old product (two overlapping swaps and more holders are MCRcSwap's).    *)
(***************************************************************************)
EXTENDS ProductSwap, TLC

CONSTANTS r1, r2, t1, k1, e1, p1, o1

MCSource == [part \in {"localizations", "price_schedule", "intro_offers"} |->
  IF part = "localizations" THEN {k1} ELSE {}]
MCScopes == {{"group_availability", "localizations", "price_schedule", "intro_offers",
              "screenshot", "auto_archive"},
             {"group_availability", "localizations"}}
MCOfferingOf == p1 :> o1
MCHeld == {e1}

\* Which of the two comes first is only a name.
InOrder == cpc[r2] = "idle" \/ cpc[r1] # "idle"
MCNext == Next /\ InOrder'
MCSpec == Init /\ [][MCNext]_vars /\ \A r \in Run : WF_vars(Serve(r))
=============================================================================
