-------------------------- MODULE ProductSwapProofs --------------------------
(***************************************************************************)
(* What holds of a product swap for every number of requests, overlapping  *)
(* in any way, territories, locales, prices, offers, entitlements and      *)
(* packages: it is a run of the cloner and a run of the RevenueCat swap,   *)
(* so that what ProductsProofs and RcSwapProofs prove of each holds in it, *)
(* and the row that is committed tells the truth about both.               *)
(***************************************************************************)
EXTENDS ProductSwap, TLAPS

\* What the two are explored beside, in MCProducts and in MCRcSwap; no theorem here is
\* about it.
CONSTANTS
  r1, r2, t1, k1, k2, x1, x2, e1, e2, p1, p2, o1, o2, c1, c2,
  ProductNames, MaxCatalogCalls, Products, Lang, Canon, MaxParts,
  MaxCalls, RcProducts, RC_RETRIES, MaxPages, Campaigns, MAX_TRIES, MaxDay, MaxThings,
  MaxAdCalls
VARIABLES
  explored, apple, sold, localRows, ids, request, overlap, removed, calls,
  partKind, parts, reviewShot, partRun, written, together, partCalls,
  beside, creds, link, run, rc, live, things, db, postgres, adRun, dropped, today, adCalls

CP == INSTANCE ProductsProofs WITH
  pc <- cpc, todo <- ctodo, errs <- cerrs, MaxProducts <- 0, Locales <- {},
  SwapsAtOnce <- MaxActive, MaxRcCalls <- MaxCalls, MaxPages <- 0, service <- explored,
  swapPc <- spc, swapFound <- found, swapTodo <- stodo, swapErrs <- serrs,
  linkRows <- rows, rcRun <- run, rcOverlap <- overlap, rcCalls <- calls, adIds <- ids
RP == INSTANCE RcSwapProofs WITH pc <- spc, todo <- stodo, errs <- serrs, part <- explored

-----------------------------------------------------------------------------
(***************************************************************************)
(* The two halves.  The lemmas of this section say of Clone and Rc, the    *)
(* instances in ProductSwap, what the two proof modules prove of theirs,   *)
(* which are the same.                                                     *)
(***************************************************************************)

CloneInv == CP!CloneInv
RcInv == RP!RcInv

LEMMA SameClone ==
  /\ Clone!Init <=> CP!Init
  /\ Clone!TypeOK <=> CP!TypeOK
  /\ Clone!CleanCloneIsComplete <=> CP!CleanCloneIsComplete
  /\ Clone!Part = CP!Part /\ Clone!ScopeName = CP!ScopeName /\ Clone!vars = CP!vars
<1>1. Clone!Part = CP!Part /\ Clone!ScopeName = CP!ScopeName /\ Clone!vars = CP!vars
  BY DEF Clone!Part, CP!Part, Clone!ScopeName, CP!ScopeName, Clone!vars, CP!vars
<1>2. Clone!Init <=> CP!Init
  BY <1>1, Zenon DEF Clone!Init, CP!Init
<1>3. Clone!TypeOK <=> CP!TypeOK
  BY <1>1, Zenon DEF Clone!TypeOK, CP!TypeOK, Clone!Phase, CP!Phase
<1>4. Clone!CleanCloneIsComplete <=> CP!CleanCloneIsComplete
  BY <1>1, Zenon DEF Clone!CleanCloneIsComplete, CP!CleanCloneIsComplete
<1> QED
  BY <1>1, <1>2, <1>3, <1>4

LEMMA SameCloneSteps ==
  /\ \A r \in Run : Clone!CloneStep(r) <=> CP!CloneStep(r)
  /\ [Clone!Next]_(Clone!vars) <=> [CP!Next]_(CP!vars)
<1>1. \A r \in Run : Clone!CloneStep(r) <=> CP!CloneStep(r)
  BY ZenonT(120) DEF Clone!CloneStep, CP!CloneStep, Clone!SharedStep, CP!SharedStep,
     Clone!ReadSource, CP!ReadSource, Clone!ListGroup, CP!ListGroup, Clone!CreateTarget,
     CP!CreateTarget, Clone!LocalRow, CP!LocalRow, Clone!ReadAvailability,
     CP!ReadAvailability, Clone!PostAvailability, CP!PostAvailability, Clone!Probe,
     CP!Probe, Clone!ProbeOf, CP!ProbeOf, Clone!Snapshots, CP!Snapshots, Clone!EndPart,
     CP!EndPart, Clone!CopyLocalization, CP!CopyLocalization, Clone!CopyPrice, CP!CopyPrice,
     Clone!CopyOffer, CP!CopyOffer, Clone!CopyKey, CP!CopyKey, Clone!Accepts, CP!Accepts,
     Clone!SetPrices, CP!SetPrices, Clone!DeleteShot, CP!DeleteShot, Clone!UploadShot,
     CP!UploadShot, Clone!ArchiveSource, CP!ArchiveSource, Clone!Goto, CP!Goto,
     Clone!Record, CP!Record, Clone!Fail, CP!Fail, Clone!Opened, CP!Opened, Clone!Closed,
     CP!Closed, Clone!Unfinished, CP!Unfinished, Clone!Ignored, CP!Ignored,
     Clone!AfterScreenshot, CP!AfterScreenshot, Clone!AfterOffers, CP!AfterOffers,
     Clone!AfterPrices, CP!AfterPrices, Clone!AfterLocalizations, CP!AfterLocalizations,
     Clone!AfterAvailability, CP!AfterAvailability, Clone!AfterRow, CP!AfterRow,
     Clone!AfterPart, CP!AfterPart, Clone!appleVars, CP!appleVars, Clone!Part, CP!Part
<1>2. \A r \in Run : \A x \in Scopes : Clone!BeginClone(r, x) <=> CP!BeginClone(r, x)
  BY Zenon DEF Clone!Cardinality, CP!Cardinality, Clone!BeginClone, CP!BeginClone,
     Clone!Active, CP!Active, Clone!Goto, CP!Goto, Clone!Ignored, CP!Ignored,
     Clone!appleVars, CP!appleVars
<1>3. \A r \in Run : (Clone!Commit(r) <=> CP!Commit(r)) /\ (Clone!Abort(r) <=> CP!Abort(r))
  BY Zenon DEF Clone!Commit, CP!Commit, Clone!Abort, CP!Abort, Clone!Active, CP!Active,
     Clone!Goto, CP!Goto, Clone!appleVars, CP!appleVars
<1>4. Clone!Next <=> CP!Next
  BY <1>1, <1>2, <1>3, Zenon DEF Clone!Next, CP!Next
<1> QED
  BY <1>1, <1>4 DEF Clone!vars, CP!vars

LEMMA SameRc ==
  /\ Rc!Init <=> RP!Init
  /\ Rc!TypeOK <=> RP!TypeOK
  /\ Rc!CleanSwapMovesWhatItFound <=> RP!CleanSwapMovesWhatItFound
  /\ Rc!Holder = RP!Holder /\ Rc!vars = RP!vars
  /\ [Rc!Next]_(Rc!vars) <=> [RP!Next]_(RP!vars)
<1>1. Rc!Holder = RP!Holder /\ Rc!vars = RP!vars
  BY DEF Rc!Holder, RP!Holder, Rc!vars, RP!vars
<1>2. Rc!Init <=> RP!Init
  BY <1>1, Zenon DEF Rc!Init, RP!Init
<1>3. Rc!TypeOK <=> RP!TypeOK
  BY <1>1, Zenon DEF Rc!TypeOK, RP!TypeOK, Rc!Phase, RP!Phase
<1>4. Rc!CleanSwapMovesWhatItFound <=> RP!CleanSwapMovesWhatItFound
  BY Zenon DEF Rc!CleanSwapMovesWhatItFound, RP!CleanSwapMovesWhatItFound
<1>5. \A r \in Run : Rc!StartSwap(r) <=> RP!StartSwap(r)
  BY Zenon DEF Rc!Cardinality, RP!Cardinality, Rc!StartSwap, RP!StartSwap, Rc!Active,
     RP!Active, Rc!Goto, RP!Goto, Rc!rcVars, RP!rcVars
<1>6. \A r \in Run : Rc!Step(r) <=> RP!Step(r)
  BY Zenon DEF Rc!Step, RP!Step, Rc!FindOld, RP!FindOld, Rc!FindNew, RP!FindNew,
     Rc!CreateNew, RP!CreateNew, Rc!ListEntitlements, RP!ListEntitlements, Rc!ListPackages,
     RP!ListPackages, Rc!AttachNew, RP!AttachNew, Rc!DetachOld, RP!DetachOld,
     Rc!StartDetach, RP!StartDetach, Rc!StartArchive, RP!StartArchive, Rc!ArchiveOld,
     RP!ArchiveOld, Rc!Abort, RP!Abort, Rc!Active, RP!Active, Rc!Goto, RP!Goto, Rc!Record,
     RP!Record, Rc!GiveUp, RP!GiveUp, Rc!Holding, RP!Holding, Rc!Holder, RP!Holder,
     Rc!rcVars, RP!rcVars
<1>7. \A r \in Run : Rc!Abort(r) <=> RP!Abort(r)
  BY Zenon DEF Rc!Abort, RP!Abort, Rc!Active, RP!Active, Rc!Goto, RP!Goto, Rc!rcVars,
     RP!rcVars
<1>8. Rc!Next <=> RP!Next
  BY <1>5, <1>6, <1>7, Zenon DEF Rc!Next, RP!Next
<1> QED
  BY <1>1, <1>2, <1>3, <1>4, <1>8 DEF Rc!vars, RP!vars

LEMMA CloneSettings ==
  Source \in [CP!Part -> SUBSET Key] /\ Scopes \subseteq SUBSET CP!ScopeName
  BY SameClone, SourceAssumption, ScopesAssumption

LEMMA RcSettings == RP!Setting
  BY SameRc, MaxActiveAssumption, HoldersDisjoint, OfferingAssumption, HeldAssumption
     DEF RP!Setting

LEMMA BesideSettings == CP!Services!Setting /\ CP!Services!CallSetting
  BY HoldersDisjoint, OfferingAssumption, HeldAssumption, MaxActiveAssumption
     DEF CP!Services!Setting, CP!Services!CallSetting, CP!Services!Holder, Rc!Holder

LEMMA CloneInitially == Clone!Init => CloneInv
  BY SameClone, CP!CloneInitially, CloneSettings, BesideSettings, MaxActiveAssumption,
     TerritoryAssumption
     DEF CloneInv

LEMMA CloneStepInv == CloneInv /\ [Clone!Next]_(Clone!vars) => CloneInv'
  BY SameCloneSteps, CP!CloneStepInv, CloneSettings, BesideSettings, MaxActiveAssumption,
     TerritoryAssumption DEF CloneInv

LEMMA CloneInvTypeOK == CloneInv => Clone!TypeOK
  BY SameClone DEF CloneInv, CP!CloneInv

LEMMA NextCloneTypeOK == CloneInv' => Clone!TypeOK'
  BY DEF CloneInv, CP!CloneInv, Clone!TypeOK, CP!TypeOK, Clone!Phase, CP!Phase,
     Clone!Part, CP!Part, Clone!ScopeName, CP!ScopeName

LEMMA CleanCloneFollows == CloneInv => Clone!CleanCloneIsComplete
  BY SameClone, CP!CleanCloneFollows, CloneSettings, BesideSettings, MaxActiveAssumption,
     TerritoryAssumption DEF CloneInv

LEMMA RcInitially == Rc!Init => RcInv
  BY SameRc, RP!RcInitially, RcSettings DEF RcInv

LEMMA RcStep == RcInv /\ [Rc!Next]_(Rc!vars) => RcInv'
  BY SameRc, RP!RcStep, RcSettings DEF RcInv

LEMMA RcInvTypeOK == RcInv => Rc!TypeOK
  BY SameRc DEF RcInv, RP!RcInv

LEMMA CleanSwapFollows == RcInv => Rc!CleanSwapMovesWhatItFound
  BY SameRc, RP!CleanSwapFollows, RcSettings DEF RcInv

LEMMA RcHandsOver ==
  /\ Rc!Init => Rc!Access!Init
  /\ RcInv /\ [Rc!Next]_(Rc!vars) => [Rc!Access!Next]_(Rc!Access!vars)
<1>1. /\ Rc!Access!Init <=> RP!Access!Init
      /\ [Rc!Access!Next]_(Rc!Access!vars) <=> [RP!Access!Next]_(RP!Access!vars)
  BY SameRc DEF Rc!Access!Init, RP!Access!Init, Rc!Access!Next, RP!Access!Next, Rc!Access!vars,
     RP!Access!vars, Rc!Access!Give, RP!Access!Give, Rc!Access!Take, RP!Access!Take
<1>2. Rc!Init => RP!Access!Init
  BY SameRc, RP!HandoverBegins, RcSettings
<1>3. RcInv /\ [Rc!Next]_(Rc!vars) => [RP!Access!Next]_(RP!Access!vars)
  BY SameRc, RP!HandoverSteps, RcSettings DEF RcInv
<1> QED
  BY <1>1, <1>2, <1>3

LEMMA StepFrame ==
  ASSUME CloneInv, NEW r \in Run, Clone!CloneStep(r) PROVE CP!Frame(r)
<1>1. CP!TypeOK /\ CP!FromSource /\ CP!CloneStep(r)
  BY SameCloneSteps DEF CloneInv, CP!CloneInv
<1> QED
  BY <1>1, CP!StepFrame, CloneSettings, BesideSettings, MaxActiveAssumption,
     TerritoryAssumption

\* Where the steps go on: never past a part that is in scope.
LEMMA NextPhases ==
  ASSUME NEW r \in Run
  PROVE  /\ Clone!AfterScreenshot(r) = "archive_source"
         /\ Clone!AfterOffers(r) \in {"shot_delete", "archive_source"}
         /\ IF "intro_offers" \in scope[r]
            THEN Clone!AfterPrices(r) = "probe_intro_offers"
            ELSE Clone!AfterPrices(r) = Clone!AfterOffers(r)
         /\ IF "price_schedule" \in scope[r]
            THEN Clone!AfterLocalizations(r) = "probe_price_schedule"
            ELSE Clone!AfterLocalizations(r) = Clone!AfterPrices(r)
         /\ IF "localizations" \in scope[r]
            THEN Clone!AfterAvailability(r) = "probe_localizations"
            ELSE Clone!AfterAvailability(r) = Clone!AfterLocalizations(r)
         /\ IF "group_availability" \in scope[r]
            THEN Clone!AfterRow(r) = "read_availability"
            ELSE Clone!AfterRow(r) = Clone!AfterAvailability(r)
  BY DEF Clone!AfterScreenshot, Clone!AfterOffers, Clone!AfterPrices,
     Clone!AfterLocalizations, Clone!AfterAvailability, Clone!AfterRow

-----------------------------------------------------------------------------
(* The two together, and the row that is committed. *)

\* A retry asks for the scope of a row, which a caller has asked for before.
ScopeAsked ==
  \A r \in Run : cpc[r] # "idle" => \E s \in Scopes : scope[r] = s \ Clone!Ignored

\* Before the run has found or created its target.
Searching == {"idle", "read_source", "list_group", "create"}
Ended == {"cloned", "committed", "aborted"}

\* How far the cloner is, seen from what the run knows.
ClonerKnows(r) ==
  /\ hasTarget[r] => target /\ cpc[r] \notin Searching
  /\ cpc[r] \notin Ended => archived[r] = "none"
  /\ cpc[r] \in {"cloned", "committed"} /\ hasTarget[r] => archived[r] # "none"
  /\ archived[r] = "done" => onSale["old"] = {}

\* RevenueCat's turn comes after the cloner's, and only with a target.
SwapAfterClone(r) == spc[r] # "idle" => cpc[r] \in Ended /\ SwapsRc(r)

\* A committed row says what the run has recorded, after the RevenueCat swap if there
\* was one to make.
RowSaysSo(r) ==
  /\ status[r] # "none" <=> cpc[r] = "committed"
  /\ status[r] # "none" =>
       /\ status[r] = Outcome(r) /\ warned[r] = Warns(r)
       /\ SwapsRc(r) => spc[r] = "done"

OpTypeOK ==
  /\ swapRc \in [Run -> BOOLEAN]
  /\ status \in [Run -> {"none", "failed", "partial", "done"}]
  /\ warned \in [Run -> BOOLEAN]

Together ==
  /\ OpTypeOK
  /\ ScopeAsked
  /\ \A r \in Run : ClonerKnows(r) /\ SwapAfterClone(r) /\ RowSaysSo(r)
  /\ RcFollowsApple

SwapInv == CloneInv /\ RcInv /\ Together

LEMMA SwapInitially == Init => SwapInv
<1> SUFFICES ASSUME Init PROVE SwapInv
  OBVIOUS
<1>1. CloneInv /\ RcInv
  BY CloneInitially, RcInitially DEF Init
<1>2. OpTypeOK /\ ScopeAsked
  BY DEF Init, Clone!Init, OpTypeOK, ScopeAsked
<1>3. \A r \in Run : ClonerKnows(r) /\ SwapAfterClone(r) /\ RowSaysSo(r)
  BY DEF Init, Clone!Init, Rc!Init, ClonerKnows, SwapAfterClone, RowSaysSo, Searching,
     Ended
<1>4. RcFollowsApple
  BY HeldAssumption DEF Init, Rc!Init, Rc!Holder, RcFollowsApple
<1> QED
  BY <1>1, <1>2, <1>3, <1>4 DEF SwapInv, Together

\* Every step is one the cloner knows: a retry begins with a scope of Scopes.
LEMMA CloneSide == SwapInv /\ [Next]_vars => [Clone!Next]_(Clone!vars)
<1> SUFFICES ASSUME SwapInv, [Next]_vars PROVE [Clone!Next]_(Clone!vars)
  OBVIOUS
<1>1. ASSUME NEW r \in Run, Request(r) \/ swap_subscription_product(r)
      PROVE  Clone!Next
  BY <1>1 DEF Request, swap_subscription_product, Clone!Next
<1>2. ASSUME NEW r \in Run, NEW q \in Run, Retry(r, q) PROVE Clone!Next
  <2>1. PICK s \in Scopes : scope[q] = s \ Clone!Ignored
    BY <1>2 DEF Retry, SwapInv, Together, ScopeAsked, RowSaysSo
  <2>2. scope[q] \ Clone!Ignored = s \ Clone!Ignored
    BY <2>1
  <2>3. Clone!BeginClone(r, s)
    BY <1>2, <2>2 DEF Retry, Clone!BeginClone
  <2> QED
    BY <2>3 DEF Clone!Next
<1>3. ASSUME NEW r \in Run, CloneStep(r) \/ Finish(r) \/ Die(r) PROVE Clone!Next
  BY <1>3 DEF CloneStep, Finish, Die, Clone!Next
<1>4. ASSUME NEW r \in Run, BeginSwap(r) \/ SwapStep(r) PROVE UNCHANGED Clone!vars
  BY <1>4 DEF BeginSwap, SwapStep, cloneVars, Clone!vars
<1>5. CASE UNCHANGED vars
  BY <1>5 DEF vars, cloneVars, Clone!vars
<1> QED
  BY <1>1, <1>2, <1>3, <1>4, <1>5 DEF Next, Serve

LEMMA RcSide == [Next]_vars => [Rc!Next]_(Rc!vars)
<1> SUFFICES ASSUME [Next]_vars PROVE [Rc!Next]_(Rc!vars)
  OBVIOUS
<1>1. ASSUME NEW r \in Run, BeginSwap(r) \/ SwapStep(r) PROVE Rc!Next
  BY <1>1 DEF BeginSwap, SwapStep, Rc!Next
<1>2. ASSUME NEW r \in Run, Die(r) PROVE [Rc!Next]_(Rc!vars)
  BY <1>2 DEF Die, Rc!Next, swapVars, Rc!vars
<1>3. ASSUME NEW r \in Run, \/ Request(r) \/ swap_subscription_product(r)
                            \/ CloneStep(r) \/ Finish(r)
                            \/ \E q \in Run : Retry(r, q)
      PROVE  UNCHANGED Rc!vars
  BY <1>3 DEF Request, swap_subscription_product, CloneStep, Finish, Retry, swapVars,
     Rc!vars
<1>4. CASE UNCHANGED vars
  BY <1>4 DEF vars, swapVars, Rc!vars
<1> QED
  BY <1>1, <1>2, <1>3, <1>4 DEF Next, Serve

-----------------------------------------------------------------------------
\* What a step of the cloner does to what the composition looks at.
ClonerMoves(r) ==
  /\ cpc[r] \notin {"idle", "cloned", "committed", "aborted"}
  /\ cpc'[r] \notin {"idle", "committed", "aborted"}
  /\ UNCHANGED <<kind, scope>>
  /\ target => target'
  /\ onSale["old"] = {} => onSale'["old"] = {}
  /\ \A q \in Run \ {r} : /\ cpc'[q] = cpc[q] /\ cerrs'[q] = cerrs[q]
                          /\ hasTarget'[q] = hasTarget[q] /\ archived'[q] = archived[q]
  /\ ClonerKnows(r)'

LEMMA ClonerStep ==
  ASSUME CloneInv, NEW r \in Run, ClonerKnows(r), Clone!CloneStep(r)
  PROVE  ClonerMoves(r)
<1> USE DEF Clone!TypeOK, ClonerKnows, Searching, Ended, Clone!Goto, Clone!Fail,
            Clone!Record, Clone!appleVars, Clone!Opened, Clone!Closed
<1>0. Clone!TypeOK
  BY CloneInvTypeOK
<1>1. /\ CP!Frame(r)
      /\ Clone!TypeOK'
  <2>1. [Clone!Next]_(Clone!vars)
    BY DEF Clone!Next
  <2>2. CloneInv'
    BY <2>1, CloneStepInv
  <2> QED
    BY <2>2, StepFrame, NextCloneTypeOK
<1>2. CASE Clone!ReadSource(r)
  BY <1>0, <1>1, <1>2 DEF Clone!ReadSource, ClonerMoves, CP!Frame
<1>3. CASE Clone!ListGroup(r)
  BY <1>0, <1>1, <1>3 DEF Clone!ListGroup, ClonerMoves, CP!Frame
<1>4. CASE Clone!CreateTarget(r)
  BY ZenonT(120), <1>0, <1>1, <1>4 DEF Clone!CreateTarget, ClonerMoves, CP!Frame
<1>5. CASE Clone!ArchiveSource(r)
  BY <1>0, <1>1, <1>5 DEF Clone!ArchiveSource, ClonerMoves, CP!Frame
<1>6. ASSUME /\ UNCHANGED <<target, hasTarget, archived>>
             /\ onSale'["old"] = onSale["old"]
             /\ cpc[r] \notin Searching \cup Ended
             /\ cpc'[r] \notin Searching \cup Ended
      PROVE  ClonerMoves(r)
  BY <1>0, <1>1, <1>6 DEF ClonerMoves, CP!Frame
<1>7. CASE Clone!LocalRow(r)
  BY <1>0, <1>6, <1>7, NextPhases DEF Clone!LocalRow
<1>8. CASE Clone!ReadAvailability(r)
  BY <1>0, <1>6, <1>8, NextPhases DEF Clone!ReadAvailability
<1>9. CASE Clone!PostAvailability(r)
  BY <1>0, <1>6, <1>9, NextPhases DEF Clone!PostAvailability
<1>10. ASSUME NEW part \in Clone!Part, Clone!Probe(r, part) PROVE ClonerMoves(r)
  BY <1>0, <1>6, <1>10, NextPhases DEF Clone!Probe, Clone!ProbeOf, Clone!AfterPart,
     Clone!Part
<1>11. ASSUME NEW part \in Clone!Part, Clone!EndPart(r, part) PROVE ClonerMoves(r)
  BY <1>0, <1>6, <1>11, NextPhases DEF Clone!EndPart, Clone!AfterPart, Clone!Part
<1>12. ASSUME NEW part \in Clone!Part, NEW k \in Key, Clone!CopyKey(r, part, k)
       PROVE  ClonerMoves(r)
  BY <1>0, <1>6, <1>12 DEF Clone!CopyKey, Clone!Part
<1>13. CASE Clone!SetPrices(r)
  BY <1>0, <1>6, <1>13 DEF Clone!SetPrices
<1>14. CASE Clone!DeleteShot(r)
  BY <1>0, <1>6, <1>14, NextPhases DEF Clone!DeleteShot
<1>15. CASE Clone!UploadShot(r)
  BY <1>0, <1>6, <1>15, NextPhases DEF Clone!UploadShot
<1> QED
  BY <1>2, <1>3, <1>4, <1>5, <1>7, <1>8, <1>9, <1>10, <1>11, <1>12, <1>13, <1>14, <1>15
     DEF Clone!CloneStep, Clone!SharedStep, Clone!CopyLocalization, Clone!CopyPrice,
         Clone!CopyOffer, Clone!Part

\* What a step of the RevenueCat swap does.
LEMMA RcMoves ==
  ASSUME RcInv, NEW r \in Run, Rc!Step(r)
  PROVE  /\ spc[r] \notin {"idle", "done", "aborted"}
         /\ \A q \in Run \ {r} : spc'[q] = spc[q] /\ serrs'[q] = serrs[q]
  BY RcInvTypeOK DEF Rc!TypeOK, Rc!Step, Rc!FindOld, Rc!FindNew, Rc!CreateNew,
     Rc!ListEntitlements, Rc!ListPackages, Rc!AttachNew, Rc!DetachOld, Rc!StartDetach,
     Rc!StartArchive, Rc!ArchiveOld, Rc!Goto, Rc!GiveUp, Rc!Record

-----------------------------------------------------------------------------
\* One lemma for each action.

\* The parts of the composition's invariant about a run whose own state and whose
\* product stay as they are.
LEMMA OthersKeep ==
  ASSUME NEW q \in Run, ClonerKnows(q), SwapAfterClone(q), RowSaysSo(q),
         kind' = kind, target => target', onSale["old"] = {} => onSale'["old"] = {},
         cpc'[q] = cpc[q], cerrs'[q] = cerrs[q], hasTarget'[q] = hasTarget[q],
         archived'[q] = archived[q], spc'[q] = spc[q], serrs'[q] = serrs[q],
         swapRc'[q] = swapRc[q], status'[q] = status[q], warned'[q] = warned[q]
  PROVE  ClonerKnows(q)' /\ SwapAfterClone(q)' /\ RowSaysSo(q)'
  BY DEF ClonerKnows, SwapAfterClone, RowSaysSo, SwapsRc, Outcome, Warns

LEMMA BeginKeeps ==
  ASSUME SwapInv, NEW r \in Run, NEW s, Clone!BeginClone(r, s),
         NEW b \in BOOLEAN, swapRc' = [swapRc EXCEPT ![r] = b],
         UNCHANGED <<swapVars, status, warned>>,
         NEW x \in Scopes, s \ Clone!Ignored = x \ Clone!Ignored
  PROVE  Together'
<1> USE DEF SwapInv, Together, swapVars, Clone!appleVars, Clone!Goto
<1>0. Clone!TypeOK /\ OpTypeOK
  BY CloneInvTypeOK
<1>1. /\ cpc[r] = "idle" /\ cpc'[r] = "read_source"
      /\ scope'[r] = s \ Clone!Ignored
      /\ \A q \in Run \ {r} : /\ cpc'[q] = cpc[q] /\ scope'[q] = scope[q]
                              /\ swapRc'[q] = swapRc[q]
      /\ UNCHANGED <<kind, target, onSale, hasTarget, archived, cerrs, product, att, spc,
                     serrs, status, warned>>
  BY <1>0 DEF Clone!BeginClone, Clone!TypeOK, OpTypeOK
<1>2. OpTypeOK'
  BY <1>0 DEF OpTypeOK
<1>3. ScopeAsked'
  BY <1>1 DEF ScopeAsked, Clone!Ignored
<1>4. ASSUME NEW q \in Run PROVE ClonerKnows(q)' /\ SwapAfterClone(q)' /\ RowSaysSo(q)'
  <2>1. CASE q = r
    BY <1>1, <2>1 DEF ClonerKnows, SwapAfterClone, RowSaysSo, Searching, Ended
  <2>2. CASE q # r
    BY <1>1, <2>2, OthersKeep
  <2> QED
    BY <2>1, <2>2
<1>5. RcFollowsApple'
  BY <1>1 DEF RcFollowsApple
<1> QED
  BY <1>2, <1>3, <1>4, <1>5

LEMMA CloneStepKeeps ==
  ASSUME SwapInv, NEW r \in Run, CloneStep(r) PROVE Together'
<1> USE DEF SwapInv, Together
<1>1. ClonerMoves(r)
  BY ClonerStep DEF CloneStep
<1>2. UNCHANGED <<product, att, found, spc, serrs, swapRc, status, warned>>
  BY DEF CloneStep, swapVars, opVars
<1>3. OpTypeOK'
  BY <1>2 DEF OpTypeOK
<1>4. ScopeAsked'
  BY <1>1 DEF ScopeAsked, ClonerMoves, Clone!Ignored
<1>5. ASSUME NEW q \in Run PROVE ClonerKnows(q)' /\ SwapAfterClone(q)' /\ RowSaysSo(q)'
  <2>1. CASE q = r
    BY <1>1, <1>2, <2>1 DEF ClonerMoves, SwapAfterClone, RowSaysSo, Ended
  <2>2. CASE q # r
    BY <1>1, <1>2, <2>2, OthersKeep DEF ClonerMoves
  <2> QED
    BY <2>1, <2>2
<1>6. RcFollowsApple'
  BY <1>1, <1>2 DEF RcFollowsApple, ClonerMoves
<1> QED
  BY <1>3, <1>4, <1>5, <1>6

\* RevenueCat is only changed by a run that has a target.
LEMMA SwapKeeps ==
  ASSUME SwapInv, NEW r \in Run, BeginSwap(r) \/ SwapStep(r) PROVE Together'
<1> USE DEF SwapInv, Together
<1>0. Rc!TypeOK
  BY RcInvTypeOK
<1>1. UNCHANGED <<kind, target, onSale, hasTarget, archived, cpc, scope, cerrs,
                  swapRc, status, warned>>
  BY DEF BeginSwap, SwapStep, cloneVars, opVars
<1>2. /\ hasTarget[r] /\ SwapsRc(r) /\ cpc[r] \in Ended
      /\ cpc[r] = "committed" => spc[r] = "done"
  <2>1. CASE BeginSwap(r)
    BY <2>1 DEF BeginSwap, SwapsRc, Ended
  <2>2. CASE SwapStep(r)
    BY <2>2, RcMoves DEF SwapStep, SwapAfterClone, RowSaysSo, SwapsRc
  <2> QED
    BY <2>1, <2>2
<1>3. spc[r] # "done"
  BY RcMoves DEF BeginSwap, SwapStep, Rc!StartSwap
<1>4. \A q \in Run \ {r} : spc'[q] = spc[q] /\ serrs'[q] = serrs[q]
  BY <1>0, RcMoves DEF BeginSwap, SwapStep, Rc!StartSwap, Rc!TypeOK, Rc!Goto
<1>5. OpTypeOK' /\ ScopeAsked'
  BY <1>1 DEF OpTypeOK, ScopeAsked, Clone!Ignored
<1>6. ASSUME NEW q \in Run PROVE ClonerKnows(q)' /\ SwapAfterClone(q)' /\ RowSaysSo(q)'
  <2>1. CASE q = r
    BY <1>1, <1>2, <1>3, <2>1 DEF ClonerKnows, SwapAfterClone, SwapsRc, RowSaysSo
  <2>2. CASE q # r
    BY <1>1, <1>4, <2>2, OthersKeep
  <2> QED
    BY <2>1, <2>2
<1>7. RcFollowsApple'
  BY <1>1, <1>2 DEF RcFollowsApple, ClonerKnows
<1> QED
  BY <1>5, <1>6, <1>7

LEMMA FinishKeeps ==
  ASSUME SwapInv, NEW r \in Run, Finish(r) PROVE Together'
<1> USE DEF SwapInv, Together
<1>0. Clone!TypeOK /\ OpTypeOK
  BY CloneInvTypeOK
<1>1. /\ cpc[r] = "cloned" /\ cpc'[r] = "committed"
      /\ \A q \in Run \ {r} : cpc'[q] = cpc[q]
      /\ UNCHANGED <<kind, target, onSale, hasTarget, archived, scope, cerrs>>
  BY <1>0 DEF Finish, Clone!Commit, Clone!Goto, Clone!TypeOK, Clone!appleVars
<1>2. UNCHANGED <<product, att, spc, serrs, swapRc>>
  BY DEF Finish, swapVars
<1>3. Outcome(r) \in {"failed", "partial", "done"} /\ Warns(r) \in BOOLEAN
  BY DEF Outcome, Warns
<1>4. /\ status'[r] = Outcome(r) /\ warned'[r] = Warns(r)
      /\ \A q \in Run \ {r} : status'[q] = status[q] /\ warned'[q] = warned[q]
  BY <1>0 DEF Finish, OpTypeOK
<1>5. OpTypeOK'
  BY <1>0, <1>2, <1>3 DEF Finish, OpTypeOK
<1>6. ScopeAsked'
  BY <1>1 DEF ScopeAsked, Clone!Ignored
<1>7. ASSUME NEW q \in Run PROVE ClonerKnows(q)' /\ SwapAfterClone(q)' /\ RowSaysSo(q)'
  <2>1. CASE q = r
    <3>1. Outcome(r)' = Outcome(r) /\ Warns(r)' = Warns(r) /\ SwapsRc(r)' = SwapsRc(r)
      BY <1>1, <1>2 DEF Outcome, Warns, SwapsRc
    <3>2. SwapsRc(r) => spc[r] = "done"
      BY DEF Finish
    <3>3. ClonerKnows(r)'
      BY <1>1 DEF ClonerKnows, Searching, Ended
    <3>4. SwapAfterClone(r)'
      BY <1>1, <1>2, <3>1 DEF SwapAfterClone, Ended
    <3>5. RowSaysSo(r)'
      <4>1. status'[r] # "none" /\ cpc'[r] = "committed"
        BY <1>1, <1>3, <1>4
      <4>2. status'[r] = Outcome(r)' /\ warned'[r] = Warns(r)'
        BY <1>4, <3>1
      <4>3. SwapsRc(r)' => spc'[r] = "done"
        BY <1>2, <3>1, <3>2
      <4> QED
        BY <4>1, <4>2, <4>3, Zenon DEF RowSaysSo
    <3> QED
      BY <2>1, <3>3, <3>4, <3>5
  <2>2. CASE q # r
    BY <1>1, <1>2, <1>4, <2>2, OthersKeep
  <2> QED
    BY <2>1, <2>2
<1>8. RcFollowsApple'
  BY <1>1, <1>2 DEF RcFollowsApple
<1> QED
  BY <1>5, <1>6, <1>7, <1>8

LEMMA DieKeeps ==
  ASSUME SwapInv, NEW r \in Run, Die(r) PROVE Together'
<1> USE DEF SwapInv, Together
<1>0. Clone!TypeOK /\ Rc!TypeOK
  BY CloneInvTypeOK, RcInvTypeOK
<1>1. /\ cpc[r] \notin {"idle", "committed", "aborted"} /\ cpc'[r] = "aborted"
      /\ \A q \in Run \ {r} : cpc'[q] = cpc[q] /\ cerrs'[q] = cerrs[q]
      /\ UNCHANGED <<kind, target, onSale, hasTarget, archived, scope>>
  BY <1>0 DEF Die, Clone!Abort, Clone!Active, Clone!Goto, Clone!TypeOK, Clone!appleVars
<1>2. /\ spc[r] = "idle" => spc'[r] = "idle"
      /\ \A q \in Run \ {r} : spc'[q] = spc[q] /\ serrs'[q] = serrs[q]
      /\ UNCHANGED <<product, att>>
  BY <1>0 DEF Die, Rc!Abort, Rc!Active, Rc!Goto, Rc!TypeOK, Rc!rcVars, swapVars
<1>3. UNCHANGED <<swapRc, status, warned>>
  BY DEF Die, opVars
<1>4. OpTypeOK' /\ ScopeAsked'
  BY <1>1, <1>3 DEF OpTypeOK, ScopeAsked, Clone!Ignored
<1>5. ASSUME NEW q \in Run PROVE ClonerKnows(q)' /\ SwapAfterClone(q)' /\ RowSaysSo(q)'
  <2>1. CASE q = r
    BY <1>1, <1>2, <1>3, <2>1
       DEF ClonerKnows, SwapAfterClone, SwapsRc, RowSaysSo, Searching, Ended
  <2>2. CASE q # r
    BY <1>1, <1>2, <1>3, <2>2, OthersKeep
  <2> QED
    BY <2>1, <2>2
<1>6. RcFollowsApple'
  BY <1>1, <1>2 DEF RcFollowsApple
<1> QED
  BY <1>4, <1>5, <1>6

LEMMA SwapInvStep == SwapInv /\ [Next]_vars => SwapInv'
<1> SUFFICES ASSUME SwapInv, [Next]_vars PROVE SwapInv'
  OBVIOUS
<1>1. CloneInv'
  BY CloneSide, CloneStepInv DEF SwapInv
<1>2. RcInv'
  BY RcSide, RcStep DEF SwapInv
<1>3. ASSUME NEW r \in Run, Request(r) PROVE Together'
  BY <1>3, BeginKeeps DEF Request
<1>4. ASSUME NEW r \in Run, swap_subscription_product(r) PROVE Together'
  BY <1>4, BeginKeeps DEF swap_subscription_product
<1>5. ASSUME NEW r \in Run, NEW q \in Run, Retry(r, q) PROVE Together'
  <2>1. PICK s \in Scopes : scope[q] = s \ Clone!Ignored
    BY <1>5 DEF Retry, SwapInv, Together, ScopeAsked, RowSaysSo
  <2>2. scope[q] \ Clone!Ignored = s \ Clone!Ignored
    BY <2>1
  <2> QED
    BY <1>5, <2>2, BeginKeeps DEF Retry
<1>6. ASSUME NEW r \in Run, Serve(r) PROVE Together'
  BY <1>6, CloneStepKeeps, SwapKeeps, FinishKeeps DEF Serve
<1>7. ASSUME NEW r \in Run, Die(r) PROVE Together'
  BY <1>7, DieKeeps
<1>8. CASE UNCHANGED vars
  <2>1. ASSUME NEW q \in Run PROVE ClonerKnows(q)' /\ SwapAfterClone(q)' /\ RowSaysSo(q)'
    <3>1. ClonerKnows(q) /\ SwapAfterClone(q) /\ RowSaysSo(q)
      BY DEF SwapInv, Together
    <3> QED
      BY <1>8, <3>1, OthersKeep DEF vars, cloneVars, swapVars, opVars
  <2>2. OpTypeOK' /\ ScopeAsked' /\ RcFollowsApple'
    BY <1>8 DEF SwapInv, Together, OpTypeOK, ScopeAsked, RcFollowsApple, Clone!Ignored,
       vars, cloneVars, swapVars, opVars
  <2>3. (\A q \in Run : ClonerKnows(q) /\ SwapAfterClone(q) /\ RowSaysSo(q))'
    BY <2>1
  <2> QED
    BY <1>1, <1>2, <2>2, <2>3 DEF Together, SwapInv
<1> QED
  BY <1>1, <1>2, <1>3, <1>4, <1>5, <1>6, <1>7, <1>8 DEF SwapInv, Next

\* SwapInv ties the request at work to the clone and the swap it runs (clone.py, the two
\* calls and finalize_swap).
THEOREM SwapInductive == Spec => []SwapInv
  BY SwapInitially, SwapInvStep, PTL DEF Spec

-----------------------------------------------------------------------------
\* A product swap as a whole is a run of the cloner and a run of the RevenueCat swap:
\* a retry, the order of the two and the commit of the row add nothing to either.
THEOREM SwapIsClone == Spec => Clone!Spec
<1>1. Init => Clone!Init
  BY DEF Init
<1> QED
  BY <1>1, CloneSide, SwapInductive, PTL DEF Spec, Clone!Spec

\* The same for the RevenueCat half: it starts only as finalize_swap starts it.
THEOREM SwapIsRcSwap == Spec => Rc!Spec
<1>1. Init => Rc!Init
  BY DEF Init
<1> QED
  BY <1>1, RcSide, PTL DEF Spec, Rc!Spec

\* In the whole, too, subscribers keep their access: a request and its retries take the
\* old product from an entitlement or package only where the new one is, or with a
\* failure on record (finalize_swap runs the same swap, and only where the clone is).
THEOREM WholeHandsOver == Spec => Rc!HandsOver
<1>1. Rc!Init => RcInv /\ Rc!Access!Init
  BY RcInitially, RcHandsOver
<1>2. RcInv /\ [Rc!Next]_(Rc!vars) => RcInv' /\ [Rc!Access!Next]_(Rc!Access!vars)
  BY RcStep, RcHandsOver
<1> QED
  BY <1>1, <1>2, SwapIsRcSwap, PTL DEF Rc!Spec, Rc!HandsOver, Rc!Access!Spec

\* RevenueCat never offers a product that App Store Connect does not have: the RevenueCat
\* swap of finalize_swap starts only when the cloner has returned a target.
THEOREM RcAfterApple == Spec => []RcFollowsApple
<1>1. SwapInv => RcFollowsApple
  BY DEF SwapInv, Together
<1> QED
  BY <1>1, SwapInductive, PTL

\* The committed row, its warnings and the answer agree with what Apple and RevenueCat
\* hold, whatever overlapping requests, retries, lost answers and crashes went before.
THEOREM RowIsTrue == Spec => []CommittedRowIsTrue
<1>1. SwapInv => CommittedRowIsTrue
  <2> SUFFICES ASSUME SwapInv PROVE CommittedRowIsTrue
    OBVIOUS
  <2>1. Clone!CleanCloneIsComplete /\ Rc!CleanSwapMovesWhatItFound
    BY CleanCloneFollows, CleanSwapFollows DEF SwapInv
  <2>2. ASSUME NEW r \in Run, status[r] # "none", hasTarget[r], ~cerrs[r]
        PROVE  \A part \in Clone!Part \cap scope[r] : Source[part] \subseteq copied[part]
    BY <2>1, <2>2 DEF SwapInv, Together, RowSaysSo, Clone!CleanCloneIsComplete
  <2>3. ASSUME NEW r \in Run, status[r] # "none", SwapsRc(r), ~serrs[r]
        PROVE  \A h \in found[r] : att[h] = {"new"}
    BY <2>1, <2>3 DEF SwapInv, Together, RowSaysSo, Rc!CleanSwapMovesWhatItFound
  <2>4. DoneMeansBothSidesClean
    <3> SUFFICES ASSUME NEW r \in Run, status[r] = "done"
        PROVE  /\ \A part \in Clone!Part \cap scope[r] : Source[part] \subseteq copied[part]
               /\ SwapsRc(r) => \A h \in found[r] : att[h] = {"new"}
      BY DEF DoneMeansBothSidesClean
    <3>1. hasTarget[r] /\ ~cerrs[r] /\ ~serrs[r]
      BY DEF SwapInv, Together, RowSaysSo, Outcome
    <3> QED
      BY <2>2, <2>3, <3>1
  <2>5. OldOnSaleIsWarned
    <3> SUFFICES ASSUME NEW r \in Run, status[r] \in {"partial", "done"}, onSale["old"] # {}
        PROVE  warned[r]
      BY DEF OldOnSaleIsWarned
    <3>1. hasTarget[r] /\ warned[r] = Warns(r) /\ cpc[r] = "committed"
      BY DEF SwapInv, Together, RowSaysSo, Outcome
    <3>2. archived[r] \notin {"none", "done"}
      BY <3>1 DEF SwapInv, Together, ClonerKnows
    <3>3. archived[r] \in {"failed", "skipped"}
      BY <3>2, CloneInvTypeOK DEF SwapInv, Clone!TypeOK
    <3> QED
      BY <3>1, <3>3 DEF Warns
  <2>6. NoChangeIsTrue
    <3> SUFFICES ASSUME NEW r \in Run, status[r] # "none", Checklist(r) = "no_change"
        PROVE  /\ target
               /\ \A part \in Clone!Part \cap scope[r] : Source[part] \subseteq copied[part]
               /\ onSale["old"] # {} => warned[r]
               /\ swapRc[r] => \A h \in found[r] : att[h] = {"new"}
      BY DEF NoChangeIsTrue
    <3>1. Connected /\ ~serrs[r] /\ ~cerrs[r] /\ hasTarget[r]
      BY DEF Checklist, RcSwapOk
    <3>2. status[r] = "done"
      BY <3>1 DEF SwapInv, Together, RowSaysSo, Outcome
    <3>3. target
      BY <3>1 DEF SwapInv, Together, ClonerKnows
    <3> QED
      BY <2>2, <2>3, <2>5, <3>1, <3>2, <3>3 DEF OldOnSaleIsWarned, SwapsRc
  <2> QED
    BY <2>4, <2>5, <2>6 DEF CommittedRowIsTrue
<1> QED
  BY <1>1, SwapInductive, PTL
=============================================================================
