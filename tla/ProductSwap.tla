---------------------------- MODULE ProductSwap -----------------------------
(***************************************************************************)
(* A product swap end to end: the product cloner (SubClone), then the      *)
(* RevenueCat swap (RcSwap) inside finalize_swap, then the commit of the   *)
(* CloneOperation row with the status and warnings the operator reads.     *)
(* Callers are the REST clone routes, the retry route and the MCP tools    *)
(* swap_subscription_product and swap_iap, which run the same steps and    *)
(* answer with a checklist of what the iOS app must change.                *)
(***************************************************************************)
EXTENDS Naturals, FiniteSets

CONSTANTS
  Run, MaxActive,
  Territory, Key, Source, Scopes,
  Entitlement, Package, Offering, OfferingOf, Held,
  Connected      \* whether the app has a RevenueCat credential

VARIABLES
  kind, target, onSale, copied, shot, rows,
  cpc, scope, ctodo, read, mine, hasTarget, cerrs, archived,
  product, att, spc, found, stodo, serrs,
  swapRc,        \* the request's swap_revenuecat
  status,        \* status of the committed operation row; "none" before
  warned         \* whether the row's error log warns of the old product's sale

cloneVars == <<kind, target, onSale, copied, shot, rows,
               cpc, scope, ctodo, read, mine, hasTarget, cerrs, archived>>
swapVars  == <<product, att, spc, found, stodo, serrs>>
opVars    == <<swapRc, status, warned>>
vars      == <<cloneVars, swapVars, opVars>>

Clone == INSTANCE SubClone WITH pc <- cpc, todo <- ctodo, errs <- cerrs
Rc    == INSTANCE RcSwap WITH pc <- spc, todo <- stodo, errs <- serrs

ASSUME MaxActiveAssumption == MaxActive \in Nat
ASSUME TerritoryAssumption == Territory # {}
ASSUME SourceAssumption == Source \in [Clone!Part -> SUBSET Key]
ASSUME ScopesAssumption == Scopes \subseteq SUBSET Clone!ScopeName
ASSUME HoldersDisjoint == Entitlement \cap Package = {}
ASSUME OfferingAssumption == OfferingOf \in [Package -> Offering]
ASSUME HeldAssumption == Held \subseteq Rc!Holder

TypeOK ==
  /\ Clone!TypeOK
  /\ Rc!TypeOK
  /\ swapRc \in [Run -> BOOLEAN]
  /\ status \in [Run -> {"none", "failed", "partial", "done"}]
  /\ warned \in [Run -> BOOLEAN]

Init ==
  /\ Clone!Init
  /\ Rc!Init
  /\ swapRc = [r \in Run |-> FALSE]
  /\ status = [r \in Run |-> "none"]
  /\ warned = [r \in Run |-> FALSE]

\* clone_subscription and clone_iap.
Request(r) ==
  /\ \E s \in Scopes : Clone!BeginClone(r, s)
  /\ \E b \in BOOLEAN : swapRc' = [swapRc EXCEPT ![r] = b]
  /\ UNCHANGED <<swapVars, status, warned>>

\* swap_subscription_product, and swap_iap alike: all of the product is copied, the
\* old one archived or not.
swap_subscription_product(r) ==
  /\ \E s \in Scopes : s \cup {"auto_archive"} = Clone!ScopeName /\ Clone!BeginClone(r, s)
  /\ \E b \in BOOLEAN : swapRc' = [swapRc EXCEPT ![r] = b]
  /\ UNCHANGED <<swapVars, status, warned>>

\* retry_clone_operation: the scope of a committed row, and the RevenueCat
\* swap whether or not the original request had asked for it.
Retry(r, q) ==
  /\ status[q] # "none"
  /\ Clone!BeginClone(r, scope[q])
  /\ swapRc' = [swapRc EXCEPT ![r] = TRUE]
  /\ UNCHANGED <<swapVars, status, warned>>

CloneStep(r) == Clone!CloneStep(r) /\ UNCHANGED <<swapVars, opVars>>

SwapsRc_Anyway(r) == swapRc[r] /\ Connected
SwapsRc(r) == swapRc[r] /\ hasTarget[r] /\ Connected

BeginSwap(r) ==
  /\ cpc[r] = "cloned"
  /\ SwapsRc(r)
  /\ Rc!StartSwap(r)
  /\ UNCHANGED <<cloneVars, opVars>>

SwapStep(r) == Rc!Step(r) /\ UNCHANGED <<cloneVars, opVars>>

Outcome_IgnoresRc(r) ==
  IF ~hasTarget[r] THEN "failed" ELSE IF cerrs[r] THEN "partial" ELSE "done"

Outcome(r) ==
  IF ~hasTarget[r] THEN "failed"
  ELSE IF cerrs[r] \/ serrs[r] THEN "partial" ELSE "done"

\* _swap_warnings.  An early return leaves the archive status None.
Warns(r) ==
  \/ archived[r] \in {"failed", "skipped"}
  \/ kind = "iap" /\ archived[r] = "none"

RcSwapOk_IgnoresAsc(r) == Connected /\ ~serrs[r] /\ hasTarget[r]
\* rc_swap_ok: also TRUE when no swap was asked for.
RcSwapOk(r) == Connected /\ ~serrs[r] /\ ~cerrs[r] /\ hasTarget[r]

\* _ios_checklist: change nothing yet; mend RevenueCat first; RevenueCat delivers
\* the new product; ship the new productId.
Checklist(r) ==
  IF ~hasTarget[r] THEN "hold"
  ELSE IF ~Connected THEN "new_id"
  ELSE IF RcSwapOk(r) THEN "no_change" ELSE "reconcile"

\* The end of finalize_swap and the commit of the session; a tool answers with
\* the checklist, whose terms do not change any more.
Finish(r) ==
  /\ IF SwapsRc(r) THEN spc[r] = "done" ELSE spc[r] = "idle"
  /\ Clone!Commit(r)
  /\ status' = [status EXCEPT ![r] = Outcome(r)]
  /\ warned' = [warned EXCEPT ![r] = Warns(r)]
  /\ UNCHANGED <<swapVars, swapRc>>

Die(r) ==
  /\ Clone!Abort(r)
  /\ IF Rc!Active(r) THEN Rc!Abort(r) ELSE UNCHANGED swapVars
  /\ UNCHANGED opVars

\* What the server does on its own once a request is in.
Serve(r) == CloneStep(r) \/ BeginSwap(r) \/ SwapStep(r) \/ Finish(r)

Next == \E r \in Run :
  \/ Request(r) \/ swap_subscription_product(r) \/ Serve(r) \/ Die(r)
  \/ \E q \in Run : Retry(r, q)

Spec == Init /\ [][Next]_vars

\* Every call to Apple and RevenueCat returns or raises, so the handler of an
\* accepted request keeps going; callers owe nothing.
FairSpec == Spec /\ \A r \in Run : WF_vars(Serve(r))

-----------------------------------------------------------------------------
(* Properties *)

\* RevenueCat never offers a product App Store Connect does not have.
RcFollowsApple ==
  (product["new"] # "none" \/ \E h \in Held : "new" \in att[h]) => target

\* A row with status "done" stands for a complete copy at Apple and, when the
\* request swapped RevenueCat, for holders that all moved to the new product.
DoneMeansBothSidesClean ==
  \A r \in Run : status[r] = "done" =>
    /\ \A part \in Clone!Part \cap scope[r] : Source[part] \subseteq copied[part]
    /\ SwapsRc(r) => \A h \in found[r] : att[h] = {"new"}

\* The operator is warned whenever the swap produced a target and the old
\* product is still on sale (A-I2).
OldOnSaleIsWarned ==
  \A r \in Run : status[r] \in {"partial", "done"} /\ onSale["old"] # {}
    => warned[r]

\* "No iOS code change required" is said only of a complete copy, with a warning
\* while the old product is on sale, and that RevenueCat delivers in its place if
\* the request swapped it (A-I1).
NoChangeIsTrue ==
  \A r \in Run : status[r] # "none" /\ Checklist(r) = "no_change" =>
    /\ target /\ \A part \in Clone!Part \cap scope[r] : Source[part] \subseteq copied[part]
    /\ onSale["old"] # {} => warned[r]
    /\ swapRc[r] => \A h \in found[r] : att[h] = {"new"}

\* What a committed row and the answer say is so: status, warnings and checklist
\* agree with what both services hold.
CommittedRowIsTrue == DoneMeansBothSidesClean /\ OldOnSaleIsWarned /\ NoChangeIsTrue

\* An accepted request ends: its row is committed or the request has failed.
EveryRequestEnds ==
  \A r \in Run : cpc[r] = "read_source" ~> cpc[r] \in {"committed", "aborted"}
=============================================================================
