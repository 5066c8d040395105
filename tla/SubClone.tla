------------------------------ MODULE SubClone ------------------------------
(***************************************************************************)
(* SubscriptionCloner.clone and IAPCloner.clone (services/asc/clone.py):   *)
(* recreate a product under a new productId, copy what it carries, take    *)
(* the old one off sale if it is a subscription.  A run is one call of     *)
(* clone(); a retry of an operation is another run for the same products.  *)
(*                                                                         *)
(* App Store Connect is the environment.  A write it answers with an error *)
(* may still have landed (ASCNetworkError), and a step that fails is       *)
(* recorded and stepped over.  The local subscription row is flushed in    *)
(* the run and becomes visible when the request commits.                   *)
(***************************************************************************)
EXTENDS Naturals, FiniteSets

CONSTANTS
  Run,        \* the calls of clone() for this pair of products
  MaxActive,  \* how many of them may overlap
  Territory,  \* where the source is on sale at first
  Key,        \* locales and territories, the keys of the copied parts
  Source,     \* what each part of the source holds: [Part -> SUBSET Key]
  Scopes      \* the scopes callers ask for

Part == {"localizations", "price_schedule", "intro_offers"}
ScopeName == Part \cup {"group_availability", "screenshot", "auto_archive"}

ASSUME MaxActiveAssumption == MaxActive \in Nat
ASSUME TerritoryAssumption == Territory # {}
ASSUME SourceAssumption == Source \in [Part -> SUBSET Key]
ASSUME ScopesAssumption == Scopes \subseteq SUBSET ScopeName

VARIABLES
  kind,      \* of the two products, "subscription" or "iap"
  target,    \* whether the target product exists at Apple
  onSale,    \* the territories the source ("old") and target ("new") are on sale in
  copied,    \* what each part of the target holds
  shot,      \* the target's review screenshot
  rows,      \* committed local rows that carry the target's Apple id
  pc,
  scope,
  todo,      \* keys of the current part the run has still to create
  read,      \* source territories the run read for step 3
  mine,      \* whether the run has flushed a local row
  hasTarget, \* whether the run has a target_asc_id
  errs,      \* whether the run's error list is non-empty
  archived   \* the run's archive_status; "none" before step 8

appleVars == <<kind, target, onSale, copied, shot>>
runVars   == <<pc, scope, todo, read, mine, hasTarget, errs, archived>>
vars      == <<kind, target, onSale, copied, shot, rows,
               pc, scope, todo, read, mine, hasTarget, errs, archived>>

Phase == {"idle", "read_source", "list_group", "create", "local_row",
          "read_availability", "post_availability",
          "probe_localizations", "localizations",
          "probe_price_schedule", "price_schedule",
          "probe_intro_offers", "intro_offers",
          "shot_delete", "shot_upload", "archive_source",
          "cloned", "committed", "aborted"}

Active(r) == pc[r] \notin {"idle", "committed", "aborted"}

TypeOK ==
  /\ kind \in {"subscription", "iap"}
  /\ target \in BOOLEAN
  /\ onSale \in [{"old", "new"} -> SUBSET Territory]
  /\ copied \in [Part -> SUBSET Key]
  /\ shot \in {"none", "awaiting", "complete"}
  /\ rows \in Nat
  /\ pc \in [Run -> Phase]
  /\ scope \in [Run -> SUBSET ScopeName]
  /\ todo \in [Run -> SUBSET Key]
  /\ read \in [Run -> SUBSET Territory]
  /\ mine \in [Run -> BOOLEAN]
  /\ hasTarget \in [Run -> BOOLEAN]
  /\ errs \in [Run -> BOOLEAN]
  /\ archived \in [Run -> {"none", "skipped", "done", "failed"}]

Init ==
  /\ kind \in {"subscription", "iap"}
  /\ target = FALSE
  /\ onSale = [p \in {"old", "new"} |-> IF p = "old" THEN Territory ELSE {}]
  /\ copied = [p \in Part |-> {}]
  /\ shot = "none"
  /\ rows = 0
  /\ pc = [r \in Run |-> "idle"]
  /\ scope = [r \in Run |-> {}]
  /\ todo = [r \in Run |-> {}]
  /\ read = [r \in Run |-> {}]
  /\ mine = [r \in Run |-> FALSE]
  /\ hasTarget = [r \in Run |-> FALSE]
  /\ errs = [r \in Run |-> FALSE]
  /\ archived = [r \in Run |-> "none"]

Goto(r, phase) == pc' = [pc EXCEPT ![r] = phase]
Record(r)      == errs' = [errs EXCEPT ![r] = TRUE]

\* The sale that a new availability of the target leaves, and the empty
\* availability written on the source.
Opened(territories) == [onSale EXCEPT !["new"] = territories]
Closed == [onSale EXCEPT !["old"] = {}]

\* What reserve, send the bytes and commit can leave of a screenshot when one
\* of the three fails.
Unfinished == {"none", "awaiting", "complete"}

\* The first wanted phase of a sequence of steps the scope switches on or off.
AfterScreenshot(r) == "archive_source"
AfterOffers(r)  == IF "screenshot" \in scope[r] THEN "shot_delete" ELSE AfterScreenshot(r)
AfterPrices(r)  == IF "intro_offers" \in scope[r] THEN "probe_intro_offers" ELSE AfterOffers(r)
AfterLocalizations(r) ==
  IF "price_schedule" \in scope[r] THEN "probe_price_schedule" ELSE AfterPrices(r)
AfterAvailability(r) ==
  IF "localizations" \in scope[r] THEN "probe_localizations" ELSE AfterLocalizations(r)
AfterRow(r) ==
  IF "group_availability" \in scope[r] THEN "read_availability" ELSE AfterAvailability(r)
ProbeOf(part) ==
  CASE part = "localizations"  -> "probe_localizations"
    [] part = "price_schedule" -> "probe_price_schedule"
    [] part = "intro_offers"   -> "probe_intro_offers"
AfterPart(r, part) ==
  CASE part = "localizations"  -> AfterLocalizations(r)
    [] part = "price_schedule" -> AfterPrices(r)
    [] part = "intro_offers"   -> AfterOffers(r)

\* What a scope names and IAPCloner has no step for.  Apple has no way to
\* archive an in-app purchase: its status is "skipped" whatever the scope.
Ignored ==
  IF kind = "iap" THEN {"group_availability", "intro_offers", "auto_archive"} ELSE {}

BeginClone(r, s) ==
  /\ pc[r] = "idle"
  /\ Cardinality({q \in Run : Active(q)}) < MaxActive
  /\ scope' = [scope EXCEPT ![r] = s \ Ignored]
  /\ Goto(r, "read_source")
  /\ UNCHANGED <<appleVars, rows, todo, read, mine, hasTarget, errs, archived>>

\* The early return of steps 1 and 2: a result without a target.
Fail(r) ==
  /\ Goto(r, "cloned")
  /\ Record(r)
  /\ UNCHANGED <<scope, todo, read, mine, hasTarget, archived>>

ReadSource(r) ==
  /\ pc[r] = "read_source"
  /\ UNCHANGED <<appleVars, rows>>
  /\ \/ /\ Goto(r, "list_group")
        /\ UNCHANGED <<scope, todo, read, mine, hasTarget, errs, archived>>
     \/ Fail(r)

\* list_subscriptions or list_iaps; its failure is caught nowhere (Abort).
ListGroup(r) ==
  /\ pc[r] = "list_group"
  /\ Goto(r, IF target THEN "local_row" ELSE "create")
  /\ hasTarget' = [hasTarget EXCEPT ![r] = target]
  /\ UNCHANGED <<appleVars, rows, scope, todo, read, mine, errs, archived>>

\* A productId is unique at Apple: a second create is refused.
CreateTarget(r) ==
  /\ pc[r] = "create"
  /\ UNCHANGED <<kind, onSale, copied, shot, rows>>
  /\ \/ /\ ~target
        /\ target' = TRUE
        /\ hasTarget' = [hasTarget EXCEPT ![r] = TRUE]
        /\ Goto(r, "local_row")
        /\ UNCHANGED <<scope, todo, read, mine, errs, archived>>
     \/ /\ target' \in {target, TRUE}
        /\ Fail(r)

\* The lookup by Apple id, scalar_one_or_none: it sees committed rows only and
\* raises (Abort) when there is more than one.
LocalRow(r) ==
  /\ pc[r] = "local_row"
  /\ rows <= 1
  /\ mine' = [mine EXCEPT ![r] = (rows = 0)]
  /\ Goto(r, AfterRow(r))
  /\ UNCHANGED <<appleVars, rows, scope, todo, read, hasTarget, errs, archived>>

\* Step 3 reads the source's territories and posts them on the target.
ReadAvailability(r) ==
  /\ pc[r] = "read_availability"
  /\ UNCHANGED <<appleVars, rows, scope, todo, mine, hasTarget, archived>>
  /\ \/ /\ read' = [read EXCEPT ![r] = onSale["old"]]
        /\ Goto(r, IF onSale["old"] = {} THEN AfterAvailability(r)
                                         ELSE "post_availability")
        /\ UNCHANGED errs
     \/ /\ Goto(r, AfterAvailability(r)) /\ Record(r)
        /\ UNCHANGED read

PostAvailability_Silent(r) ==
  /\ pc[r] = "post_availability"
  /\ Goto(r, AfterAvailability(r))
  /\ onSale' \in {onSale, Opened(read[r])}
  /\ UNCHANGED <<kind, target, copied, shot, rows, scope, todo, read, mine,
                 hasTarget, errs, archived>>

\* A 409 says the target has an availability already and is no error.
PostAvailability(r) ==
  /\ pc[r] = "post_availability"
  /\ Goto(r, AfterAvailability(r))
  /\ \/ /\ onSale' = Opened(read[r])
        /\ UNCHANGED errs
     \/ /\ onSale["new"] # {}
        /\ UNCHANGED <<onSale, errs>>
     \/ /\ onSale' \in {onSale, Opened(read[r])}
        /\ Record(r)
  /\ UNCHANGED <<kind, target, copied, shot, rows, scope, todo, read, mine,
                 hasTarget, archived>>

\* What the run sees the target to hold already.  A price or offer listing
\* that fails is passed over as an empty one; the prices of an in-app purchase
\* are all sent whatever it has.
Snapshots(part) ==
  CASE part = "localizations"                   -> {copied[part]}
    [] part # "localizations" /\ kind = "iap"   -> {{}}
    [] part # "localizations" /\ kind # "iap"   -> {copied[part], {}}

\* Steps 4 to 6 start by listing.  The source prices come from the local rows,
\* so that step has no listing whose failure could end it.
Probe(r, part) ==
  /\ pc[r] = ProbeOf(part)
  /\ \/ /\ \E seen \in Snapshots(part) :
             todo' = [todo EXCEPT ![r] = Source[part] \ seen]
        /\ Goto(r, part)
        /\ UNCHANGED errs
     \/ /\ part # "price_schedule"
        /\ Goto(r, AfterPart(r, part)) /\ Record(r)
        /\ UNCHANGED todo
  /\ UNCHANGED <<appleVars, rows, scope, read, mine, hasTarget, archived>>

\* Apple takes no price for a subscription that is available nowhere, and no
\* second localization or offer for a key.
Accepts(part, k) ==
  IF part = "price_schedule" THEN onSale["new"] # {} ELSE k \notin copied[part]

CopyKey_Silent(r, part, k) ==
  /\ pc[r] = part
  /\ k \in todo[r]
  /\ todo' = [todo EXCEPT ![r] = @ \ {k}]
  /\ \/ Accepts(part, k) /\ copied' = [copied EXCEPT ![part] = @ \cup {k}]
     \/ UNCHANGED copied
  /\ UNCHANGED <<kind, target, onSale, shot, rows, pc, scope, read, mine,
                 hasTarget, errs, archived>>

\* One key of a part: created; created but the answer lost; or not created.
\* The one repetition after a 5xx (_retry_post_once) ends in the same outcomes.
CopyKey(r, part, k) ==
  /\ pc[r] = part
  /\ k \in todo[r]
  /\ todo' = [todo EXCEPT ![r] = @ \ {k}]
  /\ \/ /\ Accepts(part, k)
        /\ copied' = [copied EXCEPT ![part] = @ \cup {k}]
        /\ UNCHANGED errs \/ Record(r)
     \/ UNCHANGED copied /\ Record(r)
  /\ UNCHANGED <<kind, target, onSale, shot, rows, pc, scope, read, mine,
                 hasTarget, archived>>

CopyLocalization(r, k) == CopyKey(r, "localizations", k)

\* A row whose price has no counterpart among the target's price points is an
\* error, one more way not to be created.
CopyPrice(r, k) == kind = "subscription" /\ CopyKey(r, "price_schedule", k)

\* One schedule of an in-app purchase with all its prices.  It names the price
\* points of the source, which Apple may refuse.
SetPrices(r) ==
  /\ kind = "iap"
  /\ pc[r] = "price_schedule"
  /\ todo[r] # {}
  /\ todo' = [todo EXCEPT ![r] = {}]
  /\ \/ /\ copied' = [copied EXCEPT !["price_schedule"] = todo[r]]
        /\ UNCHANGED errs \/ Record(r)
     \/ UNCHANGED copied /\ Record(r)
  /\ UNCHANGED <<kind, target, onSale, shot, rows, pc, scope, read, mine,
                 hasTarget, archived>>

CopyOffer(r, k) == CopyKey(r, "intro_offers", k)

EndPart(r, part) ==
  /\ pc[r] = part
  /\ todo[r] = {}
  /\ Goto(r, AfterPart(r, part))
  /\ UNCHANGED <<appleVars, rows, scope, todo, read, mine, hasTarget, errs, archived>>

\* Step 7.  The source may have no screenshot that can be downloaded; the
\* target's own, complete or stuck, is deleted before the upload.
DeleteShot(r) ==
  /\ pc[r] = "shot_delete"
  /\ \/ /\ Goto(r, AfterScreenshot(r))
        /\ UNCHANGED <<shot, errs>>
     \/ /\ Goto(r, "shot_upload")
        /\ shot' = "none"
        /\ UNCHANGED errs
     \/ /\ Goto(r, AfterScreenshot(r)) /\ Record(r)
        /\ shot' \in {shot, "none"}
  /\ UNCHANGED <<kind, target, onSale, copied, rows, scope, todo, read, mine,
                 hasTarget, archived>>

\* The one repetition after a 5xx deletes and uploads again and ends in one of
\* the same outcomes.
UploadShot(r) ==
  /\ pc[r] = "shot_upload"
  /\ Goto(r, AfterScreenshot(r))
  /\ \/ shot = "none" /\ shot' = "complete" /\ UNCHANGED errs
     \/ /\ shot' \in IF shot = "none" THEN Unfinished ELSE {shot}
        /\ Record(r)
  /\ UNCHANGED <<kind, target, onSale, copied, rows, scope, todo, read, mine,
                 hasTarget, archived>>

\* Step 8 runs whatever the steps before it recorded.
ArchiveSource(r) ==
  /\ pc[r] = "archive_source"
  /\ Goto(r, "cloned")
  /\ IF "auto_archive" \in scope[r]
     THEN \/ /\ onSale' = Closed
             /\ archived' = [archived EXCEPT ![r] = "done"]
             /\ UNCHANGED errs
          \/ /\ onSale' \in {onSale, Closed}
             /\ archived' = [archived EXCEPT ![r] = "failed"]
             /\ Record(r)
     ELSE /\ archived' = [archived EXCEPT ![r] = "skipped"]
          /\ UNCHANGED <<onSale, errs>>
  /\ UNCHANGED <<kind, target, copied, shot, rows, scope, todo, read, mine,
                 hasTarget>>

\* The request ends and its session commits.
Commit(r) ==
  /\ pc[r] = "cloned"
  /\ Goto(r, "committed")
  /\ rows' = IF mine[r] THEN rows + 1 ELSE rows
  /\ UNCHANGED <<appleVars, scope, todo, read, mine, hasTarget, errs, archived>>

Abort_KeepsRow(r) ==
  /\ Active(r)
  /\ Goto(r, "aborted")
  /\ rows' = IF mine[r] THEN rows + 1 ELSE rows
  /\ errs' = [errs EXCEPT ![r] = FALSE]
  /\ UNCHANGED <<appleVars, mine, scope, todo, read, hasTarget, archived>>

\* The process dies, or an exception nobody catches ends the request: the
\* session is rolled back, row, steps and error list alike.
Abort(r) ==
  /\ Active(r)
  /\ Goto(r, "aborted")
  /\ mine' = [mine EXCEPT ![r] = FALSE]
  /\ errs' = [errs EXCEPT ![r] = FALSE]
  /\ UNCHANGED <<appleVars, rows, scope, todo, read, hasTarget, archived>>

\* The steps both cloners have, and those only one of them has.
SharedStep(r) ==
  \/ ReadSource(r) \/ ListGroup(r) \/ CreateTarget(r) \/ LocalRow(r)
  \/ \E part \in Part : Probe(r, part) \/ EndPart(r, part)
  \/ \E k \in Key : CopyLocalization(r, k)
  \/ DeleteShot(r) \/ UploadShot(r) \/ ArchiveSource(r)

CloneStep(r) ==
  \/ SharedStep(r)
  \/ ReadAvailability(r) \/ PostAvailability(r)
  \/ \E k \in Key : CopyPrice(r, k) \/ CopyOffer(r, k)
  \/ SetPrices(r)

Next == \E r \in Run :
  \/ \E s \in Scopes : BeginClone(r, s)
  \/ CloneStep(r) \/ Commit(r) \/ Abort(r)

Spec == Init /\ [][Next]_vars

-----------------------------------------------------------------------------
(* Properties *)

\* A clone that reports no error has copied every part it was asked to copy,
\* through earlier half-finished runs, lost answers and overlapping runs.
CleanCloneIsComplete ==
  \A r \in Run : pc[r] \in {"cloned", "committed"} /\ ~errs[r] =>
    /\ hasTarget[r]
    /\ \A part \in Part \cap scope[r] : Source[part] \subseteq copied[part]

\* When neither product is on sale anywhere some run reports an error or died,
\* provided every run that archives was also asked to mirror the availability.
OffSaleIsReported ==
  /\ onSale["old"] = {} /\ onSale["new"] = {}
  /\ \A r \in Run : "auto_archive" \in scope[r] => "group_availability" \in scope[r]
  => \E r \in Run : errs[r] \/ pc[r] = "aborted"

\* The retry route: cloners "skip successful steps, so retry is safe even when
\* the previous run partially succeeded"; a run without errors means the
\* target is on sale where the source was.
SuccessIsOnSale ==
  \A r \in Run : /\ pc[r] = "committed" /\ ~errs[r]
                 /\ "group_availability" \in scope[r]
                 => onSale["new"] = Territory
=============================================================================
