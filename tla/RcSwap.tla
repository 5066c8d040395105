------------------------------- MODULE RcSwap -------------------------------
(***************************************************************************)
(* RevenueCatProductSwap (services/revenuecat/swap.py): every entitlement  *)
(* and offering package that holds the old product is given the new one,   *)
(* then loses the old one, then the old product is archived.               *)
(*                                                                         *)
(* RevenueCat is the environment: it may refuse a call, and it may carry   *)
(* one out and answer with an error all the same.  A refused call raises   *)
(* RevenueCatAPIError, which swap() records and steps over; an httpx       *)
(* network error is caught nowhere and ends the run (Abort), as does a     *)
(* crash of the process.                                                   *)
(***************************************************************************)
EXTENDS Naturals, FiniteSets

CONSTANTS
  Run,          \* the executions of swap(): the first attempt and its retries
  MaxActive,    \* how many of them may overlap
  Entitlement,
  Package,
  Offering,
  OfferingOf,   \* the offering each package belongs to
  Held          \* the entitlements and packages that hold the old product

Holder == Entitlement \cup Package

\* What is required of the constants.
Setting ==
  /\ MaxActive \in Nat
  /\ Entitlement \cap Package = {}
  /\ OfferingOf \in [Package -> Offering]
  /\ Held \subseteq Holder

VARIABLES
  product,   \* the two products' state at RevenueCat
  att,       \* which of the two products each holder references
  pc,        \* where each run is
  found,     \* attached_entitlement_ids and attached_packages of a run
  todo,      \* the holders the run's current loop has still to visit
  errs       \* whether the run's error list is non-empty

rcVars  == <<product, att>>
runVars == <<pc, found, todo, errs>>
vars    == <<product, att, pc, found, todo, errs>>

Phase == {"idle", "find_old", "find_new", "create_new", "list_entitlements",
          "list_packages", "attach", "detach", "archive", "done", "aborted"}

Active(r) == pc[r] \notin {"idle", "done", "aborted"}

TypeOK ==
  /\ product \in [{"old", "new"} -> {"none", "active", "archived"}]
  /\ att \in [Holder -> SUBSET {"old", "new"}]
  /\ pc \in [Run -> Phase]
  /\ found \in [Run -> SUBSET Holder]
  /\ todo \in [Run -> SUBSET Holder]
  /\ errs \in [Run -> BOOLEAN]

Init ==
  /\ product = [p \in {"old", "new"} |-> IF p = "old" THEN "active" ELSE "none"]
  /\ att = [h \in Holder |-> IF h \in Held THEN {"old"} ELSE {}]
  /\ pc = [r \in Run |-> "idle"]
  /\ found = [r \in Run |-> {}]
  /\ todo = [r \in Run |-> {}]
  /\ errs = [r \in Run |-> FALSE]

Goto(r, phase) == pc' = [pc EXCEPT ![r] = phase]
Record(r)      == errs' = [errs EXCEPT ![r] = TRUE]

\* A call that failed and made swap() return early.
GiveUp(r) == Goto(r, "done") /\ Record(r) /\ UNCHANGED <<found, todo>>

StartSwap(r) ==
  /\ pc[r] = "idle"
  /\ Cardinality({q \in Run : Active(q)}) < MaxActive
  /\ Goto(r, "find_old")
  /\ UNCHANGED <<rcVars, found, todo, errs>>

\* find_product_by_store_id(old).  A product archived by an earlier run may or
\* may not be listed; when it is not, swap() reports "skipped" and no error.
FindOld(r) ==
  /\ pc[r] = "find_old"
  /\ UNCHANGED rcVars
  /\ \/ Goto(r, "find_new") /\ UNCHANGED <<found, todo, errs>>
     \/ /\ product["old"] = "archived"
        /\ Goto(r, "done")
        /\ UNCHANGED <<found, todo, errs>>
     \/ GiveUp(r)

FindNew(r) ==
  /\ pc[r] = "find_new"
  /\ UNCHANGED rcVars
  /\ \/ /\ Goto(r, IF product["new"] = "none" THEN "create_new"
                                              ELSE "list_entitlements")
        /\ UNCHANGED <<found, todo, errs>>
     \/ GiveUp(r)

\* A store identifier is unique in a RevenueCat app: a second create is refused.
CreateNew(r) ==
  /\ pc[r] = "create_new"
  /\ UNCHANGED att
  /\ \/ /\ product["new"] = "none"
        /\ product' = [product EXCEPT !["new"] = "active"]
        /\ Goto(r, "list_entitlements")
        /\ UNCHANGED <<found, todo, errs>>
     \/ /\ product' \in {product, [product EXCEPT !["new"] = "active"]}
        /\ GiveUp(r)

Holding_Any(S) == S

Holding(S) == {h \in S : "old" \in att[h]}

\* list_entitlements and list_offerings: either failing ends the swap.
ListEntitlements(r) ==
  /\ pc[r] = "list_entitlements"
  /\ UNCHANGED rcVars
  /\ \/ /\ Goto(r, "list_packages")
        /\ found' = [found EXCEPT ![r] = Holding(Entitlement)]
        /\ UNCHANGED <<todo, errs>>
     \/ GiveUp(r)

\* list_packages, once per offering: an offering whose call fails is skipped
\* without a word in the error list.
ListPackages(r) ==
  /\ pc[r] = "list_packages"
  /\ \E listed \in SUBSET Offering :
       LET all == found[r] \cup {p \in Holding(Package) : OfferingOf[p] \in listed}
       IN  /\ found' = [found EXCEPT ![r] = all]
           /\ todo' = [todo EXCEPT ![r] = all]
  /\ Goto(r, "attach")
  /\ UNCHANGED <<rcVars, errs>>

\* Steps 4 and 5: entitlements first, then packages; one that fails is
\* recorded and the loop goes on.
AttachNew_Silent(r, h) ==
  /\ pc[r] = "attach"
  /\ h \in todo[r]
  /\ h \in Package => todo[r] \cap Entitlement = {}
  /\ todo' = [todo EXCEPT ![r] = @ \ {h}]
  /\ att' \in {att, [att EXCEPT ![h] = @ \cup {"new"}]}
  /\ UNCHANGED <<product, pc, found, errs>>

AttachNew(r, h) ==
  /\ pc[r] = "attach"
  /\ h \in todo[r]
  /\ h \in Package => todo[r] \cap Entitlement = {}
  /\ todo' = [todo EXCEPT ![r] = @ \ {h}]
  /\ \/ /\ att' = [att EXCEPT ![h] = @ \cup {"new"}]
        /\ UNCHANGED errs
     \/ /\ att' \in {att, [att EXCEPT ![h] = @ \cup {"new"}]}
        /\ Record(r)
  /\ UNCHANGED <<product, pc, found>>

StartDetach_OnlyIfFound(r) ==
  /\ pc[r] = "attach"
  /\ todo[r] = {} /\ found[r] # {}
  /\ Goto(r, "detach")
  /\ todo' = [todo EXCEPT ![r] = found[r]]
  /\ UNCHANGED <<rcVars, found, errs>>

\* The detach loops run over the same lists, whatever became of the attaches.
StartDetach(r) ==
  /\ pc[r] = "attach"
  /\ todo[r] = {}
  /\ Goto(r, "detach")
  /\ todo' = [todo EXCEPT ![r] = found[r]]
  /\ UNCHANGED <<rcVars, found, errs>>

\* Step 6, entitlements first.
DetachOld_Silent(r, h) ==
  /\ pc[r] = "detach"
  /\ h \in todo[r]
  /\ h \in Package => todo[r] \cap Entitlement = {}
  /\ todo' = [todo EXCEPT ![r] = @ \ {h}]
  /\ att' \in {att, [att EXCEPT ![h] = @ \ {"old"}]}
  /\ UNCHANGED <<product, pc, found, errs>>

DetachOld(r, h) ==
  /\ pc[r] = "detach"
  /\ h \in todo[r]
  /\ h \in Package => todo[r] \cap Entitlement = {}
  /\ todo' = [todo EXCEPT ![r] = @ \ {h}]
  /\ \/ /\ att' = [att EXCEPT ![h] = @ \ {"old"}]
        /\ UNCHANGED errs
     \/ /\ att' \in {att, [att EXCEPT ![h] = @ \ {"old"}]}
        /\ Record(r)
  /\ UNCHANGED <<product, pc, found>>

StartArchive(r) ==
  /\ pc[r] = "detach"
  /\ todo[r] = {}
  /\ Goto(r, "archive")
  /\ UNCHANGED <<rcVars, found, todo, errs>>

ArchiveOld(r) ==
  /\ pc[r] = "archive"
  /\ Goto(r, "done")
  /\ \/ /\ product' = [product EXCEPT !["old"] = "archived"]
        /\ UNCHANGED errs
     \/ /\ product' \in {product, [product EXCEPT !["old"] = "archived"]}
        /\ Record(r)
  /\ UNCHANGED <<att, found, todo>>

\* The process dies, or a network error leaves swap() and finalize_swap(): the
\* session is rolled back and with it the error list.
Abort(r) ==
  /\ Active(r)
  /\ Goto(r, "aborted")
  /\ errs' = [errs EXCEPT ![r] = FALSE]
  /\ UNCHANGED <<rcVars, found, todo>>

Step(r) ==
  \/ FindOld(r) \/ FindNew(r) \/ CreateNew(r)
  \/ ListEntitlements(r) \/ ListPackages(r)
  \/ \E h \in Holder : AttachNew(r, h) \/ DetachOld(r, h)
  \/ StartDetach(r) \/ StartArchive(r) \/ ArchiveOld(r)

Next == \E r \in Run : StartSwap(r) \/ Step(r) \/ Abort(r)

Spec == Init /\ [][Next]_vars

-----------------------------------------------------------------------------
(* Properties *)

\* A swap that reports no error has moved every holder it found: the holder
\* references the new product and no longer the old one, whatever overlapping
\* or earlier runs did.
CleanSwapMovesWhatItFound ==
  \A r \in Run : pc[r] = "done" /\ ~errs[r] =>
    \A h \in found[r] : att[h] = {"new"}

Access == INSTANCE Handover WITH
  has    <- att,
  blamed <- \E r \in Run : errs[r] \/ pc[r] = "aborted"

\* However many runs overlap, repeat what others did and fail, each step hands a
\* holder of the old product the new one, takes the old one from a holder that has
\* the new one (or while a failure is on record), or changes no holder at all.
HandsOver == Access!Spec

\* The swap is conservative: an entitlement or package that did not hold the
\* old product never comes to grant the new one.
NothingGained == \A h \in Holder \ Held : att[h] = {}

\* "Existing subscribers keep their entitlement", says the header of swap.py: a
\* refused attach is followed by the detach all the same.  What holds is that
\* when a holder is left with neither product, some run says so in its error
\* list or died before it could.
LossIsReported ==
  \A h \in Held : att[h] = {} => \E r \in Run : errs[r] \/ pc[r] = "aborted"
=============================================================================
