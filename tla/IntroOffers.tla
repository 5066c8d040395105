----------------------------- MODULE IntroOffers -----------------------------
(***************************************************************************)
(* The free trial that an apply of subscription prices sets in every       *)
(* priced territory (api/v1/pricing.py, apply_subscription_prices and its  *)
(* MCP twin).  Apple has one introductory offer per territory and cannot   *)
(* change it, so the apply lists the offers, compares them with what it    *)
(* wants in the territories it takes to be priced, deletes, then creates.  *)
(***************************************************************************)
EXTENDS FiniteSets

CONSTANTS
  Territory,
  Config,      \* mode, duration and number of periods of an offer
  Apply

VARIABLES
  priced,   \* Apple: the territories with a price
  offer,    \* Apple: the offer of each territory
  cached,   \* the territories with a SubscriptionPrice row
  pc,
  items, desired,           \* what is asked
  applied,                  \* the prices Apple took
  listed,                   \* the offers as listed
  target, toDelete, toCreate,
  created, failed,
  answer

appleVars == <<priced, offer>>
askVars == <<items, desired>>
planVars == <<listed, target>>
vars == <<priced, offer, cached, pc, items, desired, applied, listed, target,
          toDelete, toCreate, created, failed, answer>>

Offers == [Territory -> Config \cup {"none"}]
NoOffers == [t \in Territory |-> "none"]
Sets == [Apply -> SUBSET Territory]
Nothing == [a \in Apply |-> {}]

\* Types; only priced territories have a row or are targets.
TypeOK ==
  /\ priced \subseteq Territory /\ offer \in Offers /\ cached \subseteq priced
  /\ pc \in [Apply -> {"idle", "price", "list", "diff", "delete", "create"}]
  /\ items \in Sets /\ desired \in [Apply -> Config \cup {"none"}]
  /\ applied \in Sets /\ listed \in [Apply -> Offers]
  /\ target \in Sets /\ toDelete \in Sets /\ toCreate \in Sets
  /\ created \in Sets /\ failed \in Sets
  /\ answer \in [Apply -> {"none", "synced", "partial", "unsynced", "error"}]
  /\ \A a \in Apply : pc[a] \in {"delete", "create"} => target[a] \subseteq priced

\* The subscription may have been priced, and have offers, before this.
Init ==
  /\ priced \in SUBSET Territory
  /\ offer \in {o \in Offers : \A t \in Territory \ priced : o[t] = "none"}
  /\ cached = {}
  /\ pc = [a \in Apply |-> "idle"]
  /\ items = Nothing /\ desired = [a \in Apply |-> "none"]
  /\ applied = Nothing /\ listed = [a \in Apply |-> NoOffers]
  /\ target = Nothing /\ toDelete = Nothing /\ toCreate = Nothing
  /\ created = Nothing /\ failed = Nothing
  /\ answer = [a \in Apply |-> "none"]

\* sync_subscription_prices.
Sync ==
  /\ cached' = priced
  /\ UNCHANGED <<appleVars, pc, askVars, applied, planVars, toDelete, toCreate,
                 created, failed, answer>>

StartApply(a) ==
  /\ pc[a] = "idle"
  /\ pc' = [pc EXCEPT ![a] = "price"]
  /\ \E asked \in SUBSET Territory : items' = [items EXCEPT ![a] = asked]
  /\ \E c \in Config : desired' = [desired EXCEPT ![a] = c]
  /\ applied' = [applied EXCEPT ![a] = {}]
  /\ answer' = [answer EXCEPT ![a] = "none"]
  /\ UNCHANGED <<appleVars, cached, planVars, toDelete, toCreate, created, failed>>

\* The loop over the items: those Apple takes are priced now.
PriceItems(a) ==
  /\ pc[a] = "price"
  /\ pc' = [pc EXCEPT ![a] = "list"]
  /\ \E ok \in SUBSET items[a] :
       /\ applied' = [applied EXCEPT ![a] = ok]
       /\ priced' = priced \cup ok
  /\ UNCHANGED <<offer, cached, askVars, planVars, toDelete, toCreate, created,
                 failed, answer>>

Clear(a) ==
  /\ pc' = [pc EXCEPT ![a] = "idle"]
  /\ items' = [items EXCEPT ![a] = {}]
  /\ desired' = [desired EXCEPT ![a] = "none"]
  /\ applied' = [applied EXCEPT ![a] = {}]
  /\ listed' = [listed EXCEPT ![a] = NoOffers]
  /\ target' = [target EXCEPT ![a] = {}]
  /\ toDelete' = [toDelete EXCEPT ![a] = {}]
  /\ toCreate' = [toCreate EXCEPT ![a] = {}]
  /\ created' = [created EXCEPT ![a] = {}]
  /\ failed' = [failed EXCEPT ![a] = {}]

\* list_subscription_introductory_offers; an error ends the offer part.
ListOffers(a) ==
  /\ pc[a] = "list"
  /\ \/ /\ pc' = [pc EXCEPT ![a] = "diff"]
        /\ listed' = [listed EXCEPT ![a] = offer]
        /\ UNCHANGED <<askVars, applied, target, toDelete, toCreate, created, failed, answer>>
     \/ /\ answer' = [answer EXCEPT ![a] = "error"]
        /\ Clear(a)
  /\ UNCHANGED <<appleVars, cached>>

Targets_Asked(a) == cached \cup items[a]

\* The rows, read again now, and the territories just priced.
Targets(a) == cached \cup applied[a]

Missing(a) == {t \in Targets(a) : listed[a][t] = "none"}
Changed(a) == {t \in Targets(a) : listed[a][t] \notin {"none", desired[a]}}
Orphans(a) == {t \in Territory \ Targets(a) : listed[a][t] # "none"}

ToCreate_MissingOnly(a) == Missing(a)
ToCreate(a) == Missing(a) \cup Changed(a)

\* What differs is deleted and created, what is outside the target deleted.
Diff(a) ==
  /\ pc[a] = "diff"
  /\ pc' = [pc EXCEPT ![a] = "delete"]
  /\ target' = [target EXCEPT ![a] = Targets(a)]
  /\ toDelete' = [toDelete EXCEPT ![a] = Changed(a) \cup Orphans(a)]
  /\ toCreate' = [toCreate EXCEPT ![a] = ToCreate(a)]
  /\ UNCHANGED <<appleVars, cached, askVars, applied, listed, created, failed, answer>>

\* _delete_one: the offer that was listed.  Failures are only logged.
DeleteOne(a, t) ==
  /\ pc[a] = "delete" /\ t \in toDelete[a]
  /\ toDelete' = [toDelete EXCEPT ![a] = @ \ {t}]
  /\ \/ offer[t] = listed[a][t] /\ offer' = [offer EXCEPT ![t] = "none"]
     \/ UNCHANGED offer
  /\ UNCHANGED <<priced, cached, pc, askVars, applied, planVars, toCreate, created,
                 failed, answer>>

\* The creates start when all deletes have been answered.
DeletesDone(a) ==
  /\ pc[a] = "delete" /\ toDelete[a] = {}
  /\ pc' = [pc EXCEPT ![a] = "create"]
  /\ UNCHANGED <<appleVars, cached, askVars, applied, planVars, toDelete, toCreate,
                 created, failed, answer>>

\* _create_one.  Apple refuses a second offer in a territory; an answer that
\* is lost counts as a failure.
CreateOne(a, t) ==
  /\ pc[a] = "create" /\ t \in toCreate[a]
  /\ toCreate' = [toCreate EXCEPT ![a] = @ \ {t}]
  /\ \/ /\ offer[t] = "none"
        /\ offer' = [offer EXCEPT ![t] = desired[a]]
        /\ \/ created' = [created EXCEPT ![a] = @ \cup {t}] /\ UNCHANGED failed
           \/ failed' = [failed EXCEPT ![a] = @ \cup {t}] /\ UNCHANGED created
     \/ /\ failed' = [failed EXCEPT ![a] = @ \cup {t}]
        /\ UNCHANGED <<offer, created>>
  /\ UNCHANGED <<priced, cached, pc, askVars, applied, planVars, toDelete, answer>>

\* What there was to create has been created or has failed by now.
Kept(a) == target[a] \ (created[a] \cup failed[a])

\* intro_offer_synced and intro_offer_error.
Answer(a) ==
  LET synced == created[a] # {} \/ (Kept(a) # {} /\ failed[a] = {})
  IN  IF failed[a] # {} THEN IF synced THEN "partial" ELSE "error"
      ELSE IF synced THEN "synced" ELSE "unsynced"

Finish(a) ==
  /\ pc[a] = "create" /\ toCreate[a] = {}
  /\ answer' = [answer EXCEPT ![a] = Answer(a)]
  /\ Clear(a)
  /\ UNCHANGED <<appleVars, cached>>

\* The process dies; what was sent was sent.
Die(a) ==
  /\ pc[a] # "idle"
  /\ Clear(a)
  /\ UNCHANGED <<appleVars, cached, answer>>

Next ==
  \/ Sync
  \/ \E a \in Apply :
       \/ StartApply(a) \/ PriceItems(a) \/ ListOffers(a) \/ Diff(a)
       \/ DeletesDone(a) \/ Finish(a) \/ Die(a)
       \/ \E t \in Territory : DeleteOne(a, t) \/ CreateOne(a, t)

Spec == Init /\ [][Next]_vars

\* A request runs on by itself once it has begun.
FairSpec ==
  /\ Spec
  /\ \A a \in Apply :
       WF_vars(\/ PriceItems(a) \/ ListOffers(a) \/ Diff(a) \/ DeletesDone(a) \/ Finish(a)
               \/ \E t \in Territory : DeleteOne(a, t) \/ CreateOne(a, t))

-----------------------------------------------------------------------------
(* Properties *)

\* "Target every territory the sub is now priced in": an apply that reports its
\* trial as synced, without an error, has left it in every target territory,
\* whatever of the deletes and creates failed on the way.
SyncedIsComplete ==
  [][\A a \in Apply : pc[a] = "create" /\ answer'[a] = "synced" =>
       \A t \in target[a] : offer[t] = desired[a]]_vars

\* "A re-apply only touches territories whose offer is missing or has a
\* different config; otherwise it's a no-op": where Apple has a price, an offer
\* that is as desired is not deleted.
ReapplyIsNoOp ==
  [][\A a \in Apply, t \in Territory :
       /\ pc[a] = "delete" /\ t \in priced
       /\ offer[t] = desired[a] /\ listed[a][t] = desired[a]
       => offer'[t] = offer[t]]_vars
=============================================================================
