----------------------------- MODULE IapPricing -----------------------------
(***************************************************************************)
(* The prices of one in-app purchase (api/v1/pricing.py and its MCP twins).*)
(* Apple holds a price schedule: the territories with a manual price, one  *)
(* of them the base; every other territory is priced from the base.  A     *)
(* write replaces the whole schedule.  The database caches the schedule;   *)
(* an apply sends what was asked and, so that nothing else changes, the    *)
(* cached price points of all other territories.                           *)
(*                                                                         *)
(* A price point names its price, so both are the same number here; the    *)
(* cache keeps them apart because the price of a point may stay unread.    *)
(***************************************************************************)
EXTENDS Naturals, FiniteSets

CONSTANTS
  Territory,
  Price,      \* the customer prices of the tier ladder
  Sync,       \* callers of the sync and read endpoints
  Apply,      \* callers of the apply endpoints
  MaxEdits    \* changes made in App Store Connect by hand

ASSUME PriceAssumption == Price \subseteq Nat \ {0}
ASSUME EditsAssumption == MaxEdits \in Nat

None == 0

VARIABLES
  manual,    \* Apple: the manual price of each territory
  base,      \* Apple: the base territory, "none" before the first schedule
  edits,
  point,     \* cache: the price point of each territory's row
  price,     \* cache: its customer price, 0.0 where it could not be read
  syncPc, seen, known,   \* a sync: the points read, those with a known price
  pc, items, forced, snapPoint, snapPrice, entries, entryBase

appleVars == <<manual, base, edits>>
cacheVars == <<point, price>>
syncVars  == <<syncPc, seen, known>>
applyVars == <<pc, items, forced, snapPoint, snapPrice, entries, entryBase>>
vars == <<manual, base, edits, point, price, syncPc, seen, known,
          pc, items, forced, snapPoint, snapPrice, entries, entryBase>>

Prices == [Territory -> Price \cup {None}]
NoPrices == [t \in Territory |-> None]

Priced(prices) == {t \in Territory : prices[t] # None}
BasesOf(prices) == IF prices = NoPrices THEN {"none"} ELSE Priced(prices)

\* Types; the base has a price of its own whenever there is a schedule.
TypeOK ==
  /\ manual \in Prices /\ base \in BasesOf(manual)
  /\ edits \in 0..MaxEdits
  /\ point \in Prices /\ price \in Prices
  /\ syncPc \in [Sync -> {"idle", "write"}]
  /\ seen \in [Sync -> Prices] /\ known \in [Sync -> SUBSET Territory]
  /\ pc \in [Apply -> {"idle", "check", "resolve", "submit"}]
  /\ items \in [Apply -> Prices] /\ forced \in [Apply -> SUBSET Territory]
  /\ snapPoint \in [Apply -> Prices] /\ snapPrice \in [Apply -> Prices]
  /\ entries \in [Apply -> Prices]
  /\ entryBase \in [Apply -> Territory \cup {"none"}]

\* The product may have been priced long before it is first synced.
Init ==
  /\ manual \in Prices /\ edits = 0
  /\ base \in BasesOf(manual)
  /\ point = NoPrices /\ price = NoPrices
  /\ syncPc = [s \in Sync |-> "idle"]
  /\ seen = [s \in Sync |-> NoPrices] /\ known = [s \in Sync |-> {}]
  /\ pc = [a \in Apply |-> "idle"]
  /\ items = [a \in Apply |-> NoPrices] /\ forced = [a \in Apply |-> {}]
  /\ snapPoint = [a \in Apply |-> NoPrices] /\ snapPrice = [a \in Apply |-> NoPrices]
  /\ entries = [a \in Apply |-> NoPrices]
  /\ entryBase = [a \in Apply |-> "none"]

-----------------------------------------------------------------------------
(* Apple *)

\* Somebody changes the schedule in App Store Connect.
Edit ==
  /\ edits < MaxEdits
  /\ edits' = edits + 1
  /\ manual' \in Prices \ {NoPrices}
  /\ base' \in Priced(manual')
  /\ UNCHANGED <<cacheVars, syncVars, applyVars>>

-----------------------------------------------------------------------------
(* Sync: get_iap_prices and sync_iap_prices, over REST and MCP *)

\* get_iap_price_schedule.  The lookup of a point's price gives up on an error
\* of Apple's and leaves 0.0.
ReadSchedule(s) ==
  /\ syncPc[s] = "idle"
  /\ syncPc' = [syncPc EXCEPT ![s] = "write"]
  /\ seen' = [seen EXCEPT ![s] = manual]
  /\ \E found \in SUBSET Priced(manual) : known' = [known EXCEPT ![s] = found]
  /\ UNCHANGED <<appleVars, cacheVars, applyVars>>

Forget(s) ==
  /\ syncPc' = [syncPc EXCEPT ![s] = "idle"]
  /\ seen' = [seen EXCEPT ![s] = NoPrices]
  /\ known' = [known EXCEPT ![s] = {}]

\* A row for every territory of the schedule; other rows stay.
WriteRows(s) ==
  /\ syncPc[s] = "write"
  /\ point' = [t \in Territory |-> IF seen[s][t] = None THEN point[t] ELSE seen[s][t]]
  /\ price' = [t \in Territory |->
       IF seen[s][t] = None THEN price[t]
       ELSE IF t \in known[s] THEN seen[s][t] ELSE None]
  /\ Forget(s)
  /\ UNCHANGED <<appleVars, applyVars>>

\* The request dies, or another sync inserted one of the rows first: rolled back.
AbortSync(s) ==
  /\ syncPc[s] = "write"
  /\ Forget(s)
  /\ UNCHANGED <<appleVars, cacheVars, applyVars>>

-----------------------------------------------------------------------------
(* Apply *)

GotoResolve(a) == pc' = [pc EXCEPT ![a] = "resolve"]

\* The cached rows are read once, at the start.
StartApply(a) ==
  /\ pc[a] = "idle"
  /\ \E wanted \in Prices \ {NoPrices} :
       /\ items' = [items EXCEPT ![a] = wanted]
       /\ \E f \in {{}, Priced(wanted)} : forced' = [forced EXCEPT ![a] = f]
  /\ snapPoint' = [snapPoint EXCEPT ![a] = point]
  /\ snapPrice' = [snapPrice EXCEPT ![a] = price]
  /\ pc' = [pc EXCEPT ![a] = IF point = NoPrices THEN "check" ELSE "resolve"]
  /\ UNCHANGED <<appleVars, cacheVars, syncVars, entries, entryBase>>

Reset(a) ==
  /\ pc' = [pc EXCEPT ![a] = "idle"]
  /\ items' = [items EXCEPT ![a] = NoPrices]
  /\ forced' = [forced EXCEPT ![a] = {}]
  /\ snapPoint' = [snapPoint EXCEPT ![a] = NoPrices]
  /\ snapPrice' = [snapPrice EXCEPT ![a] = NoPrices]
  /\ entries' = [entries EXCEPT ![a] = NoPrices]
  /\ entryBase' = [entryBase EXCEPT ![a] = "none"]

CheckReplaceable_CacheOnly(a) ==
  /\ pc[a] = "check"
  /\ GotoResolve(a)
  /\ UNCHANGED <<items, forced, snapPoint, snapPrice, entries, entryBase>>
  /\ UNCHANGED <<appleVars, cacheVars, syncVars>>

\* _assert_iap_schedule_replaceable: an empty cache is safe only if Apple has
\* no price either; otherwise the apply is refused.
CheckReplaceable(a) ==
  /\ pc[a] = "check"
  /\ IF manual = NoPrices
     THEN /\ GotoResolve(a)
          /\ UNCHANGED <<items, forced, snapPoint, snapPrice, entries, entryBase>>
     ELSE Reset(a)
  /\ UNCHANGED <<appleVars, cacheVars, syncVars>>

\* exceeds_safety_band: more than half up or down, the half itself allowed.
Exceeds(current, new) == 2 * new > 3 * current \/ 2 * new < current

\* safety_skip_item: nothing to compare with, nothing to skip.
Skips(a, t) ==
  /\ t \notin forced[a]
  /\ snapPrice[a][t] # None
  /\ Exceeds(snapPrice[a][t], items[a][t])

Schedule_RequestedOnly(a, accepted) ==
  [t \in Territory |-> IF t \in accepted THEN items[a][t] ELSE None]

Schedule_SendsRejected(a, accepted) ==
  [t \in Territory |-> IF items[a][t] # None THEN items[a][t] ELSE snapPoint[a][t]]

\* The accepted items and, around them, the cached rows that have a point.
Schedule(a, accepted) ==
  [t \in Territory |-> IF t \in accepted THEN items[a][t] ELSE snapPoint[a][t]]

Bases_Requested(schedule, asked) == {asked}

\* _resolve_iap_base_territory: the base asked for if it is in the schedule,
\* else one that is.
Bases(schedule, asked) ==
  IF asked \in Priced(schedule) THEN {asked} ELSE Priced(schedule)

\* The loop over the items: any of them may fail to resolve (no ladder, or a
\* point that is not in it).  The accepted ones stay in items.  With nothing
\* to send the request ends here.
ResolveItems(a) ==
  /\ pc[a] = "resolve"
  /\ \E resolved \in SUBSET Priced(items[a]) :
       LET accepted == {t \in resolved : ~Skips(a, t)}
           schedule == Schedule(a, accepted)
       IN  IF schedule = NoPrices THEN Reset(a)
           ELSE /\ entries' = [entries EXCEPT ![a] = schedule]
                /\ \E asked \in Territory : \E b \in Bases(schedule, asked) :
                     entryBase' = [entryBase EXCEPT ![a] = b]
                /\ items' = [items EXCEPT ![a] =
                     [t \in Territory |-> IF t \in accepted THEN items[a][t] ELSE None]]
                /\ pc' = [pc EXCEPT ![a] = "submit"]
                /\ snapPrice' = [snapPrice EXCEPT ![a] = NoPrices]
                /\ UNCHANGED <<forced, snapPoint>>
  /\ UNCHANGED <<appleVars, cacheVars, syncVars>>

\* The new schedule replaces the old one.
Takes(a) == manual' = entries[a] /\ base' = entryBase[a]

\* set_iap_price and the answer.  Apple refuses a schedule whose base has no
\* price in it; an answer that is an error may hide a write that took place.
\* The cached rows are not touched.
Submit(a) ==
  /\ pc[a] = "submit"
  /\ Reset(a)
  /\ \/ entries[a][entryBase[a]] # None /\ Takes(a)
     \/ UNCHANGED <<manual, base>>
  /\ UNCHANGED <<edits, cacheVars, syncVars>>

AbortApply(a) ==
  /\ pc[a] # "idle"
  /\ Reset(a)
  /\ UNCHANGED <<appleVars, cacheVars, syncVars>>

Next ==
  \/ Edit
  \/ \E s \in Sync : ReadSchedule(s) \/ WriteRows(s) \/ AbortSync(s)
  \/ \E a \in Apply :
       \/ StartApply(a) \/ CheckReplaceable(a) \/ ResolveItems(a)
       \/ Submit(a) \/ AbortApply(a)

Spec == Init /\ [][Next]_vars

\* A request runs on by itself once it has begun.
FairSpec ==
  /\ Spec
  /\ \A s \in Sync : WF_vars(WriteRows(s))
  /\ \A a \in Apply :
       WF_vars(CheckReplaceable(a) \/ ResolveItems(a) \/ Submit(a))

-----------------------------------------------------------------------------
(* Properties *)

\* Apple takes the schedule of a.
Submits(a) == pc[a] = "submit" /\ pc'[a] = "idle" /\ manual' # manual

\* Apple never gets a schedule it would refuse for its base: the base is one
\* of the territories sent, whatever was asked for and skipped.
BaseIsSent == \A a \in Apply : pc[a] = "submit" => entries[a][entryBase[a]] # None

\* An apply takes the manual price of a territory away only if the cache had
\* no row for it when the apply started.
OnlyUncachedPricesAreLost ==
  [][\A a \in Apply, t \in Territory :
       Submits(a) /\ manual[t] # None /\ manual'[t] = None
         => snapPoint[a][t] = None]_vars

\* When the cache was right, an apply changes the accepted items to what was
\* asked and nothing else, skipped and failed items included.
FreshApplyIsExact ==
  [][\A a \in Apply : Submits(a) /\ snapPoint[a] = manual =>
       \A t \in Territory :
         manual'[t] = IF items[a][t] # None THEN items[a][t] ELSE manual[t]]_vars

\* An apply that found the cache empty replaces no price that exists, as long
\* as it is the only one and nothing is edited by hand (nothing in the code
\* closes the gap between the check and the write).
EmptyCacheNeverWipes ==
  [][\A a \in Apply : Submits(a) /\ snapPoint[a] = NoPrices =>
       manual = NoPrices \/ edits # 0 \/ Cardinality(Apply) # 1]_vars

\* docs/017: with a warm cache "preserve loop has what it needs".  An apply
\* leaves alone the territories it was not asked to change.
UntouchedPricesStay ==
  [][\A a \in Apply, t \in Territory :
       Submits(a) /\ items[a][t] = None => manual'[t] = manual[t]]_vars
=============================================================================
