------------------------------ MODULE SubPrice ------------------------------
(***************************************************************************)
(* The price of one subscription in one territory (api/v1/pricing.py and   *)
(* services/asc/pricing.py; territories are priced one by one and do not   *)
(* affect each other).  The first price counts at once; a change counts    *)
(* from the next day of Apple's calendar.  An apply judges a change, for   *)
(* the safety band and for whether existing subscribers keep their price,  *)
(* against the cached row it read at its start.  That row may be as old as *)
(* the last sync, and a day may end while the apply is at work.            *)
(***************************************************************************)
EXTENDS Naturals

CONSTANTS
  Price,
  Apply

None == 0

VARIABLES
  current,   \* Apple: the price in effect
  pending,   \* Apple: the change that starts tomorrow, price None if there is none
  paid,      \* Apple: what existing subscribers pay
  cached,    \* the customer price of the SubscriptionPrice row
  pc, item, snap,  \* the applies: what is asked, and the row they read
  sound,     \* history: the pending change was judged against the price in effect
  misled     \* history: subscribers keep a price by a judgement that was not sound

appleVars == <<current, pending, paid>>
history == <<sound, misled>>
vars == <<current, pending, paid, cached, pc, item, snap, sound, misled>>

Some == Price \cup {None}
Item == [price : Some, force : BOOLEAN, flag : BOOLEAN]
NoItem == [price |-> None, force |-> FALSE, flag |-> FALSE]
Change == [price : Some, keep : BOOLEAN, force : BOOLEAN]
NoChange == [price |-> None, keep |-> FALSE, force |-> FALSE]

\* Types; a territory with a price has subscribers paying one.
TypeOK ==
  /\ current \in Some /\ pending \in Change /\ paid \in Some /\ cached \in Some
  /\ (current = None) = (paid = None)
  /\ pc \in [Apply -> {"idle", "item"}]
  /\ item \in [Apply -> Item] /\ snap \in [Apply -> Some]
  /\ sound \in BOOLEAN /\ misled \in BOOLEAN

\* The subscription may have been priced before it is first synced.
Init ==
  /\ current \in Some /\ paid = current /\ pending = NoChange
  /\ cached = None
  /\ pc = [a \in Apply |-> "idle"]
  /\ item = [a \in Apply |-> NoItem] /\ snap = [a \in Apply |-> None]
  /\ sound = TRUE /\ misled = FALSE

\* Midnight in Cupertino: the change takes effect, for the existing
\* subscribers too unless they keep their price.
Midnight ==
  /\ pending # NoChange
  /\ current' = pending.price
  /\ paid' = IF pending.keep THEN paid ELSE pending.price
  /\ pending' = NoChange
  /\ misled' = (pending.keep /\ (misled \/ ~sound))
  /\ sound' = TRUE
  /\ UNCHANGED <<cached, pc, item, snap>>

\* get_subscription_prices takes the row in effect today, not the scheduled one.
InEffect == current

\* sync_subscription_prices.
SyncPrices ==
  /\ InEffect # None
  /\ cached' = InEffect
  /\ UNCHANGED <<appleVars, pc, item, snap, history>>

\* apply_subscription_prices reads the rows once.
StartApply(a) ==
  /\ pc[a] = "idle"
  /\ \E i \in Item : i.price # None /\ item' = [item EXCEPT ![a] = i]
  /\ snap' = [snap EXCEPT ![a] = cached]
  /\ pc' = [pc EXCEPT ![a] = "item"]
  /\ UNCHANGED <<appleVars, cached, history>>

Exceeds(old, new) == 2 * new > 3 * old \/ 2 * new < old

Skips_NeverDown(a) ==
  /\ ~item[a].force /\ snap[a] # None
  /\ 2 * item[a].price > 3 * snap[a]

\* safety_skip_item.
Skips(a) ==
  /\ ~item[a].force /\ snap[a] # None
  /\ Exceeds(snap[a], item[a].price)

Keeps_Asked(a) == item[a].flag

\* keeps_current_price.
Keeps(a) == item[a].flag /\ snap[a] # None /\ item[a].price > snap[a]

Finish(a) ==
  /\ pc' = [pc EXCEPT ![a] = "idle"]
  /\ item' = [item EXCEPT ![a] = NoItem]
  /\ snap' = [snap EXCEPT ![a] = None]

\* subscription_price_start_date: only the first price has no date.
Undated(a) == snap[a] = None

\* create_subscription_price.  Apple takes an undated price only as the first
\* one, and has one change per day.
Post(a) ==
  IF Undated(a)
  THEN /\ current = None
       /\ current' = item[a].price /\ paid' = item[a].price
       /\ UNCHANGED <<pending, sound>>
  ELSE /\ pending' = [price |-> item[a].price, keep |-> Keeps(a), force |-> item[a].force]
       /\ sound' = (snap[a] = InEffect)
       /\ UNCHANGED <<current, paid>>

\* The item of the territory: skipped, refused or failed, or taken by Apple.
\* The cached row is not touched.
ApplyItem(a) ==
  /\ pc[a] = "item"
  /\ \/ ~Skips(a) /\ Post(a)
     \/ UNCHANGED <<appleVars, sound>>
  /\ Finish(a)
  /\ UNCHANGED <<cached, misled>>

Next == Midnight \/ SyncPrices \/ \E a \in Apply : StartApply(a) \/ ApplyItem(a)

Spec == Init /\ [][Next]_vars

-----------------------------------------------------------------------------
(* Properties *)

\* docs/021: "Decreases always reach everyone, flag or not", though "a stale
\* cache can misjudge a change".  However applies, syncs and days follow each
\* other, who pays more than the price in effect keeps a price that an apply let
\* them keep by a row that did not show the price in effect when it wrote.
PaysMoreOnlyIfMisled == paid > current => misled

\* apply_subscription_prices: a price that "differs from the current Apple
\* price by more than 50% in either direction" is skipped: no day brings an
\* unforced change of more than half, seen from the price of the day before.
DailyChangeInBand ==
  [][current # None /\ current' # current /\ ~pending.force
       => ~Exceeds(current, current')]_vars

\* What the code does instead: only a change judged by a row that did not show
\* the price in effect when it was written leaves the band, however many
\* applies replaced each other's change before the day was over.
LeavesBandOnlyIfMisjudged ==
  [][current # None /\ current' # current /\ ~pending.force /\ sound
       => ~Exceeds(current, current')]_vars
=============================================================================
