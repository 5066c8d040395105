--------------------------- MODULE PricingProofs ----------------------------
(***************************************************************************)
(* Proofs about the prices of an in-app purchase (IapPricing) and of a     *)
(* subscription (SubPrice), for every set of territories, prices and       *)
(* callers.  Of the in-app purchase: what is about to be sent is the       *)
(* accepted items laid over the cached rows the request started from       *)
(* (Prepared); the rest follows from what Apple does with a schedule.  A   *)
(* lone apply that found the cache empty has seen that Apple is empty too  *)
(* (CheckedFirst).  Of the subscription: a change that was judged against  *)
(* the price in effect still is when it takes effect (PlanIsJudged).       *)
(***************************************************************************)
EXTENDS MCPricing, FiniteSetTheorems, TLAPS

-----------------------------------------------------------------------------
(* IapPricing                                                              *)

\* What an apply is about to send, and its base.
Prepared ==
  \A a \in Apply : pc[a] = "submit" =>
    /\ entries[a] = [t \in Territory |-> IF items[a][t] # None THEN items[a][t]
                                        ELSE snapPoint[a][t]]
    /\ entries[a] # NoPrices
    /\ entryBase[a] \in Priced(entries[a])

IInv == TypeOK /\ Prepared

\* A schedule that is not empty has a territory to be the base.
LEMMA PricedSome ==
  ASSUME NEW p \in Prices, p # NoPrices
  PROVE  Priced(p) # {}
  <1>1. PICK t \in Territory : p[t] # None
    BY DEF Prices, NoPrices
  <1> QED BY <1>1 DEF Priced

LEMMA PricesFacts ==
  /\ NoPrices \in Prices
  /\ None \notin Price
  /\ \A p \in Prices : p = NoPrices <=> Priced(p) = {}
  BY PricedSome, PriceAssumption DEF NoPrices, Prices, None, Priced

\* The schedule of an apply: a price map, and what Prepared says of it.
LEMMA ScheduleFacts ==
  ASSUME TypeOK, NEW a \in Apply, NEW accepted \in SUBSET Priced(items[a])
  PROVE  /\ Schedule(a, accepted) \in Prices
         /\ \A m \in Prices :
              m = [t \in Territory |-> IF t \in accepted THEN items[a][t] ELSE None] =>
                Schedule(a, accepted) =
                  [t \in Territory |-> IF m[t] # None THEN m[t] ELSE snapPoint[a][t]]
  <1>1. items[a] \in Prices /\ snapPoint[a] \in Prices
    BY DEF TypeOK
  <1>2. \A t \in accepted : t \in Territory /\ items[a][t] # None
    BY DEF Priced
  <1> QED BY <1>1, <1>2 DEF Schedule, Prices

\* The fields of one request, reset.
LEMMA ResetType ==
  ASSUME TypeOK, NEW a \in Apply, Reset(a)
  PROVE  /\ pc' \in [Apply -> {"idle", "check", "resolve", "submit"}]
         /\ items' \in [Apply -> Prices] /\ forced' \in [Apply -> SUBSET Territory]
         /\ snapPoint' \in [Apply -> Prices] /\ snapPrice' \in [Apply -> Prices]
         /\ entries' \in [Apply -> Prices]
         /\ entryBase' \in [Apply -> Territory \cup {"none"}]
  BY PricesFacts DEF TypeOK, Reset

LEMMA ResetPrepared ==
  ASSUME TypeOK, Prepared, NEW a \in Apply, Reset(a)
  PROVE  Prepared'
  BY ZenonT(120) DEF TypeOK, Reset, Prepared, NoPrices, Priced

\* No schedule has been prepared before the first apply (iap.py): the invariant holds.
THEOREM InitHolds == Init => IInv
  <1> SUFFICES ASSUME Init PROVE IInv
    OBVIOUS
  <1>1. TypeOK
    BY PricesFacts, EditsAssumption DEF Init, TypeOK
  <1>2. Prepared
    BY DEF Init, Prepared
  <1> QED BY <1>1, <1>2 DEF IInv

\* One case per action.
THEOREM StepHolds == IInv /\ [Next]_vars => IInv'
  <1> SUFFICES ASSUME IInv, [Next]_vars PROVE IInv'
    OBVIOUS
  <1> USE DEF IInv
  <1>1. CASE Edit
    <2>1. Priced(manual') # {} /\ manual' # NoPrices /\ base' \in BasesOf(manual')
      BY <1>1, PricesFacts DEF Edit, BasesOf
    <2>2. edits' \in 0..MaxEdits
      BY <1>1, EditsAssumption DEF Edit, TypeOK
    <2>3. TypeOK'
      BY <1>1, <2>1, <2>2 DEF Edit, TypeOK, cacheVars, syncVars, applyVars
    <2>4. Prepared'
      BY <1>1 DEF Edit, Prepared, applyVars
    <2> QED BY <2>3, <2>4
  <1>2. ASSUME NEW s \in Sync, ReadSchedule(s) PROVE IInv'
    <2>1. seen' \in [Sync -> Prices] /\ known' \in [Sync -> SUBSET Territory]
      BY <1>2 DEF ReadSchedule, TypeOK, Priced
    <2>2. syncPc' \in [Sync -> {"idle", "write"}]
      BY <1>2 DEF ReadSchedule, TypeOK
    <2>3. TypeOK'
      BY <1>2, <2>1, <2>2 DEF ReadSchedule, TypeOK, appleVars, cacheVars, applyVars
    <2>4. Prepared'
      BY <1>2 DEF ReadSchedule, Prepared, applyVars
    <2> QED BY <2>3, <2>4
  <1>3. ASSUME NEW s \in Sync, WriteRows(s) \/ AbortSync(s) PROVE IInv'
    <2>1. point' \in Prices /\ price' \in Prices
      <3>1. CASE WriteRows(s)
        <4>1. seen[s] \in Prices /\ point \in Prices /\ price \in Prices
          BY DEF TypeOK
        <4> QED BY <3>1, <4>1, SMTT(30) DEF WriteRows, Prices
      <3>2. CASE AbortSync(s)
        BY <3>2 DEF AbortSync, TypeOK, cacheVars
      <3> QED BY <1>3, <3>1, <3>2
    <2>2. /\ syncPc' \in [Sync -> {"idle", "write"}]
          /\ seen' \in [Sync -> Prices] /\ known' \in [Sync -> SUBSET Territory]
      BY <1>3, PricesFacts DEF WriteRows, AbortSync, Forget, TypeOK
    <2>3. TypeOK'
      BY <1>3, <2>1, <2>2 DEF WriteRows, AbortSync, TypeOK, appleVars, applyVars
    <2>4. Prepared'
      BY <1>3 DEF WriteRows, AbortSync, Prepared, applyVars
    <2> QED BY <2>3, <2>4
  <1>4. ASSUME NEW a \in Apply, StartApply(a) PROVE IInv'
    <2>1. /\ items' \in [Apply -> Prices] /\ forced' \in [Apply -> SUBSET Territory]
          /\ snapPoint' \in [Apply -> Prices] /\ snapPrice' \in [Apply -> Prices]
      BY <1>4 DEF StartApply, TypeOK, Priced
    <2>2. pc' \in [Apply -> {"idle", "check", "resolve", "submit"}]
      BY <1>4 DEF StartApply, TypeOK
    <2>3. TypeOK'
      BY <1>4, <2>1, <2>2 DEF StartApply, TypeOK, appleVars, cacheVars, syncVars
    <2>4. Prepared'
      BY <1>4 DEF StartApply, Prepared, TypeOK
    <2> QED BY <2>3, <2>4
  <1>5. ASSUME NEW a \in Apply, CheckReplaceable(a) PROVE IInv'
    <2>1. CASE Reset(a)
      <3>1. Prepared'
        BY <2>1, ResetPrepared
      <3>2. TypeOK'
        BY <1>5, <2>1, ResetType
           DEF CheckReplaceable, TypeOK, appleVars, cacheVars, syncVars
      <3> QED BY <3>1, <3>2
    <2>2. CASE /\ GotoResolve(a)
               /\ UNCHANGED <<items, forced, snapPoint, snapPrice, entries, entryBase>>
      <3>1. Prepared'
        BY <2>2 DEF Prepared, GotoResolve, TypeOK
      <3>2. TypeOK'
        BY <1>5, <2>2
           DEF CheckReplaceable, GotoResolve, TypeOK, appleVars, cacheVars, syncVars
      <3> QED BY <3>1, <3>2
    <2> QED BY <1>5, <2>1, <2>2 DEF CheckReplaceable
  <1>6. ASSUME NEW a \in Apply, ResolveItems(a) PROVE IInv'
    <2>1. CASE Reset(a)
      <3>1. Prepared'
        BY <2>1, ResetPrepared
      <3>2. TypeOK'
        BY <1>6, <2>1, ResetType
           DEF ResolveItems, TypeOK, appleVars, cacheVars, syncVars
      <3> QED BY <3>1, <3>2
    <2>2. CASE ~Reset(a)
      <3>1. PICK resolved \in SUBSET Priced(items[a]) :
              LET accepted == {t \in resolved : ~Skips(a, t)}
                  schedule == Schedule(a, accepted)
              IN  /\ schedule # NoPrices
                  /\ entries' = [entries EXCEPT ![a] = schedule]
                  /\ \E asked \in Territory : \E b \in Bases(schedule, asked) :
                       entryBase' = [entryBase EXCEPT ![a] = b]
                  /\ items' = [items EXCEPT ![a] =
                       [t \in Territory |-> IF t \in accepted THEN items[a][t] ELSE None]]
                  /\ pc' = [pc EXCEPT ![a] = "submit"]
                  /\ snapPrice' = [snapPrice EXCEPT ![a] = NoPrices]
                  /\ UNCHANGED <<forced, snapPoint>>
        BY <1>6, <2>2 DEF ResolveItems
      <3> DEFINE accepted == {t \in resolved : ~Skips(a, t)}
                 schedule == Schedule(a, accepted)
                 sent == [t \in Territory |-> IF t \in accepted THEN items[a][t] ELSE None]
      <3>2. accepted \in SUBSET Priced(items[a])
        OBVIOUS
      <3>3. sent \in Prices
        BY DEF TypeOK, Prices
      <3>4. /\ schedule \in Prices
            /\ schedule = [t \in Territory |-> IF sent[t] # None THEN sent[t]
                                              ELSE snapPoint[a][t]]
        <4> HIDE DEF accepted
        <4> QED BY <3>2, <3>3, ScheduleFacts
      <3>5. PICK asked \in Territory : \E b \in Bases(schedule, asked) :
              entryBase' = [entryBase EXCEPT ![a] = b]
        BY <3>1
      <3>6. PICK b \in Priced(schedule) : entryBase' = [entryBase EXCEPT ![a] = b]
        BY <3>5 DEF Bases
      <3>7. /\ schedule # NoPrices
            /\ entries' = [entries EXCEPT ![a] = schedule]
            /\ items' = [items EXCEPT ![a] = sent]
            /\ pc' = [pc EXCEPT ![a] = "submit"]
            /\ snapPrice' = [snapPrice EXCEPT ![a] = NoPrices]
            /\ UNCHANGED <<forced, snapPoint>>
        BY <3>1
      <3> HIDE DEF accepted, schedule, sent
      <3>8. /\ items' \in [Apply -> Prices] /\ entries' \in [Apply -> Prices]
            /\ snapPrice' \in [Apply -> Prices]
        BY <3>3, <3>4, <3>7, PricesFacts DEF TypeOK
      <3>9. entryBase' \in [Apply -> Territory \cup {"none"}]
        BY <3>6 DEF TypeOK, Priced
      <3>10. pc' \in [Apply -> {"idle", "check", "resolve", "submit"}]
        BY <3>7 DEF TypeOK
      <3>11. TypeOK'
        BY <1>6, <3>7, <3>8, <3>9, <3>10
           DEF ResolveItems, TypeOK, appleVars, cacheVars, syncVars
      <3>12. Prepared'
        BY SMTT(60), <3>4, <3>6, <3>7 DEF Prepared, TypeOK, Priced
      <3> QED BY <3>11, <3>12
    <2> QED BY <2>1, <2>2
  <1>7. ASSUME NEW a \in Apply, Submit(a) PROVE IInv'
    <2>1. Prepared'
      BY <1>7, ResetPrepared DEF Submit
    <2>2. CASE Takes(a)
      <3>1. entries[a] # NoPrices /\ entryBase[a] \in Priced(entries[a])
        BY <1>7 DEF Submit, Prepared
      <3>2. manual' \in Prices /\ base' \in BasesOf(manual')
        BY <2>2, <3>1 DEF Takes, TypeOK, BasesOf
      <3>3. TypeOK'
        BY <1>7, <3>2, ResetType DEF Submit, TypeOK, cacheVars, syncVars
      <3> QED BY <2>1, <3>3
    <2>3. CASE UNCHANGED <<manual, base>>
      <3>1. TypeOK'
        BY <1>7, <2>3, ResetType DEF Submit, TypeOK, cacheVars, syncVars
      <3> QED BY <2>1, <3>1
    <2> QED BY <1>7, <2>2, <2>3 DEF Submit
  <1>8. ASSUME NEW a \in Apply, AbortApply(a) PROVE IInv'
    <2>1. Prepared'
      BY <1>8, ResetPrepared DEF AbortApply
    <2>2. TypeOK'
      BY <1>8, ResetType DEF AbortApply, TypeOK, appleVars, cacheVars, syncVars
    <2> QED BY <2>1, <2>2
  <1>9. CASE UNCHANGED vars
    BY <1>9 DEF vars, TypeOK, Prepared
  <1> QED
    BY <1>1, <1>2, <1>3, <1>4, <1>5, <1>6, <1>7, <1>8, <1>9 DEF Next

\* However applies overlap, a schedule that is about to be sent has a price for its base.
THEOREM InductiveInvariant == Spec => []IInv
  <1> QED BY InitHolds, StepHolds, PTL DEF Spec

\* Types, and the base of Apple's schedule always has a price of its own.
THEOREM TypesHold == Spec => []TypeOK
  <1>1. IInv => TypeOK
    BY DEF IInv
  <1> QED BY <1>1, InductiveInvariant, PTL

\* No apply sends a schedule that Apple would refuse for its base.
THEOREM BaseAlwaysSent == Spec => []BaseIsSent
  <1>1. IInv => BaseIsSent
    BY DEF IInv, Prepared, BaseIsSent, Priced
  <1> QED BY <1>1, InductiveInvariant, PTL

\* When a step of a request reaches Apple, Apple has what was prepared.
LEMMA SubmitsPrepared ==
  ASSUME IInv, [Next]_vars, NEW a \in Apply, Submits(a)
  PROVE  manual' = [t \in Territory |-> IF items[a][t] # None THEN items[a][t]
                                       ELSE snapPoint[a][t]]
  <1>1. Submit(a)
    <2>1. pc[a] = "submit" /\ pc'[a] = "idle" /\ manual' # manual
      BY DEF Submits
    <2>2. ~Edit /\ vars' # vars
      BY <2>1 DEF Edit, applyVars, vars
    <2>3. \A s \in Sync : ~ReadSchedule(s) /\ ~WriteRows(s) /\ ~AbortSync(s)
      BY <2>1 DEF ReadSchedule, WriteRows, AbortSync, appleVars
    <2>4. \A b \in Apply : /\ ~StartApply(b) /\ ~CheckReplaceable(b)
                         /\ ~ResolveItems(b) /\ ~AbortApply(b)
      BY <2>1 DEF StartApply, CheckReplaceable, ResolveItems, AbortApply, appleVars
    <2>5. PICK b \in Apply : Submit(b)
      BY <2>2, <2>3, <2>4 DEF Next
    <2>6. b = a
      BY <2>1, <2>5 DEF Submit, Reset, IInv, TypeOK
    <2> QED BY <2>5, <2>6
  <1>2. manual' = entries[a]
    BY <1>1 DEF Submits, Submit, Takes
  <1> QED BY <1>2 DEF IInv, Prepared, Submits

\* An apply takes a manual price away only where its cache had no row.
THEOREM OnlyUncachedLost == Spec => OnlyUncachedPricesAreLost
  <1>1. IInv /\ [Next]_vars =>
          [\A a \in Apply, t \in Territory :
             Submits(a) /\ manual[t] # None /\ manual'[t] = None
               => snapPoint[a][t] = None]_vars
    BY SubmitsPrepared
  <1> QED BY <1>1, InductiveInvariant, PTL DEF Spec, OnlyUncachedPricesAreLost

\* With a cache that was right, an apply changes exactly the accepted items.
THEOREM FreshApplyExact == Spec => FreshApplyIsExact
  <1>1. IInv /\ [Next]_vars =>
          [\A a \in Apply : Submits(a) /\ snapPoint[a] = manual =>
             \A t \in Territory :
               manual'[t] = IF items[a][t] # None THEN items[a][t] ELSE manual[t]]_vars
    BY SubmitsPrepared
  <1> QED BY <1>1, InductiveInvariant, PTL DEF Spec, FreshApplyIsExact
\* A lone apply is past the check only if there was nothing to lose.
LoneApply == \E a \in Apply : Apply = {a}
CheckedFirst ==
  edits = 0 /\ LoneApply =>
    \A a \in Apply : pc[a] \in {"resolve", "submit"} /\ snapPoint[a] = NoPrices => manual = NoPrices

\* Every step keeps that: only the apply itself writes, and it is done then.
LEMMA CheckKeeps == ASSUME IInv, CheckedFirst, [Next]_vars PROVE CheckedFirst'
  <1> SUFFICES ASSUME edits' = 0, LoneApply, NEW a \in Apply, pc'[a] \in {"resolve", "submit"},
                      snapPoint'[a] = NoPrices
               PROVE  manual' = NoPrices
    BY DEF CheckedFirst, LoneApply, NoPrices
  <1> USE DEF IInv, TypeOK
  <1>1. \A b \in Apply : b = a
    BY DEF LoneApply
  <1>2. CASE Edit
    BY <1>2, EditsAssumption DEF Edit
  <1>3. CASE UNCHANGED vars \/ \E s \in Sync : ReadSchedule(s) \/ WriteRows(s) \/ AbortSync(s)
    <2>1. UNCHANGED <<appleVars, applyVars>>
      BY <1>3 DEF vars, appleVars, applyVars, ReadSchedule, WriteRows, AbortSync
    <2> QED BY <2>1 DEF appleVars, applyVars, CheckedFirst
  <1>4. CASE StartApply(a)
    BY <1>4 DEF StartApply
  <1>5. CASE CheckReplaceable(a)
    BY <1>5 DEF CheckReplaceable, GotoResolve, Reset, appleVars
  <1>6. CASE ResolveItems(a)
    BY <1>6 DEF ResolveItems, Reset, appleVars, CheckedFirst
  <1>7. CASE Submit(a) \/ AbortApply(a)
    BY <1>7 DEF Submit, AbortApply, Reset
  <1> QED BY <1>1, <1>2, <1>3, <1>4, <1>5, <1>6, <1>7 DEF Next

\* A lone apply that found the cache empty takes no price away that exists, as long as
\* nobody edits the schedule (_assert_iap_schedule_replaceable, api/v1/pricing.py).
THEOREM EmptyCacheIsSafe == ASSUME IsFiniteSet(Apply) PROVE Spec => EmptyCacheNeverWipes
  <1>1. Init => CheckedFirst
    BY DEF Init, CheckedFirst
  <1>2. IInv /\ CheckedFirst /\ [Next]_vars => CheckedFirst'
    BY CheckKeeps
  <1>3. CheckedFirst =>
          [\A a \in Apply : Submits(a) /\ snapPoint[a] = NoPrices =>
             manual = NoPrices \/ edits # 0 \/ Cardinality(Apply) # 1]_vars
    <2>1. Cardinality(Apply) = 1 => LoneApply
      BY FS_Singleton DEF LoneApply
    <2> QED BY <2>1 DEF CheckedFirst, Submits
  <1> QED BY <1>1, <1>2, <1>3, InductiveInvariant, PTL DEF Spec, EmptyCacheNeverWipes

-----------------------------------------------------------------------------
(* SubPrice.  A change that was judged by a row that showed the price in   *)
(* effect was judged against the price it replaces: only midnight changes  *)
(* the price in effect, and midnight uses the change up.                   *)

\* Prices are amounts of money.
SubSetting == SubPrices \subseteq Nat \ {0}

\* An apply asks for a price, and a row is only there for a priced territory.
ReadsAreOfPrices ==
  /\ cached # 0 => current # 0
  /\ \A a \in SubApplies :
       /\ snap[a] # 0 => current # 0
       /\ subPc[a] = "item" => item[a].price \in SubPrices

\* What is planned for tomorrow and was soundly judged was judged against the
\* price of today.
PlanIsJudged ==
  pending # Sub!NoChange =>
    /\ current # 0 /\ pending.price \in SubPrices
    /\ sound /\ pending.keep => pending.price > current
    /\ sound /\ ~pending.force => ~Sub!Exceeds(current, pending.price)

\* The inductive invariant of the price of one territory.
SubInv == Sub!TypeOK /\ ReadsAreOfPrices /\ PlanIsJudged /\ PaysMoreOnlyIfMisled

\* At first the price paid and the price in effect are one, and nothing is planned.
LEMMA SubInitially == ASSUME SubSetting PROVE Sub!Init => SubInv
  <1> SUFFICES ASSUME Sub!Init PROVE SubInv
    OBVIOUS
  <1>1. Sub!TypeOK
    BY DEF Sub!Init, Sub!TypeOK, Sub!Some, Sub!None, Sub!NoItem, Sub!NoChange, Sub!Item, Sub!Change
  <1>2. ReadsAreOfPrices /\ PlanIsJudged
    BY DEF Sub!Init, ReadsAreOfPrices, PlanIsJudged, Sub!None
  <1>3. ~(paid > current)
    BY DEF Sub!Init, SubSetting, Sub!Some, Sub!None
  <1> QED BY <1>1, <1>2, <1>3 DEF SubInv, PaysMoreOnlyIfMisled, Sub!PaysMoreOnlyIfMisled

\* What one day changes of the price in effect, if it was soundly judged.
DayInBand ==
  current # 0 /\ current' # current /\ ~pending.force /\ sound
    => ~Sub!Exceeds(current, current')

\* Midnight brings what was planned.  Who pays more than the new price is kept
\* by this plan: either it was not judged soundly, or it went up and they paid
\* more than the old price already.
LEMMA MidnightHolds ==
  ASSUME SubSetting, SubInv, Sub!Midnight PROVE SubInv' /\ DayInBand
  <1> USE DEF SubSetting, Sub!None
  <1>0. /\ current \in SubPrices \cup {0} /\ paid \in SubPrices \cup {0}
        /\ pending \in Sub!Change /\ sound \in BOOLEAN /\ misled \in BOOLEAN
        /\ (current = 0) = (paid = 0) /\ (paid > current => misled)
    BY DEF SubInv, Sub!TypeOK, Sub!Some, PaysMoreOnlyIfMisled, Sub!PaysMoreOnlyIfMisled
  <1>1. /\ pending # Sub!NoChange /\ pending' = Sub!NoChange
        /\ current' = pending.price /\ current # 0 /\ pending.price \in SubPrices
        /\ paid' = IF pending.keep THEN paid ELSE pending.price
        /\ misled' = (pending.keep /\ (misled \/ ~sound)) /\ sound' = TRUE
        /\ UNCHANGED <<cached, subPc, item, snap>>
    BY DEF Sub!Midnight, SubInv, PlanIsJudged
  <1>2. pending.keep \in BOOLEAN /\ (sound /\ pending.keep => pending.price > current)
    BY <1>0, <1>1 DEF SubInv, PlanIsJudged, Sub!Change
  <1>3. Sub!TypeOK'
    BY <1>0, <1>1, <1>2 DEF SubInv, Sub!TypeOK, Sub!Some, Sub!NoChange, Sub!Change
  <1>4. ReadsAreOfPrices' /\ PlanIsJudged'
    BY <1>1 DEF SubInv, ReadsAreOfPrices, PlanIsJudged
  <1>5. PaysMoreOnlyIfMisled'
    <2>1. paid \in Nat /\ current \in Nat /\ pending.price \in Nat
      BY <1>0, <1>1
    <2>2. CASE pending.keep /\ sound
      <3>1. paid' > current' => paid > current
        BY <1>1, <1>2, <2>1, <2>2
      <3> QED BY <1>0, <1>1, <2>2, <3>1 DEF PaysMoreOnlyIfMisled, Sub!PaysMoreOnlyIfMisled
    <2>3. CASE pending.keep /\ ~sound
      BY <1>1, <2>3 DEF PaysMoreOnlyIfMisled, Sub!PaysMoreOnlyIfMisled
    <2>4. CASE ~pending.keep
      <3>1. ~(paid' > current')
        BY <1>1, <2>1, <2>4
      <3> QED BY <3>1 DEF PaysMoreOnlyIfMisled, Sub!PaysMoreOnlyIfMisled
    <2> QED BY <1>2, <2>2, <2>3, <2>4
  <1>6. DayInBand
    BY <1>1 DEF DayInBand, SubInv, PlanIsJudged
  <1> QED BY <1>3, <1>4, <1>5, <1>6 DEF SubInv

\* An item that is taken becomes the plan; it is sound if the row its apply had
\* read showed the price in effect.
LEMMA ItemHolds ==
  ASSUME SubSetting, SubInv, NEW a \in SubApplies, Sub!ApplyItem(a) PROVE SubInv' /\ DayInBand
  <1> USE DEF SubSetting, Sub!None
  <1>0. /\ current \in SubPrices \cup {0} /\ paid \in SubPrices \cup {0} /\ cached \in SubPrices \cup {0}
        /\ snap[a] \in SubPrices \cup {0}
        /\ pending \in Sub!Change /\ sound \in BOOLEAN /\ misled \in BOOLEAN
        /\ (current = 0) = (paid = 0) /\ (paid > current => misled)
    BY DEF SubInv, Sub!TypeOK, Sub!Some, PaysMoreOnlyIfMisled, Sub!PaysMoreOnlyIfMisled
  <1>1. /\ subPc[a] = "item" /\ item[a] \in Sub!Item /\ item[a].price \in SubPrices
        /\ (snap[a] # 0 => current # 0) /\ UNCHANGED <<cached, misled>>
    BY DEF Sub!ApplyItem, SubInv, Sub!TypeOK, ReadsAreOfPrices
  <1>2. /\ subPc' = [subPc EXCEPT ![a] = "idle"]
        /\ item' = [item EXCEPT ![a] = Sub!NoItem] /\ snap' = [snap EXCEPT ![a] = 0]
    BY DEF Sub!ApplyItem, Sub!Finish
  <1>3. CASE UNCHANGED <<current, pending, paid, sound>>
    BY <1>1, <1>2, <1>3 DEF SubInv, Sub!TypeOK, ReadsAreOfPrices, PlanIsJudged, DayInBand,
       PaysMoreOnlyIfMisled, Sub!PaysMoreOnlyIfMisled, Sub!Item, Sub!NoItem, Sub!Some
  <1>4. CASE Sub!Post(a) /\ snap[a] = 0
    <2>1. /\ current = 0 /\ current' = item[a].price /\ paid' = item[a].price
          /\ UNCHANGED <<pending, sound>>
      BY <1>4 DEF Sub!Post, Sub!Undated
    <2>2. pending = Sub!NoChange
      BY <2>1 DEF SubInv, PlanIsJudged
    <2>3. Sub!TypeOK'
      BY <1>0, <1>1, <1>2, <2>1 DEF SubInv, Sub!TypeOK, Sub!Item, Sub!NoItem, Sub!Some
    <2>4. ReadsAreOfPrices'
      BY <1>1, <1>2, <2>1 DEF SubInv, Sub!TypeOK, ReadsAreOfPrices
    <2>5. item[a].price \in Nat
      BY <1>1
    <2>6. PlanIsJudged' /\ PaysMoreOnlyIfMisled' /\ DayInBand
      BY <2>1, <2>2, <2>5 DEF PlanIsJudged, PaysMoreOnlyIfMisled, Sub!PaysMoreOnlyIfMisled, DayInBand
    <2> QED BY <2>3, <2>4, <2>6 DEF SubInv
  <1>5. CASE Sub!Post(a) /\ ~Sub!Skips(a) /\ snap[a] # 0
    <2> DEFINE new == [price |-> item[a].price, keep |-> Sub!Keeps(a), force |-> item[a].force]
    <2>1. /\ pending' = new /\ UNCHANGED <<current, paid>> /\ current # 0
          /\ sound' = (snap[a] = current)
      BY <1>1, <1>5 DEF Sub!Post, Sub!Undated, Sub!InEffect
    <2>2. /\ Sub!Keeps(a) \in BOOLEAN /\ item[a].force \in BOOLEAN
          /\ (Sub!Keeps(a) => item[a].price > snap[a])
          /\ (~item[a].force => ~Sub!Exceeds(snap[a], item[a].price))
      BY <1>1, <1>5 DEF Sub!Keeps, Sub!Item, Sub!Skips
    <2>3. /\ new \in Sub!Change /\ new.price = item[a].price
          /\ (sound' /\ new.keep => item[a].price > current)
          /\ (sound' /\ ~new.force => ~Sub!Exceeds(current, item[a].price))
      BY <1>1, <2>1, <2>2 DEF Sub!Change, Sub!Some
    <2> HIDE DEF new
    <2>4. Sub!TypeOK'
      BY <1>0, <1>1, <1>2, <2>1, <2>3 DEF SubInv, Sub!TypeOK, Sub!Item, Sub!NoItem, Sub!Some
    <2>5. ReadsAreOfPrices' /\ DayInBand
      BY <1>1, <1>2, <2>1 DEF SubInv, Sub!TypeOK, ReadsAreOfPrices, DayInBand
    <2>6. PlanIsJudged' /\ PaysMoreOnlyIfMisled'
      BY <1>0, <1>1, <2>1, <2>3 DEF PlanIsJudged, PaysMoreOnlyIfMisled, Sub!PaysMoreOnlyIfMisled
    <2> QED BY <2>4, <2>5, <2>6 DEF SubInv
  <1> QED BY <1>3, <1>4, <1>5 DEF Sub!ApplyItem, Sub!appleVars

\* Every step keeps the invariant, and no soundly judged day leaves the band.
LEMMA SubStepHolds ==
  ASSUME SubSetting, SubInv, [Sub!Next]_(Sub!vars)
  PROVE  SubInv' /\ (Sub!vars' = Sub!vars \/ DayInBand)
  <1> USE DEF Sub!None
  <1>1. CASE UNCHANGED Sub!vars
    BY <1>1 DEF Sub!vars, SubInv, Sub!TypeOK, ReadsAreOfPrices, PlanIsJudged,
       PaysMoreOnlyIfMisled, Sub!PaysMoreOnlyIfMisled
  <1>2. CASE Sub!SyncPrices
    BY <1>2 DEF Sub!SyncPrices, Sub!InEffect, Sub!appleVars, Sub!history, SubInv, Sub!TypeOK,
       ReadsAreOfPrices, PlanIsJudged, PaysMoreOnlyIfMisled, Sub!PaysMoreOnlyIfMisled, DayInBand
  <1>3. ASSUME NEW a \in SubApplies, Sub!StartApply(a) PROVE SubInv' /\ DayInBand
    BY <1>3 DEF Sub!StartApply, Sub!appleVars, Sub!history, SubInv, Sub!TypeOK, ReadsAreOfPrices,
       PlanIsJudged, PaysMoreOnlyIfMisled, Sub!PaysMoreOnlyIfMisled, DayInBand, Sub!Item, Sub!Some
  <1> QED BY <1>1, <1>2, <1>3, MidnightHolds, ItemHolds DEF Sub!Next

\* When the in-app purchase moves, the subscription rests.
LEMMA SubMoves ==
  ASSUME [MCNext]_<<part, vars, subVars>> PROVE [Sub!Next]_(Sub!vars)
  BY DEF MCNext, IapStep, SubStep, subVars, Sub!vars

\* docs/021 says "Decreases always reach everyone, flag or not": who pays more
\* than the price in effect all the same was let keep a price by an apply whose
\* row did not show the price in effect when it wrote, however many applies,
\* syncs and days followed each other and overlapped.
THEOREM OnlyMisledPayMore == ASSUME SubSetting PROVE MCSpec => []PaysMoreOnlyIfMisled
  <1>1. MCInit => SubInv
    BY SubInitially DEF MCInit
  <1>2. SubInv /\ [MCNext]_<<part, vars, subVars>> => SubInv'
    BY SubMoves, SubStepHolds
  <1>3. SubInv => PaysMoreOnlyIfMisled
    BY DEF SubInv
  <1> QED BY <1>1, <1>2, <1>3, PTL DEF MCSpec

\* An unforced change of more than half from one day to the next takes an apply
\* whose row did not show the price in effect when it wrote
\* (apply_subscription_prices, safety_skip_item).
THEOREM OnlyMisjudgedLeaveBand == ASSUME SubSetting PROVE MCSpec => LeavesBandOnlyIfMisjudged
  <1>1. MCInit => SubInv
    BY SubInitially DEF MCInit
  <1>2. SubInv /\ [MCNext]_<<part, vars, subVars>>
          => SubInv' /\ [current # Sub!None /\ current' # current /\ ~pending.force /\ sound
                           => ~Sub!Exceeds(current, current')]_(Sub!vars)
    BY SubMoves, SubStepHolds DEF Sub!None, DayInBand
  <1> QED BY <1>1, <1>2, PTL DEF MCSpec, LeavesBandOnlyIfMisjudged, Sub!LeavesBandOnlyIfMisjudged
=============================================================================
