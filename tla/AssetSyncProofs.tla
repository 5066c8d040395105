--------------------------- MODULE AssetSyncProofs ---------------------------
(***************************************************************************)
(* Proofs about AssetSync for any number of syncs, any export and any page *)
(* Apple's cap allows.  The inductive invariant says of the sync that has  *)
(* the lock what its plan is worth: the set is what it has placed and what *)
(* it has yet to come to (AllThere), and every asset it has placed stands  *)
(* for the file of its slot (Placed); both by the ids, which are never     *)
(* given twice.  So once the last slot is done and the order is accepted,  *)
(* the set is the export.                                                  *)
(***************************************************************************)
EXTENDS AssetSync, FiniteSetTheorems, SequenceTheorems, TLAPS

\* From the first slot on, a sync goes by a plan.
Working == {"slot", "upload", "replan", "read_back"}
\* A sync here has not written anything.
Quiet == {"idle", "bound", "scan", "refused"}

DistinctIds(seq) == \A i, j \in DOMAIN seq : seq[i].id = seq[j].id => i = j

\* A page without the localization shows nothing.
Unlocalized == ~localized => assets = <<>>

\* What a sync found missing is still missing while no other has written.
NoSetYet ==
  \A s \in Sync : pc[s] # "idle" /\ localization[s] = "missing"
      /\ (\A q \in Sync \ {s} : pc[q] \in Quiet) => assets = <<>>

\* Outside of an apply nothing is planned.
Blank(s) == pc[s] \notin Working => existing[s] = <<>> /\ order[s] = <<>> /\ slot[s] = 1

\* The assets of the plan that the sync has not come to.
Rest(s) == {existing[s][i].id : i \in {j \in DOMAIN existing[s] :
                                   j > slot[s] \/ (j = slot[s] /\ pc[s] = "slot")}}

\* The books of a plan: no id is in it twice, none is both placed and to come,
\* and an id stands for one file, in the plan and in the set.
PlanBooks(s) ==
  /\ DistinctIds(existing[s])
  /\ \A i, j \in DOMAIN order[s] : order[s][i] = order[s][j] => i = j
  /\ \A i \in DOMAIN existing[s] : i >= slot[s] => existing[s][i].id \notin Names(order[s])
  /\ \A i \in DOMAIN assets, j \in DOMAIN existing[s] :
       assets[i].id = existing[s][j].id => assets[i].file = existing[s][j].file

\* An asset that a clean sync may leave in a slot.
Stands(s, a, i) ==
  \/ a.file = export[s][i]
  \/ /\ i \in DOMAIN existing[s] /\ existing[s][i].id = a.id
     /\ existing[s][i].state = "withheld" /\ Look[a.file] = Look[export[s][i]]

\* The slots before the current one are done: as many as have a file, each by an
\* asset that stands for it.
Placed(s) ==
  pc[s] \in {"slot", "upload"} =>
    /\ slot[s] <= Len(export[s]) => Len(order[s]) = slot[s] - 1
    /\ slot[s] > Len(export[s]) => Len(order[s]) = Len(export[s]) /\ pc[s] = "slot"
    /\ \A i \in DOMAIN order[s], j \in DOMAIN assets :
         assets[j].id = order[s][i] => Stands(s, assets[j], i)

\* NothingUnplanned, of one sync.
AllThere(s) ==
  pc[s] \in {"slot", "upload"} /\ Fresh(s) => Ids(assets) = Names(order[s]) \cup Rest(s)

\* CleanSyncShowsExport, of one sync.
Clean(s) ==
  pc[s] = "read_back" /\ ~failed[s] /\ Fresh(s) =>
    Len(assets) = Len(export[s]) /\ \A i \in DOMAIN assets : Stands(s, assets[i], i)

Plan(s) == Blank(s) /\ PlanBooks(s) /\ Placed(s) /\ AllThere(s) /\ Clean(s)

\* The inductive invariant.
SyncInv ==
  /\ TypeOK /\ LockHasOneHolder /\ DistinctIds(assets) /\ Unlocalized /\ NoSetYet
  /\ \A s \in Sync : Plan(s)

-----------------------------------------------------------------------------
(* Sequences, ids and the environment *)

\* What a sequence is made of.
LEMMA Elements ==
  ASSUME NEW S, NEW seq \in Seq(S)
  PROVE  /\ Len(seq) \in Nat /\ DOMAIN seq = 1..Len(seq)
         /\ \A i \in DOMAIN seq : seq[i] \in S
  BY LenProperties, ElementOfSeq

\* The ids of a listing are Apple's.
LEMMA IdsAreIds == ASSUME NEW seq \in Seq(Asset) PROVE Ids(seq) \subseteq Id
  <1>1. \A i \in DOMAIN seq : seq[i] \in Asset
    BY Elements
  <1>2. \A a \in Asset : a.id \in Id
    BY DEF Asset
  <1> QED BY <1>1, <1>2 DEF Ids

\* A sequence without its element k.
Removed(seq, k) == SubSeq(seq, 1, k - 1) \o SubSeq(seq, k + 1, Len(seq))

\* The elements after it move up.
LEMMA RemovedAt ==
  ASSUME NEW S, NEW seq \in Seq(S), NEW k \in 1..Len(seq), NEW w, w = Removed(seq, k)
  PROVE  /\ w \in Seq(S) /\ Len(w) = Len(seq) - 1
         /\ \A i \in 1..Len(w) : w[i] = IF i < k THEN seq[i] ELSE seq[i + 1]
  <1> DEFINE l == SubSeq(seq, 1, k - 1)  r == SubSeq(seq, k + 1, Len(seq))
  <1>0. k \in Nat /\ Len(seq) \in Nat /\ k <= Len(seq) /\ 1 <= k
    BY LenProperties
  <1>1. l \in Seq(S) /\ Len(l) = k - 1 /\ \A i \in 1..(k - 1) : l[i] = seq[i]
    BY <1>0, SubSeqProperties
  <1>2. r \in Seq(S) /\ Len(r) = Len(seq) - k /\ \A i \in 1..(Len(seq) - k) : r[i] = seq[k + i]
    BY <1>0, SubSeqProperties
  <1> HIDE DEF l, r
  <1>3. /\ l \o r \in Seq(S) /\ Len(l \o r) = Len(l) + Len(r)
        /\ \A i \in 1..(Len(l) + Len(r)) :
             (l \o r)[i] = IF i <= Len(l) THEN l[i] ELSE r[i - Len(l)]
    BY <1>1, <1>2, ConcatProperties
  <1>4. ASSUME NEW i \in 1..Len(l \o r)
        PROVE  (l \o r)[i] = IF i < k THEN seq[i] ELSE seq[i + 1]
    <2>1. CASE i < k
      BY <1>0, <1>1, <1>2, <1>3, <2>1
    <2>2. CASE ~(i < k)
      <3>1. i - Len(l) \in 1..(Len(seq) - k) /\ k + (i - Len(l)) = i + 1
        BY <1>0, <1>1, <1>2, <1>3, <2>2
      <3> QED BY SMTT(60), <1>0, <1>1, <1>2, <1>3, <2>2, <3>1
    <2> QED BY <2>1, <2>2
  <1>5. w = l \o r
    BY DEF l, r, Removed
  <1>6. Len(w) = Len(seq) - 1
    <2>1. Len(w) = Len(l) + Len(r)
      BY <1>3, <1>5
    <2>2. Len(l) = k - 1 /\ Len(r) = Len(seq) - k
      BY <1>1, <1>2
    <2> QED BY <1>0, <2>1, <2>2
  <1>7. \A i \in 1..Len(w) : w[i] = IF i < k THEN seq[i] ELSE seq[i + 1]
    BY <1>4, <1>5
  <1> QED BY <1>3, <1>5, <1>6, <1>7

\* A deleted asset is gone, and the others are what they were.
LEMMA WithoutFacts ==
  ASSUME assets \in Seq(Asset), DistinctIds(assets), NEW id \in Ids(assets)
  PROVE  /\ Without(id) \in Seq(Asset) /\ DistinctIds(Without(id))
         /\ Ids(Without(id)) = Ids(assets) \ {id}
         /\ \A i \in DOMAIN Without(id) : \E j \in DOMAIN assets : Without(id)[i] = assets[j]
  <1> DEFINE k == At(id)  w == Without(id)
  <1>1. k \in 1..Len(assets) /\ assets[k].id = id /\ DOMAIN assets = 1..Len(assets)
    BY LenProperties DEF Ids, At
  <1>2. w = Removed(assets, k)
    BY DEF Without, Removed
  <1> HIDE DEF k, w
  <1>3. /\ w \in Seq(Asset) /\ Len(w) = Len(assets) - 1
        /\ \A i \in 1..Len(w) : w[i] = IF i < k THEN assets[i] ELSE assets[i + 1]
    <2>1. w \in Seq(Asset) /\ Len(w) = Len(assets) - 1
      BY <1>1, <1>2, RemovedAt
    <2>2. ASSUME NEW i \in 1..Len(w)
          PROVE  w[i] = IF i < k THEN assets[i] ELSE assets[i + 1]
      BY <1>1, <1>2, RemovedAt
    <2> QED BY <2>1, <2>2
  <1>4. DOMAIN w = 1..Len(w) /\ Len(assets) \in Nat
    BY <1>3, LenProperties
  <1>5. \A i \in DOMAIN w : i \in 1..Len(assets) /\ i + 1 \in 1..Len(assets)
    BY <1>3, <1>4
  <1>6. DistinctIds(w)
    BY <1>1, <1>3, <1>4, <1>5 DEF DistinctIds
  <1>7. \A i \in DOMAIN w : \E j \in DOMAIN assets : j # k /\ w[i] = assets[j]
    <2> SUFFICES ASSUME NEW i \in DOMAIN w
                 PROVE  \E j \in DOMAIN assets : j # k /\ w[i] = assets[j]
      OBVIOUS
    <2>1. CASE i < k
      BY <1>1, <1>3, <1>4, <1>5, <2>1
    <2>2. CASE ~(i < k)
      BY <1>1, <1>3, <1>4, <1>5, <2>2
    <2> QED BY <2>1, <2>2
  <1>8. \A j \in DOMAIN assets : j # k => \E i \in DOMAIN w : w[i] = assets[j]
    <2> SUFFICES ASSUME NEW j \in DOMAIN assets, j # k
                 PROVE  \E i \in DOMAIN w : w[i] = assets[j]
      OBVIOUS
    <2>1. CASE j < k
      BY <1>1, <1>3, <1>4, <2>1
    <2>2. CASE ~(j < k)
      <3>1. j - 1 \in 1..Len(w) /\ ~(j - 1 < k) /\ (j - 1) + 1 = j
        BY <1>1, <1>3, <1>4, <2>2
      <3> QED BY <1>3, <1>4, <3>1
    <2> QED BY <2>1, <2>2
  <1>9. Ids(w) = Ids(assets) \ {id}
    <2>1. ASSUME NEW x \in Ids(w) PROVE x \in Ids(assets) /\ x # id
      BY <1>1, <1>7 DEF Ids, DistinctIds
    <2>2. ASSUME NEW x \in Ids(assets), x # id PROVE x \in Ids(w)
      <3>1. PICK j \in DOMAIN assets : x = assets[j].id
        BY DEF Ids
      <3>2. PICK i \in DOMAIN w : w[i] = assets[j]
        BY <1>1, <1>8, <2>2, <3>1
      <3> QED BY <3>1, <3>2 DEF Ids
    <2> QED BY <2>1, <2>2
  <1> QED BY <1>3, <1>6, <1>7, <1>9 DEF w

\* An upload gets an id that no listing, plan or order has.
LEMMA NewIdFacts ==
  ASSUME TypeOK, Used # Id
  PROVE  NewId \in Id /\ NewId \notin Used
  <1>1. Ids(assets) \subseteq Id
    BY IdsAreIds DEF TypeOK
  <1>2. ASSUME NEW s \in Sync PROVE Ids(existing[s]) \subseteq Id /\ Names(order[s]) \subseteq Id
    <2>1. existing[s] \in Seq(Asset) /\ order[s] \in Seq(Id)
      BY DEF TypeOK
    <2> QED BY <2>1, IdsAreIds, Elements DEF Names
  <1>3. Used \subseteq Id
    BY <1>1, <1>2 DEF Used
  <1> QED BY <1>3 DEF NewId

\* What Append makes of a sequence.
LEMMA Appended ==
  ASSUME NEW S, NEW seq \in Seq(S), NEW x \in S
  PROVE  LET w == Append(seq, x) IN
         /\ w \in Seq(S) /\ Len(w) = Len(seq) + 1 /\ DOMAIN w = 1..(Len(seq) + 1)
         /\ \A i \in 1..Len(seq) : w[i] = seq[i]
         /\ w[Len(seq) + 1] = x
  BY AppendProperties, LenProperties

\* The names of a longer order.
LEMMA NamesGrow ==
  ASSUME NEW S, NEW seq \in Seq(S), NEW x \in S
  PROVE  Names(Append(seq, x)) = Names(seq) \cup {x}
  <1> DEFINE w == Append(seq, x)  n == Len(seq)
  <1>1. /\ n \in Nat /\ DOMAIN seq = 1..n /\ DOMAIN w = 1..(n + 1)
        /\ (\A i \in 1..n : w[i] = seq[i]) /\ w[n + 1] = x
    BY Appended, Elements
  <1> HIDE DEF w, n
  <1>2. ASSUME NEW y \in Names(w) PROVE y \in Names(seq) \cup {x}
    <2>1. PICK i \in 1..(n + 1) : y = w[i]
      BY <1>1 DEF Names
    <2>2. CASE i \in 1..n
      BY <1>1, <2>1, <2>2 DEF Names
    <2>3. CASE i = n + 1
      BY <1>1, <2>1, <2>3
    <2> QED BY <1>1, <2>1, <2>2, <2>3
  <1>3. ASSUME NEW y \in Names(seq) PROVE y \in Names(w)
    <2>1. PICK i \in 1..n : y = seq[i]
      BY <1>1 DEF Names
    <2>2. i \in DOMAIN w /\ w[i] = y
      BY <1>1, <2>1
    <2> QED BY <2>2 DEF Names
  <1>4. x \in Names(w)
    <2>1. n + 1 \in DOMAIN w
      BY <1>1
    <2> QED BY <1>1, <2>1 DEF Names
  <1>5. Names(w) = Names(seq) \cup {x}
    BY <1>2, <1>3, <1>4
  <1> QED BY <1>5 DEF w

-----------------------------------------------------------------------------
(* What every step of a sync has in common *)

\* Only the holder of the lock works; the plans of the others are blank.
LEMMA OthersRest ==
  ASSUME SyncInv, NEW s \in Sync, pc[s] \in Applies, NEW q \in Sync \ {s},
         pc'[q] = pc[q], existing'[q] = existing[q], order'[q] = order[q], slot'[q] = slot[q]
  PROVE  Plan(q)'
  <1>1. pc[q] \notin Applies
    BY DEF SyncInv, LockHasOneHolder
  <1>2. pc'[q] \notin Working /\ existing'[q] = <<>> /\ order'[q] = <<>> /\ slot'[q] = 1
    BY <1>1 DEF SyncInv, Plan, Blank, Working, Applies
  <1> QED BY <1>2 DEF Plan, Blank, PlanBooks, Placed, AllThere, Clean, DistinctIds, Names, Working

\* A plan outlives a change of the set that keeps what each id stands for, while
\* its sync is neither at a slot nor done with all of them.
Follows == \A i \in DOMAIN assets' :
  \/ assets'[i].id \notin Used
  \/ \E j \in DOMAIN assets : assets'[i].id = assets[j].id /\ assets'[i].file = assets[j].file

\* Such a change keeps the books.
LEMMA BooksFollow ==
  ASSUME NEW s \in Sync, PlanBooks(s), Follows, existing'[s] = existing[s],
         order'[s] = order[s], slot'[s] = slot[s]
  PROVE  PlanBooks(s)'
  <1>1. Ids(existing[s]) \subseteq Used
    BY DEF Used
  <1>2. ASSUME NEW i \in DOMAIN assets', NEW j \in DOMAIN existing[s],
               assets'[i].id = existing[s][j].id
        PROVE  assets'[i].file = existing[s][j].file
    <2>1. assets'[i].id \in Used
      BY <1>1, <1>2 DEF Ids
    <2> QED BY <1>2, <2>1 DEF Follows, PlanBooks
  <1> QED BY <1>2 DEF PlanBooks, DistinctIds, Names

\* After a failed write the plan claims nothing until it is made again.
LEMMA FailedRests ==
  ASSUME SyncInv, NEW s \in Sync, pc[s] \in Working, Failed(s), Follows,
         existing'[s] = existing[s], order'[s] = order[s], slot'[s] = slot[s]
  PROVE  Plan(s)'
  <1>1. pc'[s] = "replan" \/ (pc'[s] = "read_back" /\ failed'[s])
    BY DEF SyncInv, TypeOK, Failed, Goto
  <1>2. PlanBooks(s)'
    BY BooksFollow DEF SyncInv, Plan
  <1> QED BY <1>1, <1>2 DEF Plan, Blank, Placed, AllThere, Clean, Working

\* The holder keeps the lock or ends.
LEMMA LockKept ==
  ASSUME SyncInv, NEW s \in Sync, pc[s] \in Applies, NEW l, pc' = [pc EXCEPT ![s] = l],
         \/ l \in Applies /\ applying' = applying
         \/ l \notin Applies /\ applying' = FALSE
  PROVE  LockHasOneHolder'
  BY SMTT(60) DEF SyncInv, TypeOK, LockHasOneHolder

\* A set that a sync knows to be empty stays so until it or another writes.
LEMMA NoSetKept ==
  ASSUME SyncInv, NEW s \in Sync, pc[s] \in Applies, NEW l, pc' = [pc EXCEPT ![s] = l],
         l \in Quiet => pc[s] = "scan" /\ assets' = assets,
         \A q \in Sync : localization'[q] = "missing" => localization[q] = "missing",
         localization'[s] = "missing" /\ assets = <<>> => assets' = <<>>
  PROVE  NoSetYet'
  <1> SUFFICES ASSUME NEW t \in Sync, pc'[t] # "idle", localization'[t] = "missing",
                      \A q \in Sync \ {t} : pc'[q] \in Quiet
               PROVE  assets' = <<>>
    BY DEF NoSetYet
  <1>1. pc[s] # "idle" /\ \A q \in Sync \ {s} : pc'[q] = pc[q]
    BY DEF SyncInv, TypeOK, Applies
  <1>2. pc'[s] = l
    BY DEF SyncInv, TypeOK
  <1>3. CASE t = s
    BY <1>1, <1>3 DEF SyncInv, NoSetYet
  <1>4. CASE t # s
    <2>1. pc[s] \in Quiet /\ assets' = assets
      BY <1>2, <1>4 DEF Quiet
    <2> QED BY <1>1, <1>4, <2>1 DEF SyncInv, NoSetYet
  <1> QED BY <1>3, <1>4

\* What a sync began with holds on only if it held before.
LEMMA FreshBefore ==
  ASSUME SyncInv, NEW s \in Sync, NEW l, pc' = [pc EXCEPT ![s] = l], Fresh(s)',
         localization'[s] = "known" => localization[s] = "known"
  PROVE  Fresh(s)
  BY DEF SyncInv, TypeOK, Fresh

-----------------------------------------------------------------------------
(* One lemma for each action *)

\* A kept asset moves from what is to come to what is placed.
LEMMA KeepHolds == ASSUME SyncInv, NEW s \in Sync, Keep(s) PROVE SyncInv'
  <1> DEFINE e == existing[s]  k == slot[s]  id == existing[s][slot[s]].id
  <1>1. /\ pc[s] = "slot" /\ k \in DOMAIN e /\ k <= Len(export[s]) /\ Matches(e[k], export[s][k])
        /\ slot' = [slot EXCEPT ![s] = k + 1] /\ order' = [order EXCEPT ![s] = Append(order[s], id)]
        /\ UNCHANGED <<localized, assets, applying, pc, localization, export, existing, again, failed>>
    <2>1. slot[s] \in Nat \ {0} /\ existing[s] \in Seq(Asset)
      BY DEF SyncInv, TypeOK
    <2>2. slot[s] \in DOMAIN existing[s] <=> InSlot(s)
      BY <2>1, Elements DEF InSlot
    <2> QED BY <2>2 DEF Keep, Keeps, InSlot, Wanted, Advance, pageVars
  <1>2. /\ order[s] \in Seq(Id) /\ e \in Seq(Asset) /\ export[s] \in Seq(File) /\ k \in Nat \ {0}
        /\ e[k] \in Asset /\ id \in Id
    <2>1. order[s] \in Seq(Id) /\ e \in Seq(Asset) /\ export[s] \in Seq(File) /\ k \in Nat \ {0}
      BY DEF SyncInv, TypeOK
    <2>2. e[k] \in Asset
      BY <1>1, <2>1, Elements
    <2> QED BY <2>1, <2>2 DEF Asset
  <1>3. Len(order[s]) = k - 1 /\ Len(export[s]) \in Nat /\ Len(e) \in Nat
        /\ DOMAIN order[s] = 1..(k - 1) /\ DOMAIN e = 1..Len(e)
    BY <1>1, <1>2, Elements DEF SyncInv, Plan, Placed
  <1> HIDE DEF id, k, e
  <1>4. /\ order'[s] \in Seq(Id) /\ Len(order'[s]) = k /\ DOMAIN order'[s] = 1..k
        /\ (\A i \in 1..(k - 1) : order'[s][i] = order[s][i]) /\ order'[s][k] = id
    <2>1. order'[s] = Append(order[s], id)
      BY <1>1 DEF SyncInv, TypeOK
    <2> QED BY <1>2, <1>3, <2>1, Appended
  <1>5. slot'[s] = k + 1 /\ existing'[s] = e /\ pc'[s] = "slot"
    BY <1>1 DEF SyncInv, TypeOK, e
  <1>6. TypeOK'
    BY SMTT(60), <1>1, <1>2, <1>4 DEF SyncInv, TypeOK
  <1>7. (LockHasOneHolder /\ DistinctIds(assets) /\ Unlocalized /\ NoSetYet)'
    BY <1>1 DEF SyncInv, LockHasOneHolder, DistinctIds, Unlocalized, NoSetYet
  <1>8. id = e[k].id /\ Names(order[s])' = Names(order[s]) \cup {id}
    <2>1. order'[s] = Append(order[s], id)
      BY <1>1 DEF SyncInv, TypeOK
    <2>2. Names(order'[s]) = Names(order[s]) \cup {id}
      BY <1>2, <2>1, NamesGrow
    <2> QED BY <2>2 DEF id, e, k, Names
  <1>9. \A i \in DOMAIN e : i >= k => e[i].id \notin Names(order[s])
    BY DEF SyncInv, Plan, PlanBooks, e, k
  <1>10. PlanBooks(s)'
    <2>1. \A i, j \in DOMAIN order'[s] : order'[s][i] = order'[s][j] => i = j
      <3>1. \A i \in 1..(k - 1) : order[s][i] \in Names(order[s])
        BY <1>3 DEF Names
      <3>2. id \notin Names(order[s])
        BY <1>1, <1>2, <1>8, <1>9 DEF k, e
      <3>3. \A i, j \in 1..(k - 1) : order[s][i] = order[s][j] => i = j
        BY <1>3 DEF SyncInv, Plan, PlanBooks
      <3> QED BY SMTT(60), <1>2, <1>4, <3>1, <3>2, <3>3
    <2>2. \A i \in DOMAIN e : i >= k + 1 => e[i].id \notin Names(order[s])'
      <3>1. \A i \in DOMAIN e : i >= k + 1 => i >= k /\ e[i].id # e[k].id
        BY SMTT(60), <1>1, <1>2, <1>3 DEF SyncInv, Plan, PlanBooks, DistinctIds, e, k
      <3> QED BY <1>8, <1>9, <3>1
    <2> QED BY <1>1, <1>5, <2>1, <2>2 DEF SyncInv, Plan, PlanBooks, DistinctIds, e
  <1>11. Placed(s)'
    <2>1. \A i \in 1..(k - 1), j \in DOMAIN assets : assets[j].id = order[s][i] => Stands(s, assets[j], i)
      BY <1>1, <1>3 DEF SyncInv, Plan, Placed
    <2>2. \A j \in DOMAIN assets : assets[j].id = id => Stands(s, assets[j], k)
      <3> SUFFICES ASSUME NEW j \in DOMAIN assets, assets[j].id = id PROVE Stands(s, assets[j], k)
        OBVIOUS
      <3>1. assets[j].file = e[k].file
        BY <1>1, <1>8 DEF SyncInv, Plan, PlanBooks, e, k
      <3> QED BY <1>1, <1>8, <3>1 DEF Matches, Stands, e, k
    <2>3. \A i \in 1..k, j \in DOMAIN assets : assets[j].id = order'[s][i] => Stands(s, assets[j], i)
      BY <1>2, <1>4, <2>1, <2>2
    <2>4. k + 1 <= Len(export[s]) \/ k = Len(export[s])
      BY <1>1, <1>2, <1>3 DEF k
    <2> QED BY <1>1, <1>2, <1>3, <1>4, <1>5, <2>3, <2>4 DEF Placed, Stands
  <1>12. AllThere(s)'
    <2>1. Rest(s) = Rest(s)' \cup {id}
      BY <1>1, <1>2, <1>3, <1>5, <1>8 DEF Rest, e, k
    <2>2. Fresh(s)' => Fresh(s)
      BY <1>1 DEF Fresh
    <2> QED BY <1>1, <1>8, <2>1, <2>2 DEF SyncInv, Plan, AllThere
  <1>13. Blank(s)' /\ Clean(s)'
    BY <1>5 DEF Blank, Clean, Working
  <1>14. \A q \in Sync \ {s} : Plan(q)'
    BY <1>1, OthersRest DEF SyncInv, TypeOK, Applies
  <1> QED BY <1>6, <1>7, <1>10, <1>11, <1>12, <1>13, <1>14 DEF SyncInv, Plan

\* What a step of the sync that works must show.
LEMMA WorkHolds ==
  ASSUME SyncInv, NEW s \in Sync, pc[s] \in Applies, NEW l \in Working,
         pc' = [pc EXCEPT ![s] = l], applying' = applying, TypeOK', DistinctIds(assets)',
         assets # <<>> => localized, localized => localized', assets' # <<>> => localized',
         \A q \in Sync : localization'[q] = "missing" => localization[q] = "missing",
         localization'[s] = "missing" /\ assets = <<>> => assets' = <<>>,
         \A q \in Sync \ {s} :
           existing'[q] = existing[q] /\ order'[q] = order[q] /\ slot'[q] = slot[q],
         Plan(s)'
  PROVE  SyncInv'
  <1>1. l \in Applies /\ l \notin Quiet
    BY DEF Working, Applies, Quiet
  <1>2. LockHasOneHolder' /\ NoSetYet'
    BY <1>1, LockKept, NoSetKept
  <1>3. \A q \in Sync \ {s} : Plan(q)'
    BY OthersRest DEF SyncInv, TypeOK
  <1> QED BY <1>2, <1>3 DEF SyncInv, Unlocalized

\* The call has ended: nothing is left of its steps.
LEMMA ReleaseHolds ==
  ASSUME SyncInv, NEW s \in Sync, pc[s] \in Applies, NEW how \in Ends,
         how = "refused" => pc[s] = "scan", Release(s, how)
  PROVE  SyncInv'
  <1>1. /\ pc' = [pc EXCEPT ![s] = how] /\ applying' = FALSE
        /\ export' = [export EXCEPT ![s] = <<>>] /\ existing' = [existing EXCEPT ![s] = <<>>]
        /\ slot' = [slot EXCEPT ![s] = 1] /\ order' = [order EXCEPT ![s] = <<>>]
        /\ UNCHANGED <<localized, assets, localization, again, failed>>
    BY DEF Release, End, Goto, pageVars
  <1>2. TypeOK'
    <2>1. \A S : <<>> \in Seq(S)
      BY EmptySeq
    <2>2. 1 \in Nat \ {0}
      OBVIOUS
    <2> QED BY <1>1, <2>1, <2>2 DEF SyncInv, TypeOK, Ends
  <1>3. how \notin Applies /\ how \notin Working /\ (how \in Quiet => how = "refused")
    BY DEF Ends, Applies, Working, Quiet
  <1>4. LockHasOneHolder' /\ NoSetYet'
    BY <1>1, <1>3, LockKept, NoSetKept
  <1>5. Plan(s)'
    BY <1>1, <1>3, EmptySeq DEF SyncInv, TypeOK, Plan, Blank, PlanBooks, Placed, AllThere, Clean,
       DistinctIds, Names, Working
  <1>6. \A q \in Sync \ {s} : Plan(q)'
    BY <1>1, OthersRest DEF SyncInv, TypeOK
  <1> QED BY <1>1, <1>2, <1>4, <1>5, <1>6 DEF SyncInv, Unlocalized, DistinctIds

\* A sync that has a plan made works on what the listing shows.
LEMMA PlannedHolds ==
  ASSUME SyncInv, NEW s \in Sync, pc[s] \in Applies, NEW files \in Seq(File), Planned(s, files),
         export'[s] = files, slot'[s] = 1, order'[s] = <<>>,
         UNCHANGED <<localized, assets, applying, localization, again, failed>>, TypeOK',
         \A q \in Sync \ {s} : order'[q] = order[q] /\ slot'[q] = slot[q]
  PROVE  SyncInv'
  <1> DEFINE listed == Listed(s)  l == IF InPlace(listed, files) THEN "read_back" ELSE "slot"
  <1>1. existing' = [existing EXCEPT ![s] = listed] /\ pc' = [pc EXCEPT ![s] = l]
    BY DEF Planned, Goto
  <1>2. listed \in Seq(Asset) /\ DistinctIds(listed) /\ l \in Working
        /\ (listed = assets \/ (listed = <<>> /\ localization[s] = "missing"))
    BY EmptySeq DEF SyncInv, TypeOK, Listed, DistinctIds, Working
  <1>3. existing'[s] = listed /\ pc'[s] = l
    BY <1>1 DEF SyncInv, TypeOK
  <1>4. ASSUME Fresh(s)' PROVE listed = assets
    <2>1. Fresh(s)
      BY <1>1, <1>4, FreshBefore
    <2>2. pc[s] # "idle"
      BY DEF Applies
    <2> QED BY <1>2, <2>1, <2>2 DEF SyncInv, NoSetYet, Fresh, Quiet
  <1>5. DOMAIN listed = 1..Len(listed) /\ Len(listed) \in Nat
        /\ DOMAIN files = 1..Len(files) /\ Len(files) \in Nat
        /\ DOMAIN assets = 1..Len(assets)
    BY <1>2, Elements DEF SyncInv, TypeOK
  <1>6. InPlace(listed, files) <=> Len(listed) = Len(files) /\ \A i \in DOMAIN files : Matches(listed[i], files[i])
    BY DEF InPlace
  <1>7. l = "read_back" => InPlace(listed, files)
    OBVIOUS
  <1> HIDE DEF listed, l
  <1>8. Blank(s)'
    BY <1>2, <1>3 DEF Blank
  <1>9. PlanBooks(s)'
    <2>1. \A i \in DOMAIN assets, j \in DOMAIN listed :
            assets[i].id = listed[j].id => assets[i].file = listed[j].file
      BY <1>2 DEF SyncInv, DistinctIds
    <2> QED BY <1>2, <1>3, <2>1, EmptySeq DEF PlanBooks, DistinctIds, Names
  <1>10. Placed(s)'
    <2>1. order'[s] = <<>> /\ slot'[s] = 1 /\ export'[s] = files /\ Len(<<>>) = 0 /\ DOMAIN <<>> = {}
      BY EmptySeq
    <2>2. l \in {"slot", "upload"} => l = "slot"
      BY DEF l
    <2> QED BY <1>3, <1>5, <2>1, <2>2 DEF Placed
  <1>11. AllThere(s)'
    <2> SUFFICES ASSUME l = "slot", Fresh(s)' PROVE Ids(assets)' = Names(order[s])' \cup Rest(s)'
      BY <1>3 DEF AllThere, l
    <2>1. Names(order[s])' = {}
      BY DEF Names
    <2>2. Rest(s)' = Ids(listed)
      BY <1>3, <1>5 DEF Rest, Ids
    <2> QED BY <1>4, <2>1, <2>2 DEF Ids
  <1>12. Clean(s)'
    <2> SUFFICES ASSUME l = "read_back", Fresh(s)'
                 PROVE  /\ Len(assets) = Len(files)
                        /\ \A i \in DOMAIN assets : Stands(s, assets[i], i)'
      BY <1>3 DEF Clean
    <2>1. listed = assets
      BY <1>4
    <2>2. Len(assets) = Len(files) /\ \A i \in DOMAIN files : Matches(assets[i], files[i])
      BY <1>6, <1>7, <2>1
    <2> QED BY <1>3, <1>5, <2>1, <2>2 DEF Stands, Matches
  <1>13. Plan(s)'
    BY <1>8, <1>9, <1>10, <1>11, <1>12 DEF Plan
  <1>14. \A q \in Sync \ {s} : existing'[q] = existing[q]
    BY <1>1 DEF SyncInv, TypeOK
  <1> QED BY <1>1, <1>2, <1>13, <1>14, WorkHolds DEF SyncInv, Unlocalized, DistinctIds

\* The scan ends the call or makes the first plan.
LEMMA ScanHolds == ASSUME SyncInv, NEW s \in Sync, Scan(s) PROVE SyncInv'
  <1>1. pc[s] = "scan" /\ pc[s] \in Applies
    BY DEF Scan, Applies
  <1>2. CASE ErrorRow(s)
    BY <1>1, <1>2, ReleaseHolds DEF ErrorRow, Ends
  <1>3. CASE Scanned(s)
    <2>1. PICK files \in Exports : export' = [export EXCEPT ![s] = files] /\ Planned(s, files)
      BY <1>3 DEF Scanned
    <2>2. files \in Seq(File) /\ order[s] = <<>> /\ slot[s] = 1
      BY <1>1, ExportsAssumption DEF SyncInv, Plan, Blank, Working
    <2>3. UNCHANGED <<localized, assets, applying, localization, slot, order, again, failed>>
      BY <1>3 DEF Scanned, pageVars
    <2>4. existing' = [existing EXCEPT ![s] = Listed(s)] /\ Listed(s) \in Seq(Asset)
      BY <2>1, EmptySeq DEF Planned, Listed, SyncInv, TypeOK
    <2>5. pc' \in [Sync -> {"idle", "bound"} \cup Applies \cup Ends]
      BY <2>1 DEF Planned, Goto, SyncInv, TypeOK, Applies
    <2>6. TypeOK'
      BY <2>1, <2>2, <2>3, <2>4, <2>5 DEF SyncInv, TypeOK
    <2>7. export'[s] = files /\ slot'[s] = 1 /\ order'[s] = <<>>
      BY <2>1, <2>2, <2>3 DEF SyncInv, TypeOK
    <2> QED BY <1>1, <2>1, <2>2, <2>3, <2>6, <2>7, PlannedHolds
  <1> QED BY <1>2, <1>3 DEF Scan

\* The second plan starts from the listing again, or the row fails.
LEMMA ReplanHolds == ASSUME SyncInv, NEW s \in Sync, Replan(s) PROVE SyncInv'
  <1>1. pc[s] = "replan" /\ pc[s] \in Applies /\ pc[s] \in Working
        /\ UNCHANGED <<localized, assets, applying, localization, export, again>>
    BY DEF Replan, Applies, Working, pageVars
  <1>2. CASE /\ Planned(s, export[s]) /\ slot' = [slot EXCEPT ![s] = 1]
             /\ order' = [order EXCEPT ![s] = <<>>] /\ UNCHANGED failed
    <2>1. existing' = [existing EXCEPT ![s] = Listed(s)] /\ Listed(s) \in Seq(Asset)
      BY <1>2, EmptySeq DEF Planned, Listed, SyncInv, TypeOK
    <2>2. pc' \in [Sync -> {"idle", "bound"} \cup Applies \cup Ends]
      BY <1>2 DEF Planned, Goto, SyncInv, TypeOK, Applies
    <2>3. <<>> \in Seq(Id) /\ 1 \in Nat \ {0}
      BY EmptySeq
    <2>4. TypeOK'
      BY <1>1, <1>2, <2>1, <2>2, <2>3 DEF SyncInv, TypeOK
    <2>5. export[s] \in Seq(File) /\ export'[s] = export[s] /\ slot'[s] = 1 /\ order'[s] = <<>>
          /\ \A q \in Sync \ {s} : order'[q] = order[q] /\ slot'[q] = slot[q]
      BY <1>1, <1>2 DEF SyncInv, TypeOK
    <2> QED BY <1>1, <1>2, <2>4, <2>5, PlannedHolds
  <1>3. CASE /\ failed' = [failed EXCEPT ![s] = TRUE] /\ existing' = [existing EXCEPT ![s] = <<>>]
             /\ Goto(s, "read_back") /\ UNCHANGED <<slot, order>>
    <2>1. pc' = [pc EXCEPT ![s] = "read_back"] /\ "read_back" \in Working /\ "read_back" \in Applies
      BY <1>3 DEF Goto, Working, Applies
    <2>2. <<>> \in Seq(Asset) /\ DOMAIN <<>> = {}
      BY EmptySeq
    <2>3. TypeOK'
      BY <1>1, <1>3, <2>1, <2>2 DEF SyncInv, TypeOK
    <2>4. pc'[s] = "read_back" /\ failed'[s] /\ existing'[s] = <<>> /\ order'[s] = order[s]
      BY <1>3, <2>1 DEF SyncInv, TypeOK
    <2>5. PlanBooks(s)'
      BY <2>2, <2>4 DEF SyncInv, Plan, PlanBooks, DistinctIds
    <2>6. Plan(s)'
      BY <2>4, <2>5 DEF Plan, Blank, Placed, AllThere, Clean, Working
    <2>7. \A q \in Sync \ {s} :
            existing'[q] = existing[q] /\ order'[q] = order[q] /\ slot'[q] = slot[q]
      BY <1>3 DEF SyncInv, TypeOK
    <2> QED BY <1>1, <2>1, <2>3, <2>6, <2>7, WorkHolds DEF SyncInv, Unlocalized, DistinctIds
  <1> QED BY <1>2, <1>3 DEF Replan

\* A write that Apple answers with an error, whatever became of it.
LEMMA FailedHolds ==
  ASSUME SyncInv, NEW s \in Sync, pc[s] \in Working, Failed(s), Follows,
         assets' \in Seq(Asset), DistinctIds(assets)', localized' \in BOOLEAN,
         localization' \in [Sync -> {"missing", "known", "made"}],
         assets # <<>> => localized, localized => localized', assets' # <<>> => localized',
         \A q \in Sync : localization'[q] = "missing" => localization[q] = "missing",
         localization'[s] = "missing" /\ assets = <<>> => assets' = <<>>,
         UNCHANGED <<applying, export, existing, slot, order>>
  PROVE  SyncInv'
  <1>1. PICK l \in {"replan", "read_back"} : pc' = [pc EXCEPT ![s] = l]
    BY DEF Failed, Goto
  <1>2. pc' \in [Sync -> {"idle", "bound"} \cup Applies \cup Ends] /\ l \in Working
    BY <1>1 DEF SyncInv, TypeOK, Applies, Working
  <1>3. again' \in [Sync -> BOOLEAN] /\ failed' \in [Sync -> BOOLEAN]
    BY DEF SyncInv, TypeOK, Failed
  <1>4. TypeOK'
    BY <1>2, <1>3 DEF SyncInv, TypeOK
  <1>5. Plan(s)'
    BY FailedRests
  <1>6. pc[s] \in Applies
    BY DEF Working, Applies
  <1> QED BY <1>1, <1>2, <1>4, <1>5, <1>6, WorkHolds

\* A delete that may or may not land.
LEMMA DropFacts ==
  ASSUME SyncInv, NEW id, assets' \in {assets, Without(id)}
  PROVE  /\ assets' \in Seq(Asset) /\ DistinctIds(assets)' /\ Follows
         /\ assets = <<>> => assets' = <<>>
  <1>1. CASE assets' = assets
    BY <1>1 DEF SyncInv, TypeOK, DistinctIds, Follows
  <1>2. CASE assets' = Without(id) /\ id \in Ids(assets)
    <2>1. assets # <<>>
      BY <1>2 DEF Ids
    <2>2. assets \in Seq(Asset) /\ DistinctIds(assets)
      BY DEF SyncInv, TypeOK
    <2> QED BY <1>2, <2>1, <2>2, WithoutFacts DEF DistinctIds, Follows
  <1>3. CASE assets' = Without(id) /\ id \notin Ids(assets)
    BY <1>1, <1>3 DEF Without
  <1> QED BY <1>1, <1>2, <1>3

\* A delete that lands takes from the set what it takes from the plan.
LEMMA DeleteHolds == ASSUME SyncInv, NEW s \in Sync, Delete(s) PROVE SyncInv'
  <1> DEFINE e == existing[s]  k == slot[s]  id == existing[s][slot[s]].id
  <1>1. /\ pc[s] = "slot" /\ pc[s] \in Working /\ pc[s] \in Applies
        /\ UNCHANGED <<localized, applying, localization, export, existing, order>>
        /\ assets' \in {assets, Without(id)}
        /\ assets # <<>> => localized
    BY DEF Delete, Working, Applies, SyncInv, Unlocalized
  <1>2. assets' \in Seq(Asset) /\ DistinctIds(assets)' /\ Follows /\ (assets = <<>> => assets' = <<>>)
    BY <1>1, DropFacts
  <1>3. CASE Failed(s) /\ UNCHANGED slot
    <2>1. localized' \in BOOLEAN /\ localization' \in [Sync -> {"missing", "known", "made"}]
      BY <1>1 DEF SyncInv, TypeOK
    <2> QED BY <1>1, <1>2, <1>3, <2>1, FailedHolds
  <1>4. CASE /\ id \in Ids(assets) /\ assets' = Without(id) /\ UNCHANGED <<again, failed>>
             /\ IF Wanted(s) THEN Goto(s, "upload") /\ UNCHANGED slot
                             ELSE slot' = [slot EXCEPT ![s] = @ + 1] /\ UNCHANGED pc
    <2>0. k \in Nat \ {0} /\ e \in Seq(Asset) /\ export[s] \in Seq(File) /\ Len(e) \in Nat
          /\ DOMAIN e = 1..Len(e) /\ Len(export[s]) \in Nat /\ k \in DOMAIN e
      <3>1. k \in Nat \ {0} /\ e \in Seq(Asset) /\ export[s] \in Seq(File)
        BY DEF SyncInv, TypeOK
      <3> QED BY <3>1, Elements DEF Delete, InSlot
    <2>1. Ids(assets') = Ids(assets) \ {id}
          /\ \A i \in DOMAIN assets' : \E j \in DOMAIN assets : assets'[i] = assets[j]
      BY <1>4, WithoutFacts DEF SyncInv, TypeOK
    <2>2. PICK l \in {"slot", "upload"} : pc' = [pc EXCEPT ![s] = l]
            /\ (l = "upload" => k <= Len(export[s]) /\ slot' = slot)
            /\ (l = "slot" => ~(k <= Len(export[s])) /\ slot' = [slot EXCEPT ![s] = k + 1])
      <3>1. CASE Wanted(s)
        BY <1>4, <3>1 DEF Goto, Wanted
      <3>2. CASE ~Wanted(s)
        <4>1. pc' = [pc EXCEPT ![s] = "slot"]
          BY <1>1, <1>4, <3>2 DEF SyncInv, TypeOK
        <4> QED BY <1>4, <3>2, <4>1 DEF Wanted
      <3> QED BY <3>1, <3>2
    <2> HIDE DEF e, k, id
    <2>3. l \in Working /\ l \in Applies
      BY DEF Working, Applies
    <2>4. slot' \in [Sync -> Nat \ {0}]
      <3>1. k + 1 \in Nat \ {0}
        BY <2>0
      <3>2. slot' = slot \/ slot' = [slot EXCEPT ![s] = k + 1]
        BY <2>2
      <3> QED BY <3>1, <3>2 DEF SyncInv, TypeOK
    <2>5. TypeOK'
      BY <1>1, <1>2, <1>4, <2>2, <2>3, <2>4 DEF SyncInv, TypeOK
    <2>6. pc'[s] = l /\ existing'[s] = e /\ order'[s] = order[s] /\ export'[s] = export[s]
          /\ slot'[s] = IF l = "upload" THEN k ELSE k + 1
      BY <1>1, <2>2 DEF SyncInv, TypeOK, e, k
    <2>7. PlanBooks(s)'
      <3>1. \A i \in DOMAIN e : i >= k => e[i].id \notin Names(order[s])
        BY DEF SyncInv, Plan, PlanBooks, e, k
      <3>2. \A i \in DOMAIN e : i >= slot'[s] => e[i].id \notin Names(order[s])
        BY <2>0, <2>6, <3>1
      <3>3. \A i \in DOMAIN assets', j \in DOMAIN e :
              assets'[i].id = e[j].id => assets'[i].file = e[j].file
        BY <2>1 DEF SyncInv, Plan, PlanBooks, e
      <3> QED BY <2>6, <3>2, <3>3 DEF SyncInv, Plan, PlanBooks, DistinctIds, e, Names
    <2>8. Placed(s)'
      <3>1. /\ k <= Len(export[s]) => Len(order[s]) = k - 1
            /\ k > Len(export[s]) => Len(order[s]) = Len(export[s])
            /\ \A i \in DOMAIN order[s], j \in DOMAIN assets :
                 assets[j].id = order[s][i] => Stands(s, assets[j], i)
        BY <1>1 DEF SyncInv, Plan, Placed, k
      <3>2. \A i \in DOMAIN order[s], j \in DOMAIN assets' :
              assets'[j].id = order[s][i] => Stands(s, assets'[j], i)
        BY <2>1, <3>1
      <3>3. /\ slot'[s] <= Len(export[s]) => Len(order[s]) = slot'[s] - 1
            /\ slot'[s] > Len(export[s]) => Len(order[s]) = Len(export[s]) /\ l = "slot"
        BY <2>0, <2>2, <2>6, <3>1
      <3> QED BY <2>6, <3>2, <3>3 DEF Placed, Stands, e
    <2>9. AllThere(s)'
      <3>1. Fresh(s)' => Fresh(s)
        BY <1>1, <2>2, FreshBefore
      <3>2. id = e[k].id /\ id \notin Names(order[s])
        BY <2>0 DEF SyncInv, Plan, PlanBooks, e, k, id
      <3>3. Rest(s)' = {e[i].id : i \in {j \in DOMAIN e : j > k}}
        BY <2>0, <2>2, <2>6 DEF Rest
      <3>4. Rest(s) = Rest(s)' \cup {id}
        BY <1>1, <2>0, <3>2, <3>3 DEF Rest, e, k
      <3>5. id \notin Rest(s)'
        BY <2>0, <3>2, <3>3 DEF SyncInv, Plan, PlanBooks, DistinctIds, e
      <3>6. Fresh(s) => Ids(assets) = Names(order[s]) \cup Rest(s)
        BY <1>1 DEF SyncInv, Plan, AllThere
      <3>7. Ids(assets)' = Ids(assets) \ {id} /\ Names(order[s])' = Names(order[s])
        BY <2>1, <2>6 DEF Ids, Names
      <3> QED BY <3>1, <3>2, <3>4, <3>5, <3>6, <3>7 DEF AllThere
    <2>10. Plan(s)'
      BY <2>6, <2>7, <2>8, <2>9 DEF Plan, Blank, Clean, Working
    <2>11. \A q \in Sync \ {s} : slot'[q] = slot[q]
      BY <2>2 DEF SyncInv, TypeOK
    <2> QED BY <1>1, <1>2, <2>2, <2>3, <2>5, <2>10, <2>11, WorkHolds
  <1> QED BY <1>3, <1>4 DEF Delete

\* With every slot done, the order that Apple accepts is the whole set.
LEMMA ReorderHolds == ASSUME SyncInv, NEW s \in Sync, Reorder(s) PROVE SyncInv'
  <1>1. /\ pc[s] = "slot" /\ pc[s] \in Working /\ pc[s] \in Applies /\ ~InSlot(s) /\ ~Wanted(s)
        /\ UNCHANGED <<localized, applying, localization, export, existing, slot, order>>
        /\ assets' = assets \/ assets' \in Ordered(order[s])
        /\ assets # <<>> => localized
        /\ assets \in Seq(Asset) /\ export[s] \in Seq(File) /\ order[s] \in Seq(Id)
        /\ existing[s] \in Seq(Asset) /\ slot[s] \in Nat \ {0}
    BY DEF Reorder, Working, Applies, SyncInv, Unlocalized, TypeOK
  <1>2. /\ DOMAIN assets = 1..Len(assets) /\ Len(assets) \in Nat
        /\ \A i \in DOMAIN assets : assets[i] \in Asset
        /\ DOMAIN existing[s] = 1..Len(existing[s]) /\ Len(existing[s]) \in Nat
        /\ DOMAIN order[s] = 1..Len(order[s]) /\ Len(order[s]) \in Nat
        /\ Len(export[s]) \in Nat /\ DOMAIN export[s] = 1..Len(export[s])
    BY <1>1, Elements
  <1>3. ASSUME assets' \in Ordered(order[s])
        PROVE  /\ assets' \in Seq(Asset) /\ Len(assets') = Len(assets) /\ DistinctIds(assets)'
               /\ DOMAIN assets' = 1..Len(assets)
               /\ \A i \in DOMAIN assets' : \E j \in DOMAIN assets : assets'[i] = assets[j]
               /\ \A i \in DOMAIN order[s] : i \in DOMAIN assets' /\ assets'[i].id = order[s][i]
    <2>1. /\ assets' \in [1..Len(assets) -> {assets[i] : i \in DOMAIN assets}]
          /\ \A i \in DOMAIN order[s] : i \in DOMAIN assets' /\ assets'[i].id = order[s][i]
          /\ \A i, j \in DOMAIN assets' : assets'[i].id = assets'[j].id => i = j
      BY <1>2, <1>3 DEF Ordered
    <2>2. assets' \in [1..Len(assets) -> Asset]
      BY <1>2, <2>1
    <2>3. assets' \in Seq(Asset)
      BY <1>2, <2>2, IsASeq
    <2>4. Len(assets') = Len(assets)
      BY <1>2, <2>2, <2>3, Elements
    <2> QED BY <2>1, <2>3, <2>4 DEF DistinctIds
  <1>4. /\ assets' \in Seq(Asset) /\ DistinctIds(assets)' /\ Follows
        /\ (assets = <<>> => assets' = <<>>)
    <2>1. CASE assets' = assets
      BY <1>1, <2>1 DEF SyncInv, DistinctIds, Follows
    <2>2. CASE assets' \in Ordered(order[s])
      <3>1. assets = <<>> => assets' = <<>>
        BY <1>3, <2>2, EmptySeq
      <3> QED BY <1>3, <2>2, <3>1 DEF Follows
    <2> QED BY <1>1, <2>1, <2>2
  <1>5. CASE Failed(s)
    <2>1. localized' \in BOOLEAN /\ localization' \in [Sync -> {"missing", "known", "made"}]
      BY <1>1 DEF SyncInv, TypeOK
    <2> QED BY <1>1, <1>4, <1>5, <2>1, FailedHolds
  <1>6. CASE /\ Names(order[s]) \subseteq Ids(assets) /\ assets' \in Ordered(order[s])
             /\ Goto(s, "read_back") /\ UNCHANGED <<again, failed>>
    <2>1. pc' = [pc EXCEPT ![s] = "read_back"] /\ "read_back" \in Working /\ "read_back" \in Applies
      BY <1>6 DEF Goto, Working, Applies
    <2>2. TypeOK'
      BY <1>1, <1>4, <1>6, <2>1 DEF SyncInv, TypeOK
    <2>3. pc'[s] = "read_back"
      BY <2>1 DEF SyncInv, TypeOK
    <2>4. PlanBooks(s)'
      BY <1>1, <1>4, BooksFollow DEF SyncInv, Plan
    <2>5. Clean(s)'
      <3> SUFFICES ASSUME Fresh(s)'
                   PROVE  /\ Len(assets') = Len(export[s])
                          /\ \A i \in DOMAIN assets' : Stands(s, assets'[i], i)
        BY <1>1 DEF Clean, Stands
      <3>1. Fresh(s)
        BY <1>1, <2>1, FreshBefore
      <3>2. Rest(s) = {}
        BY <1>1, <1>2 DEF InSlot, Rest
      <3>3. Ids(assets) = Names(order[s])
        BY <1>1, <3>1, <3>2 DEF SyncInv, Plan, AllThere
      <3>4. Len(order[s]) = Len(export[s])
        BY SMTT(60), <1>1, <1>2 DEF Wanted, SyncInv, Plan, Placed
      <3>5. \A i \in DOMAIN assets' : i \in DOMAIN order[s] /\ assets'[i].id = order[s][i]
        <4> SUFFICES ASSUME NEW i \in DOMAIN assets'
                     PROVE  i \in DOMAIN order[s] /\ assets'[i].id = order[s][i]
          OBVIOUS
        <4>1. assets'[i].id \in Ids(assets)
          BY <1>3, <1>6 DEF Ids
        <4>2. PICK j \in DOMAIN order[s] : assets'[i].id = order[s][j]
          BY <3>3, <4>1 DEF Names
        <4>3. j \in DOMAIN assets' /\ assets'[j].id = order[s][j]
          BY <1>3, <1>6
        <4>4. i = j
          BY <1>3, <1>6, <4>2, <4>3 DEF DistinctIds
        <4> QED BY <4>2, <4>4
      <3>6. Len(assets') = Len(export[s])
        <4>1. 1..Len(assets) = 1..Len(order[s])
          BY <1>2, <1>3, <1>6, <3>5
        <4> QED BY <1>2, <1>3, <1>6, <3>4, <4>1
      <3>7. ASSUME NEW i \in DOMAIN assets' PROVE Stands(s, assets'[i], i)
        <4>1. PICK j \in DOMAIN assets : assets'[i] = assets[j]
          BY <1>3, <1>6
        <4> QED BY <1>1, <3>5, <4>1 DEF SyncInv, Plan, Placed
      <3> QED BY <3>6, <3>7
    <2>6. Plan(s)'
      BY <2>3, <2>4, <2>5 DEF Plan, Blank, Placed, AllThere, Working
    <2> QED BY <1>1, <1>4, <2>1, <2>2, <2>6, WorkHolds
  <1> QED BY <1>5, <1>6 DEF Reorder

\* An upload that lands fills its slot with a new id that stands for its file.
LEMMA UploadHolds == ASSUME SyncInv, NEW s \in Sync, Upload(s) PROVE SyncInv'
  <1> DEFINE e == existing[s]  k == slot[s]
             New(state) == [id |-> NewId, file |-> export[s][slot[s]], state |-> state]
  <1>1. /\ pc[s] \in {"slot", "upload"} /\ pc[s] \in Working /\ pc[s] \in Applies
        /\ k <= Len(export[s]) /\ (pc[s] = "slot" => k > Len(e))
        /\ UNCHANGED <<applying, export, existing>> /\ Used # Id
        /\ assets # <<>> => localized
    <2>1. k \in Nat \ {0} /\ e \in Seq(Asset) /\ export[s] \in Seq(File)
      BY DEF SyncInv, TypeOK
    <2>2. Len(e) \in Nat /\ Len(export[s]) \in Nat
      BY <2>1, Elements
    <2>3. pc[s] = "upload" => k <= Len(export[s])
      BY <2>1, <2>2 DEF SyncInv, Plan, Placed
    <2> QED BY <2>1, <2>2, <2>3
            DEF Upload, Ready, InSlot, Wanted, Working, Applies, SyncInv, Unlocalized
  <1>2. NewId \in Id /\ NewId \notin Used
    BY <1>1, NewIdFacts DEF SyncInv
  <1>3. /\ k \in Nat \ {0} /\ e \in Seq(Asset) /\ Len(e) \in Nat /\ DOMAIN e = 1..Len(e)
        /\ export[s] \in Seq(File) /\ Len(export[s]) \in Nat /\ DOMAIN export[s] = 1..Len(export[s])
        /\ assets \in Seq(Asset) /\ Len(assets) \in Nat /\ DOMAIN assets = 1..Len(assets)
        /\ order[s] \in Seq(Id)
    <2>1. k \in Nat \ {0} /\ e \in Seq(Asset) /\ export[s] \in Seq(File) /\ assets \in Seq(Asset)
          /\ order[s] \in Seq(Id)
      BY DEF SyncInv, TypeOK
    <2> QED BY <2>1, Elements
  <1>4. ASSUME NEW state \in State, assets' = With(s, state)
        PROVE  /\ assets' \in Seq(Asset) /\ DistinctIds(assets)' /\ Follows
               /\ DOMAIN assets' = 1..(Len(assets) + 1)
               /\ \A i \in 1..Len(assets) : assets'[i] = assets[i]
               /\ assets'[Len(assets) + 1] = New(state)
               /\ Ids(assets)' = Ids(assets) \cup {NewId}
    <2>1. k \in DOMAIN export[s]
      BY <1>1, <1>3
    <2>2. export[s][k] \in File
      BY <1>3, <2>1, Elements
    <2>3. New(state) \in Asset /\ assets' = Append(assets, New(state)) /\ New(state).id = NewId
      BY <1>2, <1>4, <2>2 DEF With, Asset
    <2> HIDE DEF New
    <2>4. /\ assets' \in Seq(Asset) /\ DOMAIN assets' = 1..(Len(assets) + 1)
          /\ \A i \in 1..Len(assets) : assets'[i] = assets[i]
          /\ assets'[Len(assets) + 1] = New(state)
      BY <1>3, <2>3, Appended
    <2>5. \A i \in DOMAIN assets : assets[i].id # NewId
      BY <1>2 DEF Used, Ids
    <2>6. DistinctIds(assets)'
      <3>1. \A i \in DOMAIN assets' : i \in 1..Len(assets) \/ i = Len(assets) + 1
        BY <1>3, <2>4
      <3> QED BY <1>3, <2>3, <2>4, <2>5, <3>1 DEF SyncInv, DistinctIds
    <2>7. Follows
      <3>1. \A i \in DOMAIN assets' : i \in 1..Len(assets) \/ i = Len(assets) + 1
        BY <1>3, <2>4
      <3> QED BY <1>2, <1>3, <2>3, <2>4, <3>1 DEF Follows
    <2>8. Ids(assets)' = Ids(assets) \cup {NewId}
      <3>1. \A i \in DOMAIN assets' : i \in 1..Len(assets) \/ i = Len(assets) + 1
        BY <1>3, <2>4
      <3>2. 1..Len(assets) \subseteq DOMAIN assets' /\ Len(assets) + 1 \in DOMAIN assets'
        BY <1>3, <2>4
      <3>3. ASSUME NEW x \in Ids(assets') PROVE x \in Ids(assets) \cup {NewId}
        BY <1>3, <2>3, <2>4, <3>1 DEF Ids
      <3>4. ASSUME NEW x \in Ids(assets) PROVE x \in Ids(assets')
        <4>1. PICK i \in 1..Len(assets) : x = assets[i].id
          BY <1>3 DEF Ids
        <4>2. i \in DOMAIN assets' /\ assets'[i].id = x
          BY <2>4, <3>2, <4>1
        <4> QED BY <4>2 DEF Ids
      <3>5. NewId \in Ids(assets')
        BY <2>3, <2>4, <3>2 DEF Ids
      <3> QED BY <3>3, <3>4, <3>5 DEF Ids
    <2> QED BY <2>4, <2>6, <2>7, <2>8
  <1> HIDE DEF New
  <1>5. assets' = assets => /\ assets' \in Seq(Asset) /\ DistinctIds(assets)' /\ Follows
    BY <1>3 DEF SyncInv, DistinctIds, Follows
  <1>6. CASE /\ Localize(s) /\ Failed(s) /\ UNCHANGED <<slot, order>>
             /\ assets' \in {assets, With(s, "awaiting"), With(s, "withheld")}
    <2>1. assets' \in Seq(Asset) /\ DistinctIds(assets)' /\ Follows
      BY <1>4, <1>5, <1>6 DEF State
    <2>2. /\ localized' = TRUE /\ localization' \in [Sync -> {"missing", "known", "made"}]
          /\ (\A q \in Sync : localization'[q] = "missing" => localization[q] = "missing")
          /\ localization'[s] # "missing"
      BY <1>6 DEF Localize, SyncInv, TypeOK
    <2> QED BY <1>1, <1>6, <2>1, <2>2, FailedHolds
  <1>7. CASE /\ localized' \in {localized, TRUE} /\ Failed(s)
             /\ UNCHANGED <<assets, localization, slot, order>>
    <2>1. localized' \in BOOLEAN /\ localization' \in [Sync -> {"missing", "known", "made"}]
          /\ (localized => localized')
      <3>1. localized \in BOOLEAN /\ localization \in [Sync -> {"missing", "known", "made"}]
        BY DEF SyncInv, TypeOK
      <3>2. localized' = localized \/ localized' = TRUE
        BY <1>7
      <3> QED BY <1>7, <3>1, <3>2, Zenon
    <2> QED BY <1>1, <1>5, <1>7, <2>1, FailedHolds
  <1>8. CASE /\ Localize(s) /\ assets' = With(s, "withheld") /\ Advance(s, NewId)
             /\ Goto(s, "slot") /\ UNCHANGED <<again, failed>>
    <2>1. /\ localized' = TRUE /\ localization' \in [Sync -> {"missing", "known", "made"}]
          /\ (\A q \in Sync : localization'[q] = "missing" => localization[q] = "missing")
          /\ localization'[s] # "missing" /\ (localization'[s] = "known" => localization[s] = "known")
      BY <1>8 DEF Localize, SyncInv, TypeOK
    <2>2. /\ pc' = [pc EXCEPT ![s] = "slot"] /\ slot' = [slot EXCEPT ![s] = k + 1]
          /\ order' = [order EXCEPT ![s] = Append(order[s], NewId)]
          /\ "slot" \in Applies /\ "slot" \in Working
      BY <1>8 DEF Goto, Advance, Applies, Working
    <2>3. /\ assets' \in Seq(Asset) /\ DistinctIds(assets)' /\ Follows
          /\ DOMAIN assets' = 1..(Len(assets) + 1)
          /\ \A i \in 1..Len(assets) : assets'[i] = assets[i]
          /\ assets'[Len(assets) + 1] = New("withheld")
          /\ Ids(assets)' = Ids(assets) \cup {NewId}
      BY <1>4, <1>8 DEF State
    <2>4. New("withheld").id = NewId /\ New("withheld").file = export[s][k]
      BY DEF New
    <2> HIDE DEF e, k
    <2>5. Len(order[s]) = k - 1 /\ DOMAIN order[s] = 1..(k - 1)
      <3>1. Len(order[s]) = k - 1
        BY <1>1 DEF SyncInv, Plan, Placed, k
      <3> QED BY <1>3, <3>1, Elements
    <2>6. /\ Append(order[s], NewId) \in Seq(Id) /\ Len(Append(order[s], NewId)) = k
          /\ DOMAIN Append(order[s], NewId) = 1..k
          /\ (\A i \in 1..(k - 1) : Append(order[s], NewId)[i] = order[s][i])
          /\ Append(order[s], NewId)[k] = NewId
          /\ Names(Append(order[s], NewId)) = Names(order[s]) \cup {NewId}
      BY <1>2, <1>3, <2>5, Appended, NamesGrow
    <2>7. /\ order'[s] = Append(order[s], NewId) /\ slot'[s] = k + 1 /\ pc'[s] = "slot"
          /\ existing'[s] = e /\ export'[s] = export[s]
      BY <1>1, <2>2 DEF SyncInv, TypeOK, e
    <2>8. TypeOK'
      <3>1. k + 1 \in Nat \ {0}
        BY <1>3
      <3> QED BY <1>1, <1>8, <2>1, <2>2, <2>3, <2>6, <3>1 DEF SyncInv, TypeOK
    <2>9. /\ \A i \in DOMAIN e : e[i].id # NewId
          /\ \A i \in 1..(k - 1) : order[s][i] # NewId
      BY <1>2, <2>5 DEF Used, Ids, Names, e
    <2>10. PlanBooks(s)'
      <3>1. \A i, j \in 1..k : order'[s][i] = order'[s][j] => i = j
        <4>1. \A i, j \in 1..(k - 1) : order[s][i] = order[s][j] => i = j
          BY <2>5 DEF SyncInv, Plan, PlanBooks
        <4>2. \A i \in 1..k : i \in 1..(k - 1) \/ i = k
          BY <1>3
        <4> QED BY <2>6, <2>7, <2>9, <4>1, <4>2
      <3>2. \A i \in DOMAIN e : i >= k + 1 => e[i].id \notin Names(order'[s])
        <4>1. \A i \in DOMAIN e : i >= k + 1 => i >= k
          BY <1>3
        <4> QED BY <2>6, <2>7, <2>9, <4>1 DEF SyncInv, Plan, PlanBooks, e, k
      <3>3. \A i \in DOMAIN assets', j \in DOMAIN e :
              assets'[i].id = e[j].id => assets'[i].file = e[j].file
        <4>1. \A i \in DOMAIN assets' : i \in 1..Len(assets) \/ i = Len(assets) + 1
          BY <1>3, <2>3
        <4>2. \A i \in 1..Len(assets), j \in DOMAIN e :
                assets[i].id = e[j].id => assets[i].file = e[j].file
          BY <1>3 DEF SyncInv, Plan, PlanBooks, e
        <4> QED BY <2>3, <2>4, <2>9, <4>1, <4>2
      <3> QED BY <2>6, <2>7, <3>1, <3>2, <3>3 DEF SyncInv, Plan, PlanBooks, DistinctIds, e, Names
    <2>11. Placed(s)'
      <3>1. \A i \in 1..(k - 1), j \in DOMAIN assets :
              assets[j].id = order[s][i] => Stands(s, assets[j], i)
        BY <1>1, <2>5 DEF SyncInv, Plan, Placed
      <3>2. \A i \in 1..k : i \in 1..(k - 1) \/ i = k
        BY <1>3
      <3>3. \A j \in DOMAIN assets' : j \in 1..Len(assets) \/ j = Len(assets) + 1
        BY <1>3, <2>3
      <3>4. ASSUME NEW i \in 1..k, NEW j \in DOMAIN assets', assets'[j].id = order'[s][i]
            PROVE  Stands(s, assets'[j], i)
        <4>1. CASE j \in 1..Len(assets)
          <5>1. assets'[j] = assets[j] /\ j \in DOMAIN assets /\ assets[j].id # NewId
            BY <1>2, <1>3, <2>3, <4>1 DEF Used, Ids
          <5>2. i \in 1..(k - 1)
            BY <2>6, <2>7, <3>2, <3>4, <5>1
          <5> QED BY <2>6, <2>7, <3>1, <3>4, <5>1, <5>2
        <4>2. CASE j = Len(assets) + 1
          <5>1. i = k
            BY <2>3, <2>4, <2>6, <2>7, <2>9, <3>2, <3>4, <4>2
          <5> QED BY <2>3, <2>4, <4>2, <5>1 DEF Stands
        <4> QED BY <3>3, <4>1, <4>2
      <3>5. /\ k + 1 <= Len(export[s]) => k = (k + 1) - 1
            /\ k + 1 > Len(export[s]) => k = Len(export[s])
        BY <1>1, <1>3 DEF k
      <3> QED BY <1>1, <2>6, <2>7, <3>4, <3>5 DEF Placed, Stands
    <2>12. AllThere(s)'
      <3>1. Fresh(s)' => Fresh(s)
        BY <2>1, <2>2, FreshBefore
      <3>2. Rest(s)' = Rest(s)
        <4>1. \A j \in DOMAIN e : (j > k \/ (j = k /\ pc[s] = "slot")) <=> (j > k + 1 \/ j = k + 1)
          BY <1>1, <1>3 DEF e, k
        <4>2. Rest(s) = {e[i].id : i \in {j \in DOMAIN e : j > k \/ (j = k /\ pc[s] = "slot")}}
          BY DEF Rest, e, k
        <4>3. Rest(s)' = {e[i].id : i \in {j \in DOMAIN e : j > k + 1 \/ j = k + 1}}
          BY <2>7 DEF Rest
        <4> QED BY <4>1, <4>2, <4>3
      <3>3. Fresh(s) => Ids(assets) = Names(order[s]) \cup Rest(s)
        BY <1>1 DEF SyncInv, Plan, AllThere
      <3>4. Names(order[s])' = Names(order[s]) \cup {NewId}
        BY ZenonT(120), <2>6, <2>7 DEF Names
      <3> QED BY <2>3, <3>1, <3>2, <3>3, <3>4 DEF AllThere
    <2>13. Plan(s)'
      BY <2>7, <2>10, <2>11, <2>12 DEF Plan, Blank, Clean, Working
    <2>14. \A q \in Sync \ {s} :
             existing'[q] = existing[q] /\ order'[q] = order[q] /\ slot'[q] = slot[q]
      BY <1>1, <2>2 DEF SyncInv, TypeOK
    <2> QED BY <1>1, <2>1, <2>2, <2>3, <2>8, <2>13, <2>14, WorkHolds
  <1> QED BY <1>1, <1>6, <1>7, <1>8 DEF Upload

\* A plan that no step of its own touches.
LEMMA PlanKept ==
  ASSUME NEW q \in Sync, Plan(q), assets' = assets, pc'[q] = pc[q], export'[q] = export[q],
         existing'[q] = existing[q], slot'[q] = slot[q], order'[q] = order[q],
         failed'[q] = failed[q], pc[q] \in Working /\ Fresh(q)' => Fresh(q)
  PROVE  Plan(q)'
  <1>1. Blank(q)' /\ PlanBooks(q)'
    BY DEF Plan, Blank, PlanBooks, DistinctIds, Names
  <1>3. Placed(q)'
    <2>1. \A j \in DOMAIN assets : \A k : Stands(q, assets[j], k) => Stands(q, assets[j], k)'
      BY DEF Stands
    <2> QED BY <2>1 DEF Plan, Placed
  <1>4. AllThere(q)'
    <2>1. Ids(assets)' = Ids(assets) /\ Rest(q)' = Rest(q) /\ Names(order[q])' = Names(order[q])
      BY DEF Ids, Rest, Names
    <2> QED BY <2>1 DEF Plan, AllThere, Working
  <1>5. Clean(q)'
    <2>1. \A j \in DOMAIN assets : \A k : Stands(q, assets[j], k) => Stands(q, assets[j], k)'
      BY DEF Stands
    <2> QED BY <2>1 DEF Plan, Clean, Working
  <1> QED BY <1>1, <1>3, <1>4, <1>5 DEF Plan

\* Listing the localizations writes nothing.
LEMMA BindHolds == ASSUME SyncInv, NEW s \in Sync, Bind(s) PROVE SyncInv'
  <1> DEFINE found == IF localized THEN "known" ELSE "missing"
  <1>1. /\ pc[s] = "idle" /\ pc' = [pc EXCEPT ![s] = "bound"]
        /\ localization' = [localization EXCEPT ![s] = found]
        /\ UNCHANGED <<localized, assets, applying, export, existing, slot, order, again, failed>>
    BY DEF Bind, Goto, pageVars
  <1>2. found \in {"missing", "known"} /\ (found = "missing" => assets = <<>>)
    BY DEF SyncInv, Unlocalized
  <1> HIDE DEF found
  <1>3. TypeOK'
    BY <1>1, <1>2 DEF SyncInv, TypeOK
  <1>4. \A q \in Sync \ {s} : pc'[q] = pc[q] /\ localization'[q] = localization[q]
    BY <1>1 DEF SyncInv, TypeOK
  <1>5. pc'[s] = "bound" /\ localization'[s] = found
    BY <1>1 DEF SyncInv, TypeOK
  <1>6. LockHasOneHolder'
    BY <1>1, <1>4, <1>5 DEF SyncInv, LockHasOneHolder, Applies
  <1>7. NoSetYet'
    <2> SUFFICES ASSUME NEW t \in Sync, pc'[t] # "idle", localization'[t] = "missing",
                        \A q \in Sync \ {t} : pc'[q] \in Quiet
                 PROVE  assets = <<>>
      BY <1>1 DEF NoSetYet
    <2>1. CASE t = s
      BY <1>2, <1>5, <2>1
    <2>2. CASE t # s
      BY <1>1, <1>4, <2>2 DEF SyncInv, NoSetYet, Quiet
    <2> QED BY <2>1, <2>2
  <1>8. ASSUME NEW q \in Sync PROVE Plan(q)'
    <2>1. CASE q = s
      BY <1>1, <1>5, <2>1 DEF SyncInv, Plan, Blank, PlanBooks, Placed, AllThere, Clean, DistinctIds,
         Names, Working
    <2>2. CASE q # s
      <3>1. pc[q] # "idle" /\ Fresh(q)' => Fresh(q)
        BY <1>1, <1>4, <1>5, <2>2 DEF Fresh
      <3> QED BY <1>1, <1>4, <2>2, <3>1, PlanKept DEF SyncInv, Working
    <2> QED BY <2>1, <2>2
  <1> QED BY <1>1, <1>3, <1>6, <1>7, <1>8 DEF SyncInv, DistinctIds, Unlocalized

\* A sync that has not begun to apply is refused, aborted or given the lock.
LEMMA NotYetHolds ==
  ASSUME SyncInv, NEW s \in Sync, pc[s] = "bound", NEW l, pc' = [pc EXCEPT ![s] = l],
         \/ l \in {"refused", "aborted"} /\ applying' = applying
         \/ l = "scan" /\ ~applying /\ applying' = TRUE,
         export' \in [Sync -> Seq(File)], \A q \in Sync \ {s} : export'[q] = export[q],
         UNCHANGED <<localized, assets, localization, existing, slot, order, again, failed>>
  PROVE  SyncInv'
  <1>1. \A q \in Sync \ {s} : pc'[q] = pc[q]
    BY DEF SyncInv, TypeOK
  <1>2. pc'[s] = l
    BY DEF SyncInv, TypeOK
  <1>3. TypeOK'
    BY DEF SyncInv, TypeOK, Applies, Ends
  <1>4. LockHasOneHolder'
    BY <1>1, <1>2 DEF SyncInv, LockHasOneHolder, Applies
  <1>5. NoSetYet'
    BY <1>1, <1>2 DEF SyncInv, NoSetYet, Quiet
  <1>6. ASSUME NEW q \in Sync PROVE Plan(q)'
    <2>1. CASE q = s
      BY <1>2, <2>1 DEF SyncInv, Plan, Blank, PlanBooks, Placed, AllThere, Clean, DistinctIds,
         Names, Working
    <2>2. CASE q # s
      <3>1. pc[q] \in Working => l # "scan"
        BY DEF SyncInv, LockHasOneHolder, Working, Applies
      <3>2. pc[q] \in Working /\ Fresh(q)' => Fresh(q)
        BY <1>1, <1>2, <2>2, <3>1 DEF Fresh
      <3> QED BY <1>1, <2>2, <3>2, PlanKept DEF SyncInv
    <2> QED BY <2>1, <2>2
  <1> QED BY <1>3, <1>4, <1>5, <1>6 DEF SyncInv, DistinctIds, Unlocalized

\* What Apple makes of an upload changes neither its id nor its file.
LEMMA ProcessHolds == ASSUME SyncInv, Process PROVE SyncInv'
  <1>1. PICK i \in DOMAIN assets, state \in {"shown", "failed"} :
          assets' = [assets EXCEPT ![i].state = state]
    BY DEF Process
  <1>2. UNCHANGED <<localized, applying, pc, localization, export, existing, slot, order, again, failed>>
    BY DEF Process, stepVars
  <1>3. assets \in Seq(Asset) /\ DOMAIN assets = 1..Len(assets) /\ Len(assets) \in Nat
        /\ \A j \in DOMAIN assets : assets[j] \in Asset
    BY Elements DEF SyncInv, TypeOK
  <1> DEFINE new == [assets[i] EXCEPT !.state = state]
  <1>4. new \in Asset /\ new.id = assets[i].id /\ new.file = assets[i].file
    BY <1>1, <1>3 DEF Asset, State
  <1>5. assets' = [assets EXCEPT ![i] = new]
    BY <1>1
  <1> HIDE DEF new
  <1>6. assets' \in Seq(Asset) /\ Len(assets') = Len(assets)
    BY <1>3, <1>4, <1>5, ExceptSeq
  <1>7. DOMAIN assets' = DOMAIN assets
        /\ \A j \in DOMAIN assets : assets'[j].id = assets[j].id /\ assets'[j].file = assets[j].file
    BY <1>3, <1>4, <1>5
  <1>8. TypeOK'
    BY <1>2, <1>6 DEF SyncInv, TypeOK
  <1>9. DistinctIds(assets)' /\ Ids(assets)' = Ids(assets) /\ assets # <<>>
    BY SMTT(60), <1>3, <1>7, EmptySeq DEF SyncInv, DistinctIds, Ids
  <1>10. (LockHasOneHolder /\ Unlocalized /\ NoSetYet)'
    BY <1>2, <1>9 DEF SyncInv, LockHasOneHolder, Unlocalized, NoSetYet
  <1>11. ASSUME NEW q \in Sync PROVE Plan(q)'
    <2>1. Fresh(q)' = Fresh(q) /\ Rest(q)' = Rest(q) /\ Names(order[q])' = Names(order[q])
      BY <1>2 DEF Fresh, Rest, Names
    <2>2. ASSUME NEW j \in DOMAIN assets, NEW k, Stands(q, assets[j], k)
          PROVE  Stands(q, assets[j], k)'
      BY <1>2, <1>7, <2>2 DEF Stands
    <2>3. Blank(q)' /\ PlanBooks(q)'
      BY <1>2, <1>7 DEF SyncInv, Plan, Blank, PlanBooks, DistinctIds, Names
    <2>4. Placed(q)'
      BY <1>2, <1>7, <2>2 DEF SyncInv, Plan, Placed
    <2>5. AllThere(q)'
      BY <1>2, <1>9, <2>1 DEF SyncInv, Plan, AllThere
    <2>6. Clean(q)'
      BY <1>2, <1>6, <1>7, <2>1, <2>2 DEF SyncInv, Plan, Clean
    <2> QED BY <2>3, <2>4, <2>5, <2>6 DEF Plan
  <1> QED BY <1>8, <1>9, <1>10, <1>11 DEF SyncInv

\* Every step keeps the invariant.
THEOREM StepHolds == SyncInv /\ [Next]_vars => SyncInv'
  <1> SUFFICES ASSUME SyncInv, [Next]_vars PROVE SyncInv'
    OBVIOUS
  <1>1. ASSUME NEW s \in Sync, Lock(s) PROVE SyncInv'
    <2>1. export \in [Sync -> Seq(File)] /\ applying \in BOOLEAN
      BY DEF SyncInv, TypeOK
    <2> QED BY <1>1, <2>1, NotYetHolds DEF Lock, Goto, pageVars, stepVars
  <1>2. ASSUME NEW s \in Sync, Abort(s) PROVE SyncInv'
    <2>1. CASE pc[s] = "bound" /\ End(s, "aborted") /\ UNCHANGED applying
      <3>1. existing[s] = <<>> /\ order[s] = <<>> /\ slot[s] = 1
        BY <2>1 DEF SyncInv, Plan, Blank, Working
      <3>2. existing' = existing /\ order' = order /\ slot' = slot
        BY <2>1, <3>1 DEF End, SyncInv, TypeOK
      <3>3. export' \in [Sync -> Seq(File)] /\ \A q \in Sync \ {s} : export'[q] = export[q]
        BY <2>1, EmptySeq DEF End, SyncInv, TypeOK
      <3>4. pc' = [pc EXCEPT ![s] = "aborted"]
            /\ UNCHANGED <<localized, assets, localization, again, failed, applying>>
        BY <2>1 DEF End, Goto, pageVars
      <3> QED BY <2>1, <3>2, <3>3, <3>4, NotYetHolds
    <2>2. CASE pc[s] \in Applies /\ Release(s, "aborted")
      BY <2>2, ReleaseHolds DEF Ends
    <2> QED BY <1>2, <2>1, <2>2 DEF Abort
  <1>3. ASSUME NEW s \in Sync, ReadBack(s) PROVE SyncInv'
    BY <1>3, ReleaseHolds DEF ReadBack, Applies, Ends
  <1>4. CASE UNCHANGED vars
    <2>1. UNCHANGED <<localized, assets, applying, pc, localization, export, existing, slot, order, again, failed>>
      BY <1>4 DEF vars, pageVars, stepVars
    <2>2. TypeOK' /\ (LockHasOneHolder /\ DistinctIds(assets) /\ Unlocalized /\ NoSetYet)'
      BY <2>1 DEF SyncInv, TypeOK, LockHasOneHolder, DistinctIds, Unlocalized, NoSetYet
    <2>3. \A q \in Sync : Plan(q)'
      <3>1. \A q \in Sync : Fresh(q)' => Fresh(q)
        BY <2>1 DEF Fresh
      <3> QED BY <2>1, <3>1, PlanKept DEF SyncInv
    <2> QED BY <2>2, <2>3 DEF SyncInv
  <1> QED BY <1>1, <1>2, <1>3, <1>4, BindHolds, ScanHolds, ReplanHolds, KeepHolds, DeleteHolds,
             UploadHolds, ReorderHolds, ProcessHolds DEF Next, Apply

-----------------------------------------------------------------------------
(* The initial states and the theorems *)

\* Apple has an id for every asset of a page.
LEMMA IdsSuffice ==
  ASSUME NEW ids \in [1..MaxFiles -> Id], NEW i \in 1..MaxFiles
  PROVE  \E id \in Id : id \notin {ids[j] : j \in 1..(i - 1)}
  <1> DEFINE T == {ids[j] : j \in 1..(i - 1)}
  <1>1. IsFiniteSet(T) /\ Cardinality(T) <= i - 1
    <2>1. IsFiniteSet(1..(i - 1)) /\ Cardinality(1..(i - 1)) = i - 1
      BY FS_Interval, MaxFilesAssumption
    <2>2. [j \in 1..(i - 1) |-> ids[j]] \in Surjection(1..(i - 1), T)
      BY DEF Surjection
    <2> QED BY <2>1, <2>2, FS_Surjection
  <1>2. CASE Id \subseteq T
    <2>1. IsFiniteSet(Id) /\ Cardinality(Id) <= Cardinality(T)
      BY <1>1, <1>2, FS_Subset
    <2>2. Cardinality(Id) \in Nat /\ Cardinality(T) \in Nat
      BY <1>1, <2>1, FS_CardinalityType
    <2> QED BY <1>1, <2>1, <2>2, IdAssumption, MaxFilesAssumption
  <1>3. CASE ~(Id \subseteq T)
    BY <1>3
  <1> QED BY <1>2, <1>3

\* No sync has planned anything at first.
THEOREM InitHolds == Init => SyncInv
  <1> SUFFICES ASSUME Init PROVE SyncInv
    OBVIOUS
  <1>1. assets \in Seq(Asset) /\ DistinctIds(assets) /\ localized \in BOOLEAN
        /\ (~localized => assets = <<>>)
    <2>1. CASE localized = FALSE /\ assets = <<>>
      <3>1. assets \in Seq(Asset) /\ DistinctIds(assets)
        BY <2>1, EmptySeq DEF DistinctIds
      <3> QED BY <2>1, <3>1, Zenon
    <2>2. CASE localized # FALSE \/ assets # <<>>
      <3>1. PICK p \in Pages, ids \in [1..MaxFiles -> Id] :
              /\ localized = TRUE
              /\ ids = [i \in 1..MaxFiles |-> CHOOSE id \in Id :
                          id \notin {ids[j] : j \in 1..(i - 1)}]
              /\ assets = [i \in DOMAIN p |-> [id |-> ids[i], file |-> p[i], state |-> "shown"]]
        BY <2>2 DEF Init
      <3>2. p \in Seq(File) /\ Len(p) \in Nat /\ Len(p) <= MaxFiles /\ DOMAIN p = 1..Len(p)
            /\ \A i \in DOMAIN p : p[i] \in File
        BY PagesAssumption, Elements
      <3>3. ASSUME NEW i \in 1..MaxFiles, NEW j \in 1..(i - 1) PROVE ids[i] # ids[j]
        <4>1. ids[i] = CHOOSE id \in Id : id \notin {ids[m] : m \in 1..(i - 1)}
          BY <3>1
        <4>2. ids[i] \notin {ids[m] : m \in 1..(i - 1)}
          BY <4>1, IdsSuffice
        <4> QED BY <4>2
      <3>4. \A i \in DOMAIN p : i \in 1..MaxFiles
        BY <3>2, MaxFilesAssumption
      <3>5. ASSUME NEW i \in DOMAIN p, NEW j \in DOMAIN p, ids[i] = ids[j] PROVE i = j
        <4>1. i \in 1..MaxFiles /\ j \in 1..MaxFiles /\ MaxFiles \in Nat
          BY <3>4, MaxFilesAssumption
        <4>2. CASE i < j
          <5>1. i \in 1..(j - 1)
            BY <4>1, <4>2
          <5> QED BY <3>3, <3>5, <4>1, <5>1
        <4>3. CASE j < i
          <5>1. j \in 1..(i - 1)
            BY <4>1, <4>3
          <5> QED BY <3>3, <3>5, <4>1, <5>1
        <4> QED BY <4>1, <4>2, <4>3
      <3>6. \A i \in DOMAIN p : [id |-> ids[i], file |-> p[i], state |-> "shown"] \in Asset
        BY <3>2, <3>4 DEF Asset, State
      <3>7. assets \in [1..Len(p) -> Asset] /\ DOMAIN assets = DOMAIN p
            /\ \A i \in DOMAIN p : assets[i].id = ids[i]
        BY <3>1, <3>2, <3>6
      <3>8. assets \in Seq(Asset)
        BY <3>2, <3>7, IsASeq
      <3>9. DistinctIds(assets)
        BY <3>5, <3>7 DEF DistinctIds
      <3> QED BY <3>1, <3>8, <3>9
    <2> QED BY <2>1, <2>2
  <1>2. /\ applying = FALSE /\ pc = [s \in Sync |-> "idle"]
        /\ localization = [s \in Sync |-> "missing"] /\ export = [s \in Sync |-> <<>>]
        /\ existing = [s \in Sync |-> <<>>] /\ slot = [s \in Sync |-> 1]
        /\ order = [s \in Sync |-> <<>>] /\ again = [s \in Sync |-> FALSE]
        /\ failed = [s \in Sync |-> FALSE]
    BY DEF Init
  <1>3. TypeOK
    <2>1. 1 \in Nat \ {0} /\ \A S : <<>> \in Seq(S)
      BY EmptySeq
    <2> QED BY <1>1, <1>2, <2>1 DEF TypeOK
  <1>4. LockHasOneHolder /\ Unlocalized /\ NoSetYet
    BY <1>1, <1>2 DEF LockHasOneHolder, Unlocalized, NoSetYet, Applies
  <1>5. ASSUME NEW s \in Sync PROVE Plan(s)
    BY <1>2 DEF Plan, Blank, PlanBooks, Placed, AllThere, Clean, DistinctIds, Names
  <1> QED BY <1>1, <1>3, <1>4, <1>5 DEF SyncInv

\* Whatever syncs overlap and fail, the invariant holds.
THEOREM InductiveInvariant == Spec => []SyncInv
  <1> QED BY InitHolds, StepHolds, PTL DEF Spec

\* At most one sync applies to the page, and the key is held exactly while one
\* does, however the calls are refused, fail or are cancelled.
THEOREM OneHolder == Spec => []LockHasOneHolder
  <1>1. SyncInv => LockHasOneHolder
    BY DEF SyncInv
  <1> QED BY <1>1, InductiveInvariant, PTL

\* A step works through the set that is there, also after failed and half-landed
\* writes: nothing in the set is neither placed nor planned for.
THEOREM PlanCoversTheSet == Spec => []NothingUnplanned
  <1>1. SyncInv => NothingUnplanned
    BY DEF SyncInv, Plan, AllThere, Rest, NothingUnplanned
  <1> QED BY <1>1, InductiveInvariant, PTL

\* A sync without a failed row leaves exactly the export, in its order, a slot
\* that was still processing a file of the same name and size excepted.
THEOREM CleanSyncIsExport == Spec => []CleanSyncShowsExport
  <1>1. SyncInv => CleanSyncShowsExport
    BY DEF SyncInv, Plan, Clean, Stands, CleanSyncShowsExport
  <1> QED BY <1>1, InductiveInvariant, PTL
=============================================================================
