--------------------------- MODULE SubApplyProofs ---------------------------
(***************************************************************************)
(* Proofs about what goes with an apply of subscription prices, for any    *)
(* prices, territories, offers and overlapping requests: the introductory  *)
(* offers (IntroOffers), what a preview suggests and an apply then skips   *)
(* (PricePreview) and the versions that record the applies                 *)
(* (PriceVersions), each with its inductive invariant, and then the        *)
(* specification the run checks, which moves one of them.                  *)
(***************************************************************************)
EXTENDS MCSubApply, FiniteSetTheorems, SequenceTheorems, TLAPS

-----------------------------------------------------------------------------
(* PriceVersions.  The number a save is about to insert was the next one   *)
(* when it was read; it is taken now only if somebody saved since.  So     *)
(* after k lost races there are at least k versions (Counted).             *)

\* What the numbers read and the attempts spent say of the number of versions.
Counted ==
  /\ IsFiniteSet(versions)
  /\ \A s \in Saver :
       /\ pc[s] \in {"apply", "read"} => attempt[s] <= Cardinality(versions) + 1
       /\ pc[s] = "insert" =>
            /\ attempt[s] <= number[s]
            /\ number[s] \in 1..(Cardinality(versions) + 1)

\* The inductive invariant of the saves.
VersionInv == TypeOK /\ Numbered /\ Counted /\ OutracedByEnough

\* There are that many versions.
LEMMA CardNat == IsFiniteSet(versions) => Cardinality(versions) \in Nat
  BY FS_CardinalityType

\* Before the first save there is nothing to count.
LEMMA VersionInit == Init => VersionInv
  <1> SUFFICES ASSUME Init PROVE VersionInv
    OBVIOUS
  <1>1. IsFiniteSet(versions) /\ Cardinality(versions) = 0
    BY FS_EmptySet DEF Init
  <1>2. Taken = {}
    BY DEF Init, Taken
  <1>3. 1..0 = {}
    OBVIOUS
  <1>4. TypeOK
    BY AttemptsAssumption DEF Init, TypeOK
  <1>5. Numbered
    BY <1>1, <1>2, <1>3 DEF Numbered
  <1>6. Counted /\ OutracedByEnough
    BY <1>1 DEF Init, Counted, OutracedByEnough
  <1> QED BY <1>4, <1>5, <1>6 DEF VersionInv

\* A step that saves nothing keeps the numbering.
LEMMA SameVersions ==
  ASSUME Numbered, UNCHANGED versions
  PROVE  Numbered'
  BY DEF Numbered, Taken

\* A read number is the next one, and a lost race proves that somebody saved.
LEMMA VersionStepHolds == VersionInv /\ [Next]_vars => VersionInv'
  <1> SUFFICES ASSUME VersionInv, [Next]_vars PROVE VersionInv'
    OBVIOUS
  <1> DEFINE n == Cardinality(versions)
  <1>1. n \in Nat
    BY CardNat DEF VersionInv, Counted
  <1> HIDE DEF n
  <1>2. ASSUME NEW s \in Saver, Start(s) PROVE VersionInv'
    <2>1. TypeOK'
      BY <1>2 DEF VersionInv, Start, TypeOK, Ends
    <2>2. Counted'
      BY <1>2 DEF VersionInv, Start, TypeOK, Counted
    <2>3. OutracedByEnough'
      BY <1>2 DEF VersionInv, Start, TypeOK, OutracedByEnough
    <2> QED BY <1>2, <2>1, <2>2, <2>3, SameVersions DEF VersionInv, Start
  <1>3. ASSUME NEW s \in Saver, Read(s) PROVE VersionInv'
    <2>1. PICK m \in 1..(n + 1) : IsNext(m) /\ number' = [number EXCEPT ![s] = m]
      BY <1>3 DEF Read, n
    <2>2. Taken = 1..n
      BY DEF VersionInv, Numbered, n
    <2>3. m = n + 1
      <3>1. n \in Nat /\ m \in 1..(n + 1) /\ \A k \in 1..n : k < m
        BY <1>1, <2>1, <2>2 DEF IsNext
      <3> QED BY <3>1
    <2>4. TypeOK'
      BY <1>1, <1>3, <2>1 DEF VersionInv, Read, TypeOK, Ends
    <2>5. attempt[s] <= n + 1
      BY <1>3 DEF VersionInv, Counted, Read, n
    <2>6. Counted'
      BY <1>1, <1>3, <2>1, <2>3, <2>5 DEF VersionInv, Read, TypeOK, Counted, n
    <2>7. OutracedByEnough'
      BY <1>3 DEF VersionInv, Read, TypeOK, OutracedByEnough
    <2> QED BY <1>3, <2>4, <2>6, <2>7, SameVersions DEF VersionInv, Read
  <1>4. ASSUME NEW s \in Saver, Insert(s), Collides(s) PROVE VersionInv'
    <2>1. number[s] <= n
      BY <1>1, <1>4 DEF VersionInv, Numbered, Collides, n
    <2>2. attempt[s] <= n /\ attempt[s] \in Nat /\ number[s] \in Nat
      BY <1>1, <1>4, <2>1 DEF VersionInv, Counted, Insert, TypeOK
    <2>3. Conflict(s) /\ UNCHANGED <<versions, number>>
      BY <1>4 DEF Insert
    <2>4. TypeOK'
      BY <2>3, AttemptsAssumption DEF VersionInv, Conflict, TypeOK, Ends
    <2>5. CASE attempt[s] = VERSION_INSERT_ATTEMPTS
      <3>1. Counted'
        BY <2>3, <2>5 DEF VersionInv, Conflict, TypeOK, Counted
      <3>2. OutracedByEnough'
        BY <2>2, <2>3, <2>5 DEF VersionInv, Conflict, TypeOK, OutracedByEnough, n
      <3> QED BY <2>3, <2>4, <3>1, <3>2, SameVersions DEF VersionInv
    <2>6. CASE attempt[s] # VERSION_INSERT_ATTEMPTS
      <3>1. Counted'
        BY <1>1, <2>2, <2>3, <2>6 DEF VersionInv, Conflict, TypeOK, Counted, n
      <3>2. OutracedByEnough'
        BY <2>3, <2>6 DEF VersionInv, Conflict, TypeOK, OutracedByEnough
      <3> QED BY <2>3, <2>4, <3>1, <3>2, SameVersions DEF VersionInv
    <2> QED BY <2>5, <2>6
  <1>5. ASSUME NEW s \in Saver, Insert(s), ~Collides(s) PROVE VersionInv'
    <2> DEFINE added == [version |-> number[s], saver |-> s]
    <2>1. /\ versions' = versions \cup {added} /\ pc' = [pc EXCEPT ![s] = "saved"]
          /\ UNCHANGED <<attempt, number>> /\ pc[s] = "insert"
      BY <1>5 DEF Insert
    <2>2. Taken = 1..n /\ number[s] \notin Taken /\ number[s] \in 1..(n + 1)
      BY <1>5, <2>1 DEF VersionInv, Numbered, Collides, Counted, n
    <2>3. number[s] = n + 1
      BY <1>1, <2>2
    <2>4. added \notin versions
      BY <2>2 DEF Taken
    <2>5. IsFiniteSet(versions') /\ Cardinality(versions') = n + 1
      BY <2>1, <2>4, FS_AddElement DEF VersionInv, Counted, n
    <2>6. Taken' = Taken \cup {number[s]}
      <3>1. added.version = number[s]
        OBVIOUS
      <3> HIDE DEF added
      <3> QED BY <2>1, <3>1 DEF Taken
    <2>7. Numbered'
      <3>1. Taken' = 1..(n + 1)
        BY <1>1, <2>2, <2>3, <2>6
      <3> QED BY <2>5, <3>1 DEF Numbered
    <2>8. versions' \in SUBSET Row
      BY <1>1, <2>1, <2>3 DEF VersionInv, TypeOK, Row
    <2>9. TypeOK'
      BY <2>1, <2>8 DEF VersionInv, TypeOK, Ends
    <2> HIDE DEF added
    <2>10. Counted'
      <3>1. \A t \in Saver : pc'[t] # "saved" => t # s /\ pc'[t] = pc[t]
        BY <2>1 DEF VersionInv, TypeOK
      <3>2. ASSUME NEW t \in Saver, pc'[t] \in {"apply", "read"}
            PROVE  attempt'[t] <= (n + 1) + 1
        <4>1. attempt[t] <= n + 1 /\ attempt[t] \in Nat
          BY <3>1, <3>2 DEF VersionInv, Counted, TypeOK, n
        <4> QED BY <1>1, <2>1, <4>1
      <3>3. ASSUME NEW t \in Saver, pc'[t] = "insert"
            PROVE  attempt'[t] <= number'[t] /\ number'[t] \in 1..((n + 1) + 1)
        <4>1. attempt[t] <= number[t] /\ number[t] \in 1..(n + 1)
          BY <3>1, <3>3 DEF VersionInv, Counted, n
        <4> QED BY <1>1, <2>1, <4>1
      <3> QED BY <2>5, <3>2, <3>3 DEF Counted
    <2>11. OutracedByEnough'
      BY <1>1, <2>1, <2>5, AttemptsAssumption DEF VersionInv, TypeOK, OutracedByEnough, n
    <2> QED BY <2>7, <2>9, <2>10, <2>11 DEF VersionInv
  <1>6. ASSUME NEW s \in Saver, Stop(s) PROVE VersionInv'
    <2>1. PICK end \in {"failed", "died"} : pc' = [pc EXCEPT ![s] = end]
      BY <1>6 DEF Stop
    <2>2. TypeOK'
      BY <1>6, <2>1 DEF VersionInv, Stop, TypeOK, Ends
    <2>3. Counted'
      BY <1>6, <2>1 DEF VersionInv, Stop, TypeOK, Counted
    <2>4. OutracedByEnough'
      BY <1>6, <2>1 DEF VersionInv, Stop, TypeOK, OutracedByEnough
    <2> QED BY <1>6, <2>2, <2>3, <2>4, SameVersions DEF VersionInv, Stop
  <1>7. CASE UNCHANGED vars
    BY <1>7 DEF vars, VersionInv, TypeOK, Numbered, Taken, Counted, OutracedByEnough
  <1> QED BY <1>2, <1>3, <1>4, <1>5, <1>6, <1>7 DEF Next

\* The numbers read and the attempts spent never run ahead of the versions.
LEMMA VersionsInductive == Spec => []VersionInv
  <1> QED BY VersionInit, VersionStepHolds, PTL DEF Spec

\* However many saves overlap and fail, the versions are 1, 2, 3, ...
THEOREM AlwaysNumbered == Spec => []Numbered
  <1>1. VersionInv => Numbered
    BY DEF VersionInv
  <1> QED BY <1>1, VersionsInductive, PTL

\* A save that lost every race was outrun by as many others as it has attempts;
\* in particular no version is lost to races among that many saves.
THEOREM OutracedOnlyByEnough == Spec => []OutracedByEnough
  <1>1. VersionInv => OutracedByEnough
    BY DEF VersionInv
  <1> QED BY <1>1, VersionsInductive, PTL
\* No two rows have one number, and a row, once there, stays: with VersionInv
\* what the refinement of VersionLog rests on.
OneRowEach == \A v, w \in versions : v.version = w.version => v = w

\* Whose row a number is.
LEMMA SaverIs ==
  ASSUME OneRowEach, NEW v \in versions
  PROVE  SaverOf(v.version) = v.saver
  <1>1. (CHOOSE w \in versions : w.version = v.version) = v
    BY DEF OneRowEach
  <1> QED BY <1>1 DEF SaverOf

\* What a sequence with one more element is.
LEMMA OneMore ==
  ASSUME NEW S, NEW n \in Nat, NEW f \in [1..n -> S], NEW g \in [1..(n + 1) -> S],
         \A i \in 1..n : g[i] = f[i]
  PROVE  g = Append(f, g[n + 1])
  <1> DEFINE e == g[n + 1]
  <1>1. f \in Seq(S) /\ Len(f) = n /\ g \in Seq(S) /\ Len(g) = n + 1 /\ e \in S
    OBVIOUS
  <1> HIDE DEF e
  <1>2. /\ Append(f, e) \in Seq(S) /\ Len(Append(f, e)) = n + 1
        /\ \A i \in 1..n : Append(f, e)[i] = f[i]
        /\ Append(f, e)[n + 1] = e
    BY <1>1, AppendProperties
  <1>3. \A i \in 1..(n + 1) : Append(f, e)[i] = g[i]
    <2> TAKE i \in 1..(n + 1)
    <2>1. CASE i = n + 1
      BY <1>2, <2>1 DEF e
    <2>2. CASE i # n + 1
      <3>1. i \in 1..n
        BY <2>2
      <3> QED BY <1>2, <3>1
    <2> QED BY <2>1, <2>2
  <1>4. g = Append(f, e)
    BY <1>1, <1>2, <1>3, SeqEqual
  <1> QED BY <1>4 DEF e

\* Nobody inserts a number that is taken.
LEMMA RowsStayDistinct ==
  ASSUME VersionInv, OneRowEach, [Next]_vars
  PROVE  OneRowEach'
  <1>1. CASE versions' = versions
    BY <1>1 DEF OneRowEach
  <1>2. ASSUME NEW s \in Saver, Insert(s), ~Collides(s) PROVE OneRowEach'
    <2> DEFINE added == [version |-> number[s], saver |-> s]
    <2>1. versions' = versions \cup {added} /\ added.version = number[s]
      BY <1>2 DEF Insert
    <2>2. \A v \in versions : v.version # number[s]
      BY <1>2 DEF Collides, Taken
    <2> HIDE DEF added
    <2> QED BY <2>1, <2>2 DEF OneRowEach
  <1>3. versions' = versions \/ \E s \in Saver : Insert(s) /\ ~Collides(s)
    BY DEF Next, vars, Start, Read, Insert, Stop
  <1> QED BY <1>1, <1>2, <1>3

\* An empty table is an empty log and nobody has been told anything.
LEMMA LogBegins == Init => Log!Init
  <1> SUFFICES ASSUME Init PROVE Log!Init
    OBVIOUS
  <1>1. Taken = {}
    BY DEF Init, Taken
  <1>2. [n \in Taken |-> SaverOf(n)] = <<>>
    BY <1>1
  <1>3. \A s \in Saver : Told(s) = "waiting"
    BY DEF Init, Told, Ends
  <1> QED BY <1>2, <1>3 DEF Log!Init

\* What a saver is told changes with its step and for nobody else.
LEMMA ToldMoves ==
  ASSUME TypeOK, NEW s \in Saver, NEW to, pc' = [pc EXCEPT ![s] = to]
  PROVE  /\ \A t \in Saver \ {s} : Told(t)' = Told(t)
         /\ pc'[s] = to
  BY DEF Told, TypeOK

\* A step that inserts nothing leaves the log as it is.
LEMMA LogStays ==
  ASSUME UNCHANGED versions
  PROVE  [n \in Taken |-> SaverOf(n)]' = [n \in Taken |-> SaverOf(n)]
  BY DEF Taken, SaverOf

\* A save that ends without a row fails.
LEMMA FailMaps ==
  ASSUME TypeOK, NEW s \in Saver, pc[s] \in {"read", "insert"}, UNCHANGED versions,
         NEW end \in Ends \ {"saved"}, pc' = [pc EXCEPT ![s] = end]
  PROVE  Log!Fail(s)
  <1>1. Told(s) = "waiting" /\ Told(s)' = "failed"
    BY ToldMoves DEF Told, Ends
  <1>2. [t \in Saver |-> Told(t)]' = [[t \in Saver |-> Told(t)] EXCEPT ![s] = "failed"]
    BY <1>1, ToldMoves
  <1> QED BY <1>1, <1>2, LogStays DEF Log!Fail

\* A step on the way changes nothing anybody is told.
LEMMA WaitMaps ==
  ASSUME TypeOK, NEW s \in Saver, pc[s] \notin Ends, UNCHANGED versions,
         NEW to \in {"apply", "read", "insert"}, pc' = [pc EXCEPT ![s] = to]
  PROVE  UNCHANGED Log!vars
  <1>1. Told(s) = "waiting" /\ Told(s)' = "waiting"
    BY ToldMoves DEF Told, Ends
  <1>2. \A t \in Saver : Told(t)' = Told(t)
    BY <1>1, ToldMoves
  <1>3. [t \in Saver |-> Told(t)]' = [t \in Saver |-> Told(t)]
    BY <1>2
  <1> QED BY <1>3, LogStays DEF Log!vars

\* The row inserted is the entry at the end: the number was the next one, and the
\* rows before it keep their numbers.
LEMMA InsertMaps ==
  ASSUME VersionInv, VersionInv', OneRowEach, OneRowEach', NEW s \in Saver, Insert(s), ~Collides(s)
  PROVE  Log!Save(s)
  <1>0. PICK n \in Nat : n = Cardinality(versions)
    BY CardNat DEF VersionInv, Counted
  <1> DEFINE added == [version |-> number[s], saver |-> s]
             f == [i \in Taken |-> SaverOf(i)]
             g == [i \in Taken |-> SaverOf(i)]'
  <1>1. /\ versions' = versions \cup {added} /\ pc[s] = "insert" /\ pc' = [pc EXCEPT ![s] = "saved"]
        /\ added.version = number[s] /\ added.saver = s
    BY DEF Insert
  <1>2. n \in Nat /\ Taken = 1..n /\ number[s] \notin Taken /\ number[s] \in 1..(n + 1)
    <2>1. Taken = 1..n /\ number[s] \notin Taken
      BY <1>0 DEF VersionInv, Numbered, Collides
    <2>2. number[s] \in 1..(n + 1)
      BY <1>0, <1>1 DEF VersionInv, Counted
    <2> QED BY <2>1, <2>2
  <1>3. number[s] = n + 1
    BY <1>2
  <1> HIDE DEF added
  <1>4. Taken' = 1..(n + 1)
    <2>1. Taken' = Taken \cup {number[s]}
      BY <1>1 DEF Taken
    <2> QED BY <1>2, <1>3, <2>1
  <1>5. \A v \in versions : v.saver \in Saver
    BY DEF VersionInv, TypeOK, Row
  <1>6. \A i \in 1..n : SaverOf(i)' = SaverOf(i) /\ SaverOf(i) \in Saver
    <2> TAKE i \in 1..n
    <2>1. PICK v \in versions : v.version = i
      BY <1>2 DEF Taken
    <2>2. SaverOf(i) = v.saver
      BY <2>1, SaverIs
    <2>3. \A w \in versions' : w.version = i => w = v
      BY <1>1, <2>1 DEF OneRowEach
    <2>4. (CHOOSE w \in versions' : w.version = i) = v
      BY <1>1, <2>1, <2>3
    <2> QED BY <1>5, <2>1, <2>2, <2>4 DEF SaverOf
  <1>7. SaverOf(n + 1)' = s
    <2>1. \A w \in versions' : w.version = n + 1 => w = added
      BY <1>1, <1>3 DEF OneRowEach
    <2>2. (CHOOSE w \in versions' : w.version = n + 1) = added
      BY <1>1, <1>3, <2>1
    <2>3. SaverOf(n + 1)' = (CHOOSE w \in versions' : w.version = n + 1).saver
      BY DEF SaverOf
    <2> QED BY <1>1, <2>2, <2>3
  <1>8. f \in [1..n -> Saver] /\ g \in [1..(n + 1) -> Saver] /\ g[n + 1] = s
        /\ \A i \in 1..n : g[i] = f[i]
    <2>1. f = [i \in 1..n |-> SaverOf(i)] /\ g = [i \in 1..(n + 1) |-> SaverOf(i)']
      BY <1>2, <1>4
    <2>2. f \in [1..n -> Saver] /\ \A i \in 1..n : f[i] = SaverOf(i)
      BY <1>6, <2>1
    <2>3. \A i \in 1..(n + 1) : i \in 1..n \/ i = n + 1
      BY <1>2
    <2> HIDE DEF f, g
    <2>4. g \in [1..(n + 1) -> Saver] /\ \A i \in 1..(n + 1) : g[i] = SaverOf(i)'
      BY <1>6, <1>7, <2>1, <2>3
    <2>5. n + 1 \in 1..(n + 1) /\ \A i \in 1..n : i \in 1..(n + 1)
      BY <1>2
    <2> QED BY <1>6, <1>7, <2>2, <2>4, <2>5
  <1> HIDE DEF f, g
  <1>9. g = Append(f, s)
    BY <1>2, <1>8, OneMore
  <1>10. Told(s) = "waiting" /\ Told(s)' = "saved" /\ TypeOK
    BY <1>1 DEF Told, Ends, VersionInv, TypeOK
  <1>11. [t \in Saver |-> Told(t)]' = [[t \in Saver |-> Told(t)] EXCEPT ![s] = "saved"]
    BY <1>1, <1>10, ToldMoves
  <1> QED BY <1>9, <1>10, <1>11 DEF Log!Save, f, g

\* Each step of a save is a step of the log or none.
LEMMA LogSteps ==
  ASSUME VersionInv, VersionInv', OneRowEach, OneRowEach', [Next]_vars
  PROVE  [Log!Next]_(Log!vars)
  <1>0. TypeOK
    BY DEF VersionInv
  <1>1. ASSUME NEW s \in Saver, Start(s) PROVE UNCHANGED Log!vars
    BY <1>0, <1>1, WaitMaps DEF Start, Ends
  <1>2. ASSUME NEW s \in Saver, Read(s) PROVE UNCHANGED Log!vars
    BY <1>0, <1>2, WaitMaps DEF Read, Ends
  <1>3. ASSUME NEW s \in Saver, Insert(s), Collides(s) PROVE Log!Fail(s) \/ UNCHANGED Log!vars
    <2>1. pc[s] = "insert" /\ UNCHANGED versions
          /\ (pc' = [pc EXCEPT ![s] = "outraced"] \/ pc' = [pc EXCEPT ![s] = "read"])
      BY <1>3 DEF Insert, Conflict
    <2> QED BY <1>0, <2>1, FailMaps, WaitMaps DEF Ends
  <1>4. ASSUME NEW s \in Saver, Insert(s), ~Collides(s) PROVE Log!Save(s)
    BY <1>4, InsertMaps
  <1>5. ASSUME NEW s \in Saver, Stop(s) PROVE Log!Fail(s)
    <2>1. pc[s] \in {"read", "insert"} /\ UNCHANGED versions
          /\ \E end \in {"failed", "died"} : pc' = [pc EXCEPT ![s] = end]
      BY <1>5 DEF Stop
    <2> QED BY <1>0, <2>1, FailMaps DEF Ends
  <1>6. CASE UNCHANGED vars
    <2>1. \A t \in Saver : Told(t)' = Told(t)
      BY <1>6 DEF vars, Told
    <2>2. [t \in Saver |-> Told(t)]' = [t \in Saver |-> Told(t)]
      BY <2>1
    <2> QED BY <1>6, <2>2, LogStays DEF Log!vars, vars
  <1> QED BY <1>1, <1>2, <1>3, <1>4, <1>5, <1>6 DEF Next, Log!Next

\* Saving versions implements VersionLog: however saves overlap, lose the race for
\* a number and read again (record_price_version), each appends one entry at the
\* end of the log at once, or none; no entry is changed, and who is told so has one.
THEOREM VersionsAreALog == Spec => SavesAppend
  <1>1. Init => VersionInv /\ OneRowEach /\ Log!Init
    BY VersionInit, LogBegins DEF Init, OneRowEach
  <1>2. VersionInv /\ OneRowEach /\ [Next]_vars => VersionInv' /\ OneRowEach' /\ [Log!Next]_(Log!vars)
    BY VersionStepHolds, RowsStayDistinct, LogSteps
  <1> QED BY <1>1, <1>2, PTL DEF Spec, SavesAppend, Log!Spec
-----------------------------------------------------------------------------
(* IntroOffers, for the apply MCSubApply explores.                         *)

\* The plan of the apply, once made: every target has its offer, or is still to
\* be given it, or has failed; what is deleted and wanted is created again.
OfferPlan ==
  /\ applied[a1] \subseteq priced
  /\ offerPc[a1] # "idle" => answer[a1] = "none"
  /\ offerPc[a1] = "diff" => listed[a1] = offer
  /\ offerPc[a1] \in {"delete", "create"} =>
       /\ toDelete[a1] \cap target[a1] \subseteq toCreate[a1]
       /\ \A t \in target[a1] : t \in toCreate[a1] \cup failed[a1] \/ offer[t] = desired[a1]
  /\ offerPc[a1] = "create" => toDelete[a1] = {}

\* The inductive invariant of the introductory offers.
OfferInv == Trials!TypeOK /\ OfferPlan

\* No apply has planned anything at first.
LEMMA OfferInit == Trials!Init => OfferInv
  BY DEF Trials!Init, OfferInv, Trials!TypeOK, OfferPlan, Trials!Offers, Trials!NoOffers,
         Trials!Sets, Trials!Nothing

\* What a step that reports a trial as synced must find.
SyncedNow ==
  offerPc[a1] = "create" /\ answer'[a1] = "synced" =>
    \A t \in target[a1] : offer[t] = desired[a1]

\* Deletes and creates, whichever of them fail, keep the plan's books; the answer
\* is synced only when nothing is left to create and nothing failed.
LEMMA OfferStepHolds ==
  ASSUME OfferInv, [Trials!Next]_(Trials!vars)
  PROVE  OfferInv' /\ (Trials!vars' = Trials!vars \/ SyncedNow)
  <1> USE DEF Trials!appleVars, Trials!askVars, Trials!planVars
  <1>1. CASE UNCHANGED Trials!vars
    BY <1>1 DEF Trials!vars, OfferInv, Trials!TypeOK, OfferPlan
  <1>2. CASE Trials!Sync
    BY <1>2 DEF Trials!Sync, OfferInv, Trials!TypeOK, OfferPlan, SyncedNow
  <1>3. CASE Trials!StartApply(a1)
    BY <1>3 DEF Trials!StartApply, OfferInv, Trials!TypeOK, OfferPlan, SyncedNow, Trials!Sets
  <1>4. CASE Trials!PriceItems(a1)
    BY <1>4 DEF Trials!PriceItems, OfferInv, Trials!TypeOK, OfferPlan, SyncedNow, Trials!Sets
  <1>5. CASE Trials!ListOffers(a1)
    BY <1>5 DEF Trials!ListOffers, Trials!Clear, OfferInv, Trials!TypeOK, OfferPlan, SyncedNow, Trials!Sets, Trials!Offers, Trials!NoOffers
  <1>6. CASE Trials!Diff(a1)
    <2>1. /\ offerPc[a1] = "diff" /\ offerPc' = [offerPc EXCEPT ![a1] = "delete"]
          /\ target' = [target EXCEPT ![a1] = Trials!Targets(a1)]
          /\ toDelete' = [toDelete EXCEPT ![a1] = Trials!Changed(a1) \cup Trials!Orphans(a1)]
          /\ toCreate' = [toCreate EXCEPT ![a1] = Trials!Missing(a1) \cup Trials!Changed(a1)]
          /\ UNCHANGED <<priced, offer, cached, items, desired, applied, listed, created, failed, answer>>
      BY <1>6 DEF Trials!Diff, Trials!ToCreate
    <2>2. Trials!Targets(a1) \subseteq priced
      BY <2>1 DEF OfferInv, OfferPlan, Trials!TypeOK, Trials!Targets
    <2>3. Trials!TypeOK'
      BY <2>1, <2>2 DEF OfferInv, Trials!TypeOK, Trials!Sets, Trials!Changed, Trials!Orphans,
         Trials!Missing, Trials!Targets
    <2>4. OfferPlan'
      BY <2>1 DEF OfferInv, OfferPlan, Trials!TypeOK, Trials!Sets, Trials!Changed, Trials!Orphans,
         Trials!Missing
    <2>5. SyncedNow
      BY <2>1 DEF SyncedNow
    <2> QED BY <2>3, <2>4, <2>5 DEF OfferInv
  <1>7. CASE Trials!DeletesDone(a1)
    BY <1>7 DEF Trials!DeletesDone, OfferInv, Trials!TypeOK, OfferPlan, SyncedNow, Trials!Sets
  <1>8. CASE Trials!Finish(a1) \/ Trials!Die(a1)
    BY <1>8 DEF Trials!Finish, Trials!Die, Trials!Clear, OfferInv, Trials!TypeOK, OfferPlan, SyncedNow, Trials!Sets, Trials!Answer, Trials!Offers, Trials!NoOffers
  <1>9. ASSUME NEW t \in Territory, Trials!DeleteOne(a1, t) PROVE OfferInv' /\ SyncedNow
    BY <1>9 DEF Trials!DeleteOne, OfferInv, Trials!TypeOK, OfferPlan, SyncedNow, Trials!Sets, Trials!Offers
  <1>10. ASSUME NEW t \in Territory, Trials!CreateOne(a1, t) PROVE OfferInv' /\ SyncedNow
    BY <1>10 DEF Trials!CreateOne, OfferInv, Trials!TypeOK, OfferPlan, SyncedNow, Trials!Sets, Trials!Offers
  <1> QED BY <1>1, <1>2, <1>3, <1>4, <1>5, <1>6, <1>7, <1>8, <1>9, <1>10 DEF Trials!Next

-----------------------------------------------------------------------------
(* PricePreview.  The items of a preview share its mode, and while nothing *)
(* has changed they are what the files and the rows say.                   *)

\* The product of two amounts is one.
LEMMA Product == \A m, n \in Nat : m * n \in Nat
  OBVIOUS

\* A quotient of two amounts is one.
LEMMA Quotient == \A m \in Nat, n \in Nat \ {0} : m \div n \in Nat
  OBVIOUS

\* What a preview starts from is an amount, for every kind of request.
LEMMA RawIsAmount ==
  ASSUME index \in [Shown -> Nat \cup {Previews!None}],
         NEW body \in Bodies, ~Previews!Refused(body), NEW t \in Previews!Computed(body)
  PROVE  t \in Shown /\ Previews!Raw(t, body) \in Nat
<1>1. t \in Shown /\ index[t] \in Nat \cup {Previews!None}
  BY DEF Previews!Computed
<1> DEFINE amount == IF body.type = "ppp" THEN Previews!Proportional(body.price, index[t], index[us])
                     ELSE Previews!Convert(Previews!BasePriceFor(t, body), Previews!BaseCurrency(body),
                                           Previews!effective_currency(t))
<1>2. ASSUME body.type = "ppp" PROVE amount \in Nat
  <2>1. body.price \in Nat
    BY <1>2, PreviewSetting
  <2>2. index[t] \in Nat
    BY <1>1, <1>2 DEF Previews!Computed
  <2>3. index[us] \in Nat \ {0}
    BY <1>2, PreviewSetting DEF Previews!Refused
  <2>4. body.price * index[t] \in Nat
    BY <2>1, <2>2, Product
  <2>5. amount = (body.price * index[t]) \div index[us]
    BY <1>2, <2>3 DEF Previews!Proportional
  <2> QED BY <2>3, <2>4, <2>5, Quotient
<1>3. ASSUME body.type # "ppp" PROVE amount \in Nat
  <2> DEFINE from == Previews!BaseCurrency(body)
             to == Previews!effective_currency(t)
             price == Previews!BasePriceFor(t, body)
  <2>1. price \in Nat
    <3>1. CASE body.type = "gdp_brackets"
      <4>1. Previews!assign_tier(t, body.config) \in {"top", "mid", "low", "special"}
        BY <3>1, PreviewSetting DEF Previews!assign_tier
      <4> QED BY <3>1, <4>1, PreviewSetting DEF Previews!BasePriceFor
    <3> QED BY <3>1, PreviewSetting DEF Previews!BasePriceFor
  <2>2. Previews!Convertible(from, to)
    BY <1>3 DEF Previews!Computed
  <2>3. amount = Previews!Convert(price, from, to)
    BY <1>3
  <2>4. CASE from = to
    BY <2>1, <2>3, <2>4 DEF Previews!Convert
  <2>5. CASE from # to
    <3>1. Rates[from] \in Nat \ {0} /\ Rates[to] \in Nat \ {0}
      BY <2>2, <2>5, PreviewSetting DEF Previews!Convertible
    <3>2. price * Rates[to] \in Nat
      BY <2>1, <3>1, Product
    <3>3. amount = (price * Rates[to]) \div Rates[from]
      BY <2>3, <2>5 DEF Previews!Convert
    <3> QED BY <3>1, <3>2, <3>3, Quotient
  <2> QED BY <2>4, <2>5
<1>4. amount \in Nat
  BY <1>2, <1>3
<1>5. Previews!Raw(t, body) = Previews!apply_vat(amount, t, body)
  BY DEF Previews!Raw
<1>6. CASE body.vat
  <2>1. 100 + Vat[t] \in Nat
    BY <1>1, PreviewSetting
  <2>2. amount * (100 + Vat[t]) \in Nat
    BY <1>4, <2>1, Product
  <2>3. Previews!Raw(t, body) = (amount * (100 + Vat[t])) \div 100
    BY <1>5, <1>6 DEF Previews!apply_vat
  <2> QED BY <1>1, <2>2, <2>3, Quotient
<1>7. CASE ~body.vat
  BY <1>1, <1>4, <1>5, <1>7 DEF Previews!apply_vat
<1> QED BY <1>6, <1>7

-----------------------------------------------------------------------------
\* A preview is of one mode; while nothing has changed, an item with a tier is what
\* the file and the row of its territory say.
Modes == {"none"} \cup {body.mode : body \in Bodies}
Made(t, mode) ==
  /\ t \in Shown /\ seen[t].raw \in Nat
  /\ seen[t].suggested = Previews!finalize_price(seen[t].raw, mode, seen[t].currency)
Stands(t) ==
  seen[t].tier # Previews!None =>
    /\ Previews!Has(t)
    /\ seen[t].price = ladder[t].prices[seen[t].tier]
    /\ seen[t].would_be_skipped = Previews!Trips(row[t], seen[t].price)

PreviewInv ==
  /\ index \in [Shown -> Nat \cup {Previews!None}]
  /\ \E mode \in Modes : \A t \in DOMAIN seen : ~seen[t].manual => Made(t, mode)
  /\ fresh => \A t \in DOMAIN seen : ~seen[t].manual => Stands(t)
  /\ Previews!Foretells

\* At first nothing is shown.
LEMMA PreviewInit == Previews!Init => PreviewInv
<1> SUFFICES ASSUME Previews!Init PROVE PreviewInv
  OBVIOUS
<1>1. index \in [Shown -> Nat \cup {Previews!None}]
  BY PreviewSetting DEF Previews!Init, Previews!None
<1>2. DOMAIN seen = {} /\ ~fresh /\ told = {}
  BY DEF Previews!Init
<1>3. "none" \in Modes
  BY DEF Modes
<1> QED BY <1>1, <1>2, <1>3 DEF PreviewInv, Previews!Foretells

\* A preview makes its items in one mode, from the files and rows that are there.
LEMMA PreviewMakes ==
  ASSUME PreviewInv, NEW body \in Bodies, Previews!Preview(body)
  PROVE  PreviewInv'
<1> DEFINE made == Previews!build_preview_items(body)
<1>1. DOMAIN made = Previews!Computed(body)
  BY DEF Previews!build_preview_items
<1>2. ASSUME NEW t \in DOMAIN seen', ~seen'[t].manual
      PROVE  t \in DOMAIN made /\ seen'[t] = made[t]
  BY <1>2 DEF Previews!Preview, Previews!TypedIn
<1>3. ASSUME NEW t \in DOMAIN seen', ~seen'[t].manual PROVE Made(t, body.mode)'
  <2>1. t \in Shown /\ Previews!Raw(t, body) \in Nat
    BY <1>1, <1>2, <1>3, RawIsAmount DEF PreviewInv, Previews!Preview
  <2>2. /\ made[t].raw = Previews!Raw(t, body)
        /\ made[t].currency = Previews!effective_currency(t)
        /\ made[t].suggested =
             Previews!finalize_price(Previews!Raw(t, body), body.mode, Previews!effective_currency(t))
    BY <1>1, <1>2, <1>3 DEF Previews!build_preview_items, Previews!build_preview_item
  <2> QED BY <1>2, <1>3, <2>1, <2>2 DEF Made
<1>4. ASSUME NEW t \in DOMAIN seen', ~seen'[t].manual PROVE Stands(t)'
  <2>1. ladder' = ladder /\ row' = row
    BY DEF Previews!Preview
  <2>2. made[t].tier # Previews!None =>
          /\ Previews!Has(t)
          /\ made[t].price = ladder[t].prices[made[t].tier]
          /\ made[t].would_be_skipped = Previews!Trips(row[t], made[t].price)
    BY <1>1, <1>2, <1>4 DEF Previews!build_preview_items, Previews!build_preview_item, Previews!Compared
  <2> QED BY <1>2, <1>4, <2>1, <2>2 DEF Stands, Previews!Has
<1>5. body.mode \in Modes
  BY DEF Modes
<1>6. index' = index /\ told' = told
  BY DEF Previews!Preview
<1> QED BY <1>3, <1>4, <1>5, <1>6 DEF PreviewInv, Previews!Foretells

\* Nothing is flagged by an apply that was not flagged before it.
LEMMA ApplyAsTold ==
  ASSUME PreviewInv, NEW forced, Previews!Apply(forced)
  PROVE  PreviewInv'
<1> DEFINE price(t) == ladder'[t].prices[seen[t].tier]
           known == {t \in Previews!Sent(forced) : seen[t].tier \in DOMAIN ladder'[t].prices}
           skipped == {t \in known \ forced : Previews!Trips(row[t], price(t))}
<1>1. ~fresh' /\ index' = index /\ seen' \in {seen, << >>}
  BY DEF Previews!Apply
<1>2. told' = IF fresh THEN {seen[t] : t \in skipped} ELSE {}
  BY DEF Previews!Apply
<1>3. ASSUME fresh, NEW t \in skipped PROVE seen[t].manual
  <2> SUFFICES ASSUME ~seen[t].manual PROVE FALSE
    OBVIOUS
  <2>1. /\ t \in DOMAIN seen /\ t \notin forced /\ ~seen[t].would_be_skipped
        /\ seen[t].tier # Previews!None
    BY <1>3 DEF Previews!Sent, Previews!wouldChange
  <2>2. Stands(t) /\ t \in Shown
    BY <1>3, <2>1 DEF PreviewInv, Made
  <2>3. ladder'[t] = ladder[t]
    <3>1. PICK fetched \in [{u \in Previews!Sent(forced) : ~Previews!Has(u)} -> Ladders \cup {Previews!NoLadder}] :
            ladder' = [u \in Shown |-> IF u \in DOMAIN fetched THEN fetched[u] ELSE ladder[u]]
      BY DEF Previews!Apply
    <3>2. t \notin DOMAIN fetched
      BY <2>1, <2>2 DEF Stands
    <3> QED BY <2>2, <3>1, <3>2
  <2> QED BY <1>3, <2>1, <2>2, <2>3 DEF Stands
<1>4. Previews!Foretells'
  BY <1>2, <1>3 DEF Previews!Foretells
<1>5. \E mode \in Modes : \A t \in DOMAIN seen' : ~seen'[t].manual => Made(t, mode)'
  <2>1. CASE seen' = seen
    BY <2>1 DEF PreviewInv, Made
  <2>2. CASE seen' = << >>
    BY <2>2 DEF Modes
  <2> QED BY <1>1, <2>1, <2>2
<1> QED BY <1>1, <1>4, <1>5 DEF PreviewInv

\* A price typed by hand leaves the previewed ones as they are.
LEMMA TypedBeside ==
  ASSUME PreviewInv, NEW t, NEW price, Previews!Resolve(t, price)
  PROVE  PreviewInv'
<1>1. PICK typed : /\ seen' = [u \in DOMAIN seen \cup {t} |-> IF u = t THEN typed ELSE seen[u]]
                  /\ typed.manual
  BY DEF Previews!Resolve
<1>2. ASSUME NEW u \in DOMAIN seen', ~seen'[u].manual
      PROVE  u \in DOMAIN seen /\ seen'[u] = seen[u]
  BY <1>1, <1>2
<1>3. UNCHANGED <<index, ladder, row, fresh, told>>
  BY DEF Previews!Resolve
<1> QED BY <1>2, <1>3 DEF PreviewInv, Made, Stands, Previews!Has, Previews!Foretells

\* What others change makes the page stale.
LEMMA OthersChange ==
  ASSUME PreviewInv, Previews!Elsewhere, index' \in [Shown -> Nat \cup {Previews!None}]
  PROVE  PreviewInv'
  BY DEF PreviewInv, Made, Previews!Elsewhere, Previews!Foretells

\* Every step of a preview, of an apply and of the others keeps what is shown in order.
LEMMA PreviewStepHolds == PreviewInv /\ [Previews!Next]_(Previews!vars) => PreviewInv'
<1> SUFFICES ASSUME PreviewInv, [Previews!Next]_(Previews!vars) PROVE PreviewInv'
  OBVIOUS
<1>1. CASE UNCHANGED Previews!vars
  BY <1>1 DEF Previews!vars, PreviewInv, Made, Stands, Previews!Has, Previews!Foretells
<1>2. ASSUME NEW body \in Bodies, Previews!Preview(body) PROVE PreviewInv'
  BY <1>2, PreviewMakes
<1>3. ASSUME NEW body \in Typed, Previews!Resolve(body.territory, body.price) PROVE PreviewInv'
  BY <1>3, TypedBeside
<1>4. ASSUME NEW forced, Previews!Apply(forced) PROVE PreviewInv'
  BY <1>4, ApplyAsTold
<1>5. ASSUME NEW t \in Shown, Previews!SyncPrices(t) PROVE PreviewInv'
  BY <1>5, OthersChange DEF Previews!SyncPrices, PreviewInv
<1>6. ASSUME NEW t \in Shown, Previews!SyncTiers(t) PROVE PreviewInv'
  BY <1>6, OthersChange DEF Previews!SyncTiers, PreviewInv
<1>7. CASE Previews!RefreshIndices
  <2>1. PICK table \in Indices : index' = [t \in Shown |-> IF table[t] = Previews!None THEN index[t] ELSE table[t]]
    BY <1>7 DEF Previews!RefreshIndices
  <2>2. index' \in [Shown -> Nat \cup {Previews!None}]
    BY <2>1, PreviewSetting DEF PreviewInv, Previews!None
  <2> QED BY <1>7, <2>2, OthersChange DEF Previews!RefreshIndices
<1> QED
  BY <1>1, <1>2, <1>3, <1>4, <1>5, <1>6, <1>7
     DEF Previews!Next, Previews!preview_subscription_prices, Previews!preview_iap_prices,
         Previews!pricing_preview_subscription_prices, Previews!pricing_preview_iap_prices,
         Previews!resolve_manual_price, Previews!resolve_iap_manual_price,
         Previews!pricing_resolve_subscription_price, Previews!pricing_resolve_iap_price

-----------------------------------------------------------------------------
(* The rounding to nice prices.  Those of a tier are a grid: a step s, an  *)
(* offset a, a lowest index l.  Whatever the window, the band and the     *)
(* fallback, the result is the nearest point of the grid (OnGrid), and     *)
(* where two tiers meet they share a point.                                *)

OnGrid(x, p, s, a, l) ==
  /\ \E k \in Int : x = s * k + a
  /\ x >= s * l + a /\ 2 * (p - x) <= s
  /\ x = s * l + a \/ 2 * (x - p) < s

\* Of two points the nearer one, the lower one if both are as near.
Nearer(x, c, p) ==
  \/ Previews!Abs(x - p) < Previews!Abs(c - p)
  \/ Previews!Abs(x - p) = Previews!Abs(c - p) /\ x < c

\* Multiples of a step lie a step apart.
LEMMA Steps == \A s \in Nat \ {0}, j, k \in Int :
  /\ s * j \in Int
  /\ j > k => s * j >= s * k + s
  /\ s * j > s * k => j > k
<1> SUFFICES ASSUME NEW s \in Nat \ {0}, NEW j \in Int, NEW k \in Int
             PROVE  /\ s * j \in Int
                    /\ j > k => s * j >= s * k + s
                    /\ s * j > s * k => j > k
  OBVIOUS
<1>1. s * j \in Int /\ s * k \in Int
  OBVIOUS
<1>2. ASSUME j > k PROVE s * j >= s * k + s
  <2>1. j - k - 1 \in Nat
    BY <1>2
  <2>2. s * (j - k - 1) >= 0
    BY <2>1, Product
  <2>3. s * (j - k - 1) = s * j - s * k - s
    OBVIOUS
  <2> QED BY <1>1, <2>2, <2>3
<1>3. ASSUME s * j > s * k, j <= k PROVE FALSE
  <2>1. k - j \in Nat
    BY <1>3
  <2>2. s * (k - j) >= 0
    BY <2>1, Product
  <2>3. s * (k - j) = s * k - s * j
    OBVIOUS
  <2> QED BY <1>1, <1>3, <2>2, <2>3
<1> QED BY <1>1, <1>2, <1>3

\* On one grid a dearer price is never rounded to a lower point.
LEMMA GridMonotone ==
  ASSUME NEW s \in Nat \ {0}, NEW a \in Int, NEW l \in Int, NEW p \in Int, NEW q \in Int, p <= q,
         NEW x \in Int, NEW y \in Int, OnGrid(x, p, s, a, l), OnGrid(y, q, s, a, l)
  PROVE  x <= y
<1>1. PICK j \in Int, k \in Int : x = s * j + a /\ y = s * k + a
  BY DEF OnGrid
<1>2. s * j \in Int /\ s * k \in Int
  BY Steps
<1> SUFFICES ASSUME y < x PROVE FALSE
  OBVIOUS
<1>3. x >= y + s
  BY <1>1, <1>2, Steps
<1> QED BY <1>3 DEF OnGrid

\* The point that is nearer than every other one is the one that is taken.
LEMMA ClosestIs ==
  ASSUME NEW S, NEW p \in Int, NEW x \in S, S \subseteq Int, \A c \in S \ {x} : Nearer(x, c, p)
  PROVE  Previews!Closest(S, p) = x
<1> DEFINE M == {c \in S : \A d \in S : Previews!Abs(c - p) <= Previews!Abs(d - p)}
<1>1. \A c \in S : Previews!Abs(c - p) \in Int
  BY DEF Previews!Abs
<1>2. x \in M
  BY <1>1 DEF Nearer
<1>3. \A c \in M : x <= c
  BY <1>1 DEF Nearer
<1>4. \A y \in M : (\A c \in M : y <= c) => y = x
  BY <1>2, <1>3
<1> QED BY <1>2, <1>3, <1>4 DEF Previews!Closest, Previews!Min

\* The candidates that are not too cheap.
Above(p, currency) ==
  {c \in Previews!Candidates(p, Previews!ProfileOf(currency)) :
     c >= Previews!ProfileOf(currency).min_price}

\* The band takes nothing from the result: if a candidate is in it, so is the
\* nearest one.
LEMMA RoundsTo ==
  ASSUME NEW p \in Nat \ {0}, NEW currency, Above(p, currency) \subseteq Int,
         NEW x \in Above(p, currency), \A c \in Above(p, currency) \ {x} : Nearer(x, c, p)
  PROVE  Previews!apply_currency_rounding(p, currency) = x
<1> DEFINE above == Above(p, currency)
           valid == {c \in above : 9 * p <= 10 * c /\ 10 * c <= 11 * p}
<1>1. CASE valid = {}
  BY <1>1, ClosestIs DEF Previews!apply_currency_rounding, Above
<1>2. CASE valid # {}
  <2>1. PICK v \in above : 9 * p <= 10 * v /\ 10 * v <= 11 * p
    BY <1>2
  <2>2. Previews!Abs(x - p) <= Previews!Abs(v - p)
    BY DEF Nearer, Previews!Abs
  <2>3. x \in valid
    BY <2>1, <2>2 DEF Previews!Abs
  <2>4. Previews!Closest(valid, p) = x
    BY <2>3, ClosestIs
  <2> QED BY <1>2, <2>4 DEF Previews!apply_currency_rounding, Above
<1> QED BY <1>1, <1>2

\* The index of the point nearest to a price, the lower one of two; the points of a
\* window of indices that are no lower than the one of index l.
Nearest(j, p, s, a) == 2 * (p - (s * j + a)) <= s /\ 2 * ((s * j + a) - p) < s
Window(S, from, to, s, a, l) ==
  /\ \A c \in S : c >= s * l + a /\ \E n \in from..to : c = s * n + a
  /\ \A n \in from..to : s * n + a >= s * l + a => s * n + a \in S

Settled(S, to, p, s, a, l) ==
  \E x \in Int :
    /\ OnGrid(x, p, s, a, l)
    /\ \/ x \in S /\ \A c \in S \ {x} : Nearer(x, c, p)
       \/ S = {} /\ x = s * l + a /\ to < l

\* A window of the grid that holds the point nearest to the price, or ends below
\* the lowest one.
LEMMA WindowSettles ==
  ASSUME NEW s \in Nat \ {0}, NEW a \in Int, NEW p \in Nat, NEW from \in Int, NEW to \in Int,
         NEW j \in from..to, NEW l \in Int, NEW above,
         Nearest(j, p, s, a), Window(above, from, to, s, a, l)
  PROVE  Settled(above, to, p, s, a, l)
<1> DEFINE y == s * j + a
           low == s * l + a
<1> USE DEF Nearest, Window, Settled
<1>1. j \in Int /\ s * j \in Int /\ s * l \in Int /\ y \in Int /\ low \in Int
  BY Steps
<1>2. \A c \in above : c >= low /\ \E n \in from..to : c = s * n + a /\ s * n \in Int
  BY Steps
<1>3. CASE y >= low
  <2>1. OnGrid(y, p, s, a, l)
    BY <1>1, <1>3 DEF OnGrid
  <2>2. y \in above
    BY <1>3
  <2>3. ASSUME NEW c \in above \ {y} PROVE Nearer(y, c, p)
    <3>1. PICK n \in from..to : c = s * n + a /\ s * n \in Int
      BY <1>2
    <3>2. n # j
      BY <2>3, <3>1
    <3>3. c >= y + s \/ c <= y - s
      BY <1>1, <3>1, <3>2, Steps
    <3> QED BY <1>1, <3>1, <3>3 DEF Nearer, Previews!Abs
  <2> QED BY <1>1, <2>1, <2>2, <2>3
<1>4. CASE y < low
  <2>1. low >= y + s
    BY <1>1, <1>4, Steps
  <2>2. OnGrid(low, p, s, a, l)
    BY <1>1, <2>1 DEF OnGrid
  <2>3. CASE l <= to
    <3>1. j < l
      BY <1>1, <1>4, Steps
    <3>2. low \in above
      BY <2>3, <3>1
    <3>3. ASSUME NEW c \in above \ {low} PROVE Nearer(low, c, p)
      <4>1. c \in Int /\ c > low
        BY <1>1, <1>2
      <4> QED BY <1>1, <2>1, <4>1 DEF Nearer, Previews!Abs
    <3> QED BY <1>1, <2>2, <3>2, <3>3
  <2>4. CASE l > to
    <3>1. ASSUME NEW c \in above PROVE FALSE
      <4>1. PICK n \in from..to : c = s * n + a /\ s * n \in Int
        BY <1>2
      <4>2. l > n
        BY <2>4
      <4> QED BY <1>1, <1>2, <4>1, <4>2, Steps
    <3> QED BY <1>1, <2>2, <2>4, <3>1
  <2>5. l <= to \/ l > to
    OBVIOUS
  <2> QED BY <2>3, <2>4, <2>5
<1> QED BY <1>1, <1>3, <1>4

\* A price is rounded to a grid.
RoundedOn(p, currency, s, a, l) ==
  LET x == Previews!apply_currency_rounding(p, currency) IN
  x \in Int /\ OnGrid(x, p, s, a, l)

\* The multiple of a step that is nearest to a price.
StepSizes == {10, 50, 100, 500, 1000, 10000}
Around(m, p, s) == 2 * (s * m) <= 2 * p + s /\ 2 * p < 2 * (s * m) + s

\* Whole multiples of a step, those around a price.
LEMMA WholeSteps ==
  ASSUME NEW p \in Nat, NEW step \in StepSizes, NEW s, s = 1000 * step
  PROVE  \E m \in Nat : Previews!round_to_step(p, step) = m * step /\ Around(m, p, s)
<1> DEFINE m == (2 * p + step * 1000) \div (2 * step * 1000)
<1>1. Previews!round_to_step(p, step) = m * step
  BY DEF Previews!round_to_step, Previews!Unit
<1> USE DEF Around, StepSizes
<1>2. m \in Nat /\ Around(m, p, s)
  <2>1. CASE step = 10
    BY <2>1
  <2>2. CASE step = 50
    BY <2>2
  <2>3. CASE step = 100
    BY <2>3
  <2>4. CASE step = 500
    BY <2>4
  <2>5. CASE step = 1000
    BY <2>5
  <2>6. CASE step = 10000
    BY <2>6
  <2> QED BY <2>1, <2>2, <2>3, <2>4, <2>5, <2>6
<1> HIDE DEF m
<1> QED BY <1>1, <1>2

\* Some point of a grid is nearest, and it is among the three around the
\* multiple of the step that is nearest to the price.
LEMMA NearestPoint ==
  ASSUME NEW s \in Nat \ {0}, NEW a \in Int, -s <= a, a <= 0, NEW p \in Nat, NEW m \in Nat,
         Around(m, p, s)
  PROVE  \E j \in m - 1 .. m + 1 : Nearest(j, p, s, a)
<1> USE DEF Nearest, Around
<1>1. s * m \in Int /\ s * (m + 1) = s * m + s /\ s * (m - 1) = s * m - s
  BY Steps
<1>2. CASE 2 * ((s * m + a) - p) >= s
  BY <1>1, <1>2
<1>3. CASE 2 * (p - (s * m + a)) > s
  BY <1>1, <1>3
<1>4. CASE ~(2 * ((s * m + a) - p) >= s) /\ ~(2 * (p - (s * m + a)) > s)
  BY <1>1, <1>4
<1> QED BY <1>2, <1>3, <1>4

\* The lowest point that is not too cheap; either every window reaches it, or it is
\* the least price and a whole one.
Lowest(l, s, a, min) == s * l + a >= min /\ s * (l - 1) + a < min
Reached(l, s, a, min) == l <= 5 \/ (min = s * l + a /\ min % 1000 = 0)

\* The candidates of a tier are a window of its grid.
LEMMA TierSettles ==
  ASSUME NEW p \in Nat \ {0}, NEW currency,
         NEW s \in Nat \ {0}, NEW a \in Int, -s <= a, a <= 0,
         NEW m \in Nat,
         Around(m, p, s),
         NEW l \in Int,
         Window(Above(p, currency), m - 5, m + 5, s, a, l),
         Reached(l, s, a, Previews!ProfileOf(currency).min_price)
  PROVE  RoundedOn(p, currency, s, a, l)
<1> DEFINE low == s * l + a
           above == Above(p, currency)
<1>1. s \in Nat \ {0} /\ s * l \in Int /\ low \in Int
  BY Steps
<1>2. PICK j \in m - 1 .. m + 1 : Nearest(j, p, s, a)
  BY <1>1, NearestPoint
<1>3. j \in m - 5 .. m + 5
  OBVIOUS
<1>4. Settled(above, m + 5, p, s, a, l)
  BY SMTT(60), <1>1, <1>2, <1>3, WindowSettles
<1>5. PICK x \in Int :
           /\ OnGrid(x, p, s, a, l)
           /\ \/ x \in above /\ \A c \in above \ {x} : Nearer(x, c, p)
              \/ above = {} /\ x = low /\ m + 5 < l
  BY <1>4 DEF Settled
<1>6. CASE x \in above /\ \A c \in above \ {x} : Nearer(x, c, p)
  <2>1. above \subseteq Int
    BY <1>1, Steps DEF Window
  <2> QED BY <1>5, <1>6, <2>1, RoundsTo DEF RoundedOn
<1>7. CASE above = {} /\ x = low /\ m + 5 < l
  <2>1. Previews!ProfileOf(currency).min_price = low /\ low % 1000 = 0
    BY <1>7 DEF Reached
  <2>2. s * l >= s * (m + 1) + s /\ s * (m + 1) = s * m + s /\ s * m \in Int
    BY <1>1, <1>7, Steps
  <2>3. p <= low
    BY <1>1, <2>2 DEF Around
  <2>4. Previews!Quantize(p, 1000) <= low /\ Previews!Quantize(p, 1000) \in Int
    BY <1>1, <2>1, <2>3 DEF Previews!Quantize
  <2>5. Previews!Max({Previews!Quantize(p, 1000), low}) = low
    BY <1>1, <2>4 DEF Previews!Max
  <2>6. Previews!apply_currency_rounding(p, currency) = low
    BY <1>7, <2>1, <2>5 DEF Previews!apply_currency_rounding, Previews!Unit, Above
  <2> QED BY <1>1, <1>5, <1>7, <2>6 DEF RoundedOn
<1> QED BY <1>5, <1>6, <1>7

\* Multiples of a step, in thousandths.
LEMMA Points ==
  \A step \in StepSizes, i \in Int :
    step \in Nat \ {0} /\ i * step \in Int /\ 1000 * (i * step) = 1000 * step * i
BY DEF StepSizes

\* They add up.
LEMMA Multiples ==
  \A step \in StepSizes, m, n \in Int : m * step + n * step = (m + n) * step
BY DEF StepSizes

\* The prices around a multiple of a step that are not too cheap.
AroundMultiple(m, step) == {m * step + n * step : n \in -5..5}
Fitting(m, step, a, min) == {c \in {1000 * d + a : d \in AroundMultiple(m, step)} : c >= min}

\* They are the multiples whose indices are within five.
LEMMA AroundPoints ==
  ASSUME NEW step \in StepSizes, NEW m \in Int
  PROVE  /\ \A d \in AroundMultiple(m, step) : \E i \in m - 5 .. m + 5 : d = i * step
         /\ \A i \in m - 5 .. m + 5 : i * step \in AroundMultiple(m, step)
<1>1. ASSUME NEW d \in AroundMultiple(m, step) PROVE \E i \in m - 5 .. m + 5 : d = i * step
  <2>1. PICK n \in -5..5 : d = m * step + n * step
    BY DEF AroundMultiple
  <2>2. n \in Int /\ m + n \in m - 5 .. m + 5
    OBVIOUS
  <2>3. d = (m + n) * step
    BY <2>1, <2>2, Multiples
  <2> QED BY <2>2, <2>3
<1>2. ASSUME NEW i \in m - 5 .. m + 5 PROVE i * step \in AroundMultiple(m, step)
  <2> DEFINE n == i - m
  <2>1. n \in -5..5 /\ i \in Int /\ n \in Int /\ m + n = i
    OBVIOUS
  <2>2. m * step + n * step = i * step
    BY <2>1, Multiples
  <2> QED BY <2>1, <2>2 DEF AroundMultiple
<1> QED BY <1>1, <1>2

\* They are a window of the grid.
LEMMA TierWindow ==
  ASSUME NEW step \in StepSizes, NEW a \in Int, NEW s, s = 1000 * step,
         NEW m \in Int, NEW min \in Nat \ {0}, NEW l \in Int, Lowest(l, s, a, min)
  PROVE  Window(Fitting(m, step, a, min), m - 5, m + 5, s, a, l)
<1> USE DEF Lowest
<1>1. s \in Nat \ {0}
  BY DEF StepSizes
<1>2. \A i \in Int : i * step \in Int /\ 1000 * (i * step) = s * i
  BY Points
<1>3. ASSUME NEW c \in Fitting(m, step, a, min)
      PROVE  c >= s * l + a /\ \E i \in m - 5 .. m + 5 : c = s * i + a
  <2>1. PICK i \in m - 5 .. m + 5 : c = 1000 * (i * step) + a
    BY AroundPoints DEF Fitting
  <2>2. c = s * i + a /\ i \in Int
    BY <1>2, <2>1
  <2>3. c >= min
    BY DEF Fitting
  <2>4. i >= l
    <3> SUFFICES ASSUME l - 1 >= i PROVE FALSE
      BY <2>2
    <3>1. s * (l - 1) >= s * i
      BY <1>1, <2>2, Steps
    <3> QED BY <1>1, <2>2, <2>3, <3>1, Steps
  <2>5. s * i >= s * l
    BY <1>1, <2>2, <2>4, Steps
  <2> QED BY <1>1, <2>2, <2>5, Steps
<1>4. ASSUME NEW i \in m - 5 .. m + 5, s * i + a >= s * l + a
      PROVE  s * i + a \in Fitting(m, step, a, min)
  <2>1. i \in Int /\ i * step \in Int /\ 1000 * (i * step) + a = s * i + a
    BY <1>2
  <2>2. s * i + a >= min
    BY <1>1, <1>4, <2>1, Steps
  <2>3. i * step \in AroundMultiple(m, step)
    BY AroundPoints
  <2> QED BY <2>1, <2>2, <2>3 DEF Fitting
<1> QED BY <1>3, <1>4 DEF Window

\* What is left out for its sign is too cheap.
LEMMA TooCheapAnyway ==
  ASSUME NEW E, E \subseteq Int, NEW t \in Int, t <= 0, NEW min \in Nat \ {0}
  PROVE  {c \in {(d + t) * 1000 : d \in {e \in E : e > 0 /\ e + t > 0}} : c >= min}
           = {c \in {1000 * d + 1000 * t : d \in E} : c >= min}
<1>1. \A d \in Int : /\ (d + t) * 1000 = 1000 * d + 1000 * t
                     /\ 1000 * d + 1000 * t >= min => d > 0 /\ d + t > 0
  OBVIOUS
<1>2. ASSUME NEW d \in E, 1000 * d + 1000 * t >= min
      PROVE  1000 * d + 1000 * t \in {(f + t) * 1000 : f \in {e \in E : e > 0 /\ e + t > 0}}
  <2>1. d \in {e \in E : e > 0 /\ e + t > 0} /\ 1000 * d + 1000 * t = (d + t) * 1000
    BY <1>1, <1>2
  <2> QED BY <2>1
<1>3. ASSUME NEW d \in E PROVE (d + t) * 1000 = 1000 * d + 1000 * t
  BY <1>1
<1> QED BY <1>2, <1>3

\* The tiers of a currency without decimals and those of one with two.
LEMMA TierRounds ==
  ASSUME NEW p \in Nat \ {0}, NEW currency, NEW profile, profile = Previews!ProfileOf(currency),
         profile.tiers # << >>, NEW tier, tier = Previews!get_tier(p, profile.tiers),
         NEW step \in StepSizes, tier[2] = step, NEW s, s = 1000 * step,
         NEW a \in Int, -s <= a, a <= 0,
         \/ profile.decimals = 0 /\ tier[3] \in Int /\ a = 1000 * tier[3]
         \/ profile.decimals = 2 /\ profile.suffix = 990 /\ a = -10,
         NEW min \in Nat \ {0}, profile.min_price = min,
         NEW l \in Int, Lowest(l, s, a, min), Reached(l, s, a, min)
  PROVE  RoundedOn(p, currency, s, a, l)
<1>1. PICK m \in Nat : Previews!round_to_step(p, step) = m * step /\ Around(m, p, s)
  BY WholeSteps
<1>2. AroundMultiple(m, step) \subseteq Int
  BY AroundPoints, Points
<1>3. Above(p, currency) = Fitting(m, step, a, min)
  <2>1. CASE profile.decimals = 0 /\ tier[3] \in Int /\ a = 1000 * tier[3]
    <3>1. Previews!Candidates(p, profile) =
            {(c + tier[3]) * 1000 : c \in {d \in AroundMultiple(m, step) : d > 0 /\ d + tier[3] > 0}}
      BY <1>1, <2>1 DEF Previews!Candidates, Previews!Unit, AroundMultiple
    <3>2. tier[3] <= 0
      BY <2>1
    <3>3. Above(p, currency) = {c \in {(d + tier[3]) * 1000 :
            d \in {e \in AroundMultiple(m, step) : e > 0 /\ e + tier[3] > 0}} : c >= min}
      BY <3>1 DEF Above
    <3> QED BY SMTT(60), <1>2, <2>1, <3>2, <3>3, TooCheapAnyway DEF Fitting
  <2>2. CASE profile.decimals = 2 /\ profile.suffix = 990 /\ a = -10
    <3>1. Previews!Candidates(p, profile) =
            {(c - 1) * 1000 + 990 : c \in {d \in AroundMultiple(m, step) : d >= 0}}
      BY <1>1, <2>2 DEF Previews!Candidates, Previews!Unit, AroundMultiple
    <3> QED BY SMTT(60), <1>2, <2>2, <3>1 DEF Above, Fitting
  <2> QED BY <2>1, <2>2
<1>4. m \in Int
  OBVIOUS
<1>5. Window(Above(p, currency), m - 5, m + 5, s, a, l)
  <2>1. Window(Fitting(m, step, a, min), m - 5, m + 5, s, a, l)
    BY <1>4, TierWindow
  <2> QED BY <1>3, <2>1
<1>6. s \in Nat \ {0}
  BY DEF StepSizes
<1>7. Reached(l, s, a, Previews!ProfileOf(currency).min_price)
  OBVIOUS
<1> QED BY SMTT(60), <1>1, <1>5, <1>6, <1>7, TierSettles

\* The currencies without tiers: the window is around the price itself.
Offsets(whole) == {m \in -3..3 : whole + m >= 0}
AroundWhole(whole, suffix, min) ==
  {c \in {(whole + n) * 1000 + suffix : n \in Offsets(whole)} : c >= min}

WholeGrid(s, suffix, l, min) ==
  s = 1000 /\ suffix \in 0..999 /\ l \in 0..1 /\ Lowest(l, s, suffix, min)

\* They are a window of the grid of whole units.
LEMMA WholeWindow ==
  ASSUME NEW whole \in Nat, NEW min \in Nat \ {0}, NEW s, NEW suffix, NEW l, WholeGrid(s, suffix, l, min)
  PROVE  Window(AroundWhole(whole, suffix, min), whole - 3, whole + 3, s, suffix, l)
<1>1. suffix \in 0..999 /\ l \in 0..1 /\ 1000 * l + suffix >= min /\ 1000 * (l - 1) + suffix < min
  BY DEF WholeGrid, Lowest
<1>2. \A i \in Int : s * i + suffix = 1000 * i + suffix
  BY DEF WholeGrid
<1>3. ASSUME NEW c \in AroundWhole(whole, suffix, min)
      PROVE  c >= s * l + suffix /\ \E k \in whole - 3 .. whole + 3 : c = s * k + suffix
  <2>1. PICK n \in -3..3 : c = (whole + n) * 1000 + suffix /\ c >= min
    BY DEF AroundWhole, Offsets
  <2>2. PICK k \in whole - 3 .. whole + 3 : k = whole + n
    OBVIOUS
  <2>3. c = 1000 * k + suffix /\ k \in Int
    BY <2>1, <2>2
  <2>4. c = s * k + suffix
    BY <1>2, <2>3
  <2>5. c >= 1000 * l + suffix /\ l \in Int
    BY <1>1, <2>1, <2>3
  <2>6. c >= s * l + suffix
    BY <1>2, <2>5
  <2> QED BY <2>4, <2>6
<1>4. ASSUME NEW i \in whole - 3 .. whole + 3, s * i + suffix >= s * l + suffix
      PROVE  s * i + suffix \in AroundWhole(whole, suffix, min)
  <2>1. i \in Int /\ l \in Int
    BY <1>1
  <2>2. s * i + suffix = 1000 * i + suffix /\ s * l + suffix = 1000 * l + suffix
    BY <1>2, <2>1
  <2>3. 1000 * i + suffix >= min /\ i >= 0
    BY <1>1, <1>4, <2>1, <2>2
  <2>4. PICK n \in Int : n = i - whole
    BY <2>1
  <2>5. n \in Offsets(whole) /\ 1000 * i + suffix = (whole + n) * 1000 + suffix
    BY <1>1, <2>3, <2>4 DEF Offsets
  <2> QED BY <2>2, <2>3, <2>5 DEF AroundWhole
<1> QED BY <1>3, <1>4 DEF Window

\* The window holds the point nearest to the price.
LEMMA WholeSettles ==
  ASSUME NEW s \in Nat \ {0}, NEW suffix \in Nat, suffix < s, NEW p \in Nat, NEW whole \in Nat,
         s * whole <= p, p < s * whole + s, NEW l \in Int, NEW S,
         Window(S, whole - 3, whole + 3, s, suffix, l)
  PROVE  Settled(S, whole + 3, p, s, suffix, l)
<1>1. /\ s * whole \in Int /\ s * (whole - 1) = s * whole - s /\ s * (whole + 1) = s * whole + s
  BY Steps
<1>2. \E j \in {whole - 1, whole, whole + 1} : Nearest(j, p, s, suffix)
  BY <1>1 DEF Nearest
<1>3. PICK j \in whole - 3 .. whole + 3 : Nearest(j, p, s, suffix)
  BY <1>2
<1>4. whole - 3 \in Int /\ whole + 3 \in Int /\ suffix \in Int
  OBVIOUS
<1> QED BY <1>3, <1>4, WindowSettles

\* So a currency without tiers rounds to its grid.
LEMMA PlainRounds ==
  ASSUME NEW p \in Nat \ {0}, NEW currency, NEW profile, profile = Previews!ProfileOf(currency),
         profile.tiers = << >>, NEW suffix, profile.suffix = suffix,
         NEW min \in Nat \ {0}, profile.min_price = min,
         NEW s, NEW l, WholeGrid(s, suffix, l, min)
  PROVE  RoundedOn(p, currency, s, suffix, l)
<1>1. PICK whole \in Nat : whole = p \div 1000 /\ s * whole <= p /\ p < s * whole + s
  BY DEF WholeGrid
<1>2. Above(p, currency) = AroundWhole(whole, suffix, min)
  BY <1>1 DEF Previews!Candidates, Previews!Unit, Above, AroundWhole, Offsets
<1>3. Window(Above(p, currency), whole - 3, whole + 3, s, suffix, l)
  <2>1. Window(AroundWhole(whole, suffix, min), whole - 3, whole + 3, s, suffix, l)
    BY WholeWindow
  <2> QED BY <1>2, <2>1
<1>4. s \in Nat \ {0} /\ suffix \in Nat /\ suffix < s /\ l \in Int /\ l < 3 /\ p \in Nat
  <2>1. s = 1000 /\ suffix \in 0..999 /\ l \in 0..1
    BY DEF WholeGrid
  <2>2. s \in Nat \ {0}
    BY <2>1
  <2>3. suffix \in Nat /\ suffix < s
    BY <2>1
  <2>4. l \in Int /\ l < 3
    BY <2>1
  <2> QED BY <2>2, <2>3, <2>4
<1>5. Settled(Above(p, currency), whole + 3, p, s, suffix, l)
  BY <1>1, <1>3, <1>4, WholeSettles
<1>6. PICK x \in Int : /\ OnGrid(x, p, s, suffix, l)
                       /\ x \in Above(p, currency)
                       /\ \A c \in Above(p, currency) \ {x} : Nearer(x, c, p)
  BY <1>1, <1>4, <1>5 DEF Settled
<1>7. Above(p, currency) \subseteq Int
  <2> SUFFICES ASSUME NEW c \in Above(p, currency) PROVE c \in Int
    OBVIOUS
  <2>1. PICK n \in whole - 3 .. whole + 3 : c = s * n + suffix
    BY <1>3 DEF Window
  <2>2. n \in Int
    BY <1>1
  <2> QED BY <1>4, <2>1, <2>2, Steps
<1> QED BY <1>6, <1>7, RoundsTo DEF RoundedOn

\* The tier a price is in.
LEMMA TwoTiers ==
  ASSUME NEW p \in Nat, NEW t1, NEW t2, t1[1] = 0, t2[1] \in Nat
  PROVE  Previews!get_tier(p, <<t1, t2>>) = IF p >= 1000 * t2[1] THEN t2 ELSE t1
<1> DEFINE tiers == <<t1, t2>>
           S == {1} \cup {n \in DOMAIN tiers : p \div 1000 >= tiers[n][1]}
<1>1. DOMAIN tiers = 1..2 /\ tiers[1] = t1 /\ tiers[2] = t2
  OBVIOUS
<1>2. p \div 1000 >= t2[1] <=> p >= 1000 * t2[1]
  OBVIOUS
<1>3. S = IF p >= 1000 * t2[1] THEN {1, 2} ELSE {1}
  BY <1>1, <1>2
<1>4. Previews!Max(S) = IF p >= 1000 * t2[1] THEN 2 ELSE 1
  BY <1>3 DEF Previews!Max
<1> QED BY <1>1, <1>4 DEF Previews!get_tier, Previews!Unit

\* With three tiers it is the last one whose threshold the price reaches.
LEMMA ThreeTiers ==
  ASSUME NEW p \in Nat, NEW t1, NEW t2, NEW t3, t1[1] = 0, t2[1] \in Nat, t3[1] \in Nat, t2[1] <= t3[1]
  PROVE  Previews!get_tier(p, <<t1, t2, t3>>) =
           IF p >= 1000 * t3[1] THEN t3 ELSE IF p >= 1000 * t2[1] THEN t2 ELSE t1
<1> DEFINE tiers == <<t1, t2, t3>>
           S == {1} \cup {n \in DOMAIN tiers : p \div 1000 >= tiers[n][1]}
<1>1. DOMAIN tiers = 1..3 /\ tiers[1] = t1 /\ tiers[2] = t2 /\ tiers[3] = t3
  OBVIOUS
<1>2. /\ p \div 1000 >= t2[1] <=> p >= 1000 * t2[1]
      /\ p \div 1000 >= t3[1] <=> p >= 1000 * t3[1]
  OBVIOUS
<1>3. S = IF p >= 1000 * t3[1] THEN {1, 2, 3} ELSE IF p >= 1000 * t2[1] THEN {1, 2} ELSE {1}
  BY <1>1, <1>2
<1>4. Previews!Max(S) = IF p >= 1000 * t3[1] THEN 3 ELSE IF p >= 1000 * t2[1] THEN 2 ELSE 1
  BY <1>3 DEF Previews!Max
<1> QED BY <1>1, <1>4 DEF Previews!get_tier, Previews!Unit

\* With four as well.
LEMMA FourTiers ==
  ASSUME NEW p \in Nat, NEW t1, NEW t2, NEW t3, NEW t4,
         t1[1] = 0, t2[1] \in Nat, t3[1] \in Nat, t4[1] \in Nat, t2[1] <= t3[1], t3[1] <= t4[1]
  PROVE  Previews!get_tier(p, <<t1, t2, t3, t4>>) =
           IF p >= 1000 * t4[1] THEN t4 ELSE IF p >= 1000 * t3[1] THEN t3
           ELSE IF p >= 1000 * t2[1] THEN t2 ELSE t1
<1> DEFINE tiers == <<t1, t2, t3, t4>>
           S == {1} \cup {n \in DOMAIN tiers : p \div 1000 >= tiers[n][1]}
<1>1. DOMAIN tiers = 1..4 /\ tiers[1] = t1 /\ tiers[2] = t2 /\ tiers[3] = t3 /\ tiers[4] = t4
  OBVIOUS
<1>2. /\ p \div 1000 >= t2[1] <=> p >= 1000 * t2[1]
      /\ p \div 1000 >= t3[1] <=> p >= 1000 * t3[1]
      /\ p \div 1000 >= t4[1] <=> p >= 1000 * t4[1]
  OBVIOUS
<1>3. S = IF p >= 1000 * t4[1] THEN {1, 2, 3, 4} ELSE IF p >= 1000 * t3[1] THEN {1, 2, 3}
          ELSE IF p >= 1000 * t2[1] THEN {1, 2} ELSE {1}
  BY <1>1, <1>2
<1>4. Previews!Max(S) = IF p >= 1000 * t4[1] THEN 4 ELSE IF p >= 1000 * t3[1] THEN 3
                        ELSE IF p >= 1000 * t2[1] THEN 2 ELSE 1
  BY <1>3 DEF Previews!Max
<1> QED BY <1>1, <1>4 DEF Previews!get_tier, Previews!Unit

\* What a grid has to do with the tier of a profile.
TierGrid(profile, tier, s, a, l) ==
  /\ profile.tiers # << >> /\ tier[2] \in StepSizes
  /\ s = 1000 * tier[2] /\ a \in Int /\ -s <= a /\ a <= 0
  /\ \/ profile.decimals = 0 /\ tier[3] \in Int /\ a = 1000 * tier[3]
     \/ profile.decimals = 2 /\ profile.suffix = 990 /\ a = -10
  /\ profile.min_price \in Nat \ {0}
  /\ l \in Int /\ Lowest(l, s, a, profile.min_price) /\ Reached(l, s, a, profile.min_price)

\* A price is rounded to the grid of its tier.
LEMMA GridOfTier ==
  ASSUME NEW p \in Nat \ {0}, NEW currency, NEW s, NEW a, NEW l,
         TierGrid(Previews!ProfileOf(currency),
                  Previews!get_tier(p, Previews!ProfileOf(currency).tiers), s, a, l)
  PROVE  RoundedOn(p, currency, s, a, l)
<1> DEFINE profile == Previews!ProfileOf(currency)
           tier == Previews!get_tier(p, profile.tiers)
<1>1. /\ profile.tiers # << >> /\ tier[2] \in StepSizes
      /\ s = 1000 * tier[2] /\ a \in Int /\ -s <= a /\ a <= 0
      /\ \/ profile.decimals = 0 /\ tier[3] \in Int /\ a = 1000 * tier[3]
         \/ profile.decimals = 2 /\ profile.suffix = 990 /\ a = -10
      /\ profile.min_price \in Nat \ {0}
      /\ l \in Int /\ Lowest(l, s, a, profile.min_price) /\ Reached(l, s, a, profile.min_price)
  BY DEF TierGrid
<1> QED BY SMTT(60), <1>1, TierRounds

\* The tables of the currencies.
JpyTiers == <<<<0, 10, -10>>, <<10000, 100, -100>>>>
KrwTiers == <<<<0, 100, -100>>, <<100000, 1000, -1000>>>>
VndTiers == <<<<0, 1000, 0>>, <<1000000, 10000, 0>>>>
InrTiers == <<<<0, 100, -1>>, <<1000, 500, -1>>, <<10000, 1000, -1>>>>
PhpTiers == <<<<0, 10, -1>>, <<10000, 100, -1>>>>
ArsTiers == <<<<0, 10, 0>>, <<100, 50, 0>>, <<500, 100, 0>>, <<5000, 500, 0>>>>

\* The grids of the yen and those like it.
LEMMA JpyGrids ==
  /\ Previews!JPY.tiers = JpyTiers
  /\ TierGrid(Previews!JPY, <<0, 10, -10>>, 10000, -10000, 11)
  /\ TierGrid(Previews!JPY, <<10000, 100, -100>>, 100000, -100000, 2)
BY DEF JpyTiers, Previews!JPY, Previews!Tiered, Previews!Unit, TierGrid, Lowest, Reached, StepSizes

\* The grids of the won and those like it.
LEMMA KrwGrids ==
  /\ Previews!KRW.tiers = KrwTiers
  /\ TierGrid(Previews!KRW, <<0, 100, -100>>, 100000, -100000, 10)
  /\ TierGrid(Previews!KRW, <<100000, 1000, -1000>>, 1000000, -1000000, 2)
BY DEF KrwTiers, Previews!KRW, Previews!Tiered, Previews!Unit, TierGrid, Lowest, Reached, StepSizes

\* The grids of the dong and the rupiah.
LEMMA VndGrids ==
  /\ Previews!VND.tiers = VndTiers
  /\ TierGrid(Previews!VND, <<0, 1000, 0>>, 1000000, 0, 10)
  /\ TierGrid(Previews!VND, <<1000000, 10000, 0>>, 10000000, 0, 1)
BY DEF VndTiers, Previews!VND, Previews!Tiered, Previews!Unit, TierGrid, Lowest, Reached, StepSizes

\* The grids of the Indian rupee and those like it.
LEMMA InrGrids ==
  /\ Previews!INR.tiers = InrTiers
  /\ TierGrid(Previews!INR, <<0, 100, -1>>, 100000, -1000, 1)
  /\ TierGrid(Previews!INR, <<1000, 500, -1>>, 500000, -1000, 1)
  /\ TierGrid(Previews!INR, <<10000, 1000, -1>>, 1000000, -1000, 1)
BY DEF InrTiers, Previews!INR, Previews!Tiered, Previews!Unit, TierGrid, Lowest, Reached, StepSizes

\* The grids of the peso and the baht.
LEMMA PhpGrids ==
  /\ Previews!PHP.tiers = PhpTiers
  /\ TierGrid(Previews!PHP, <<0, 10, -1>>, 10000, -1000, 5)
  /\ TierGrid(Previews!PHP, <<10000, 100, -1>>, 100000, -1000, 1)
BY DEF PhpTiers, Previews!PHP, Previews!Tiered, Previews!Unit, TierGrid, Lowest, Reached, StepSizes

\* The grids of the Argentine peso.
LEMMA ArsGrids ==
  /\ Previews!ARS.tiers = ArsTiers
  /\ TierGrid(Previews!ARS, <<0, 10, 0>>, 10000, -10, 1)
  /\ TierGrid(Previews!ARS, <<100, 50, 0>>, 50000, -10, 1)
  /\ TierGrid(Previews!ARS, <<500, 100, 0>>, 100000, -10, 1)
  /\ TierGrid(Previews!ARS, <<5000, 500, 0>>, 500000, -10, 1)
BY DEF ArsTiers, Previews!ARS, Previews!STANDARD_99, Previews!Plain, TierGrid, Lowest, Reached, StepSizes

\* Prices of one tier keep their order.
LEMMA OneGrid ==
  ASSUME NEW p \in Nat, NEW q \in Nat, p <= q, NEW currency, NEW s \in Nat \ {0}, NEW a \in Int, NEW l \in Int,
         RoundedOn(p, currency, s, a, l), RoundedOn(q, currency, s, a, l)
  PROVE  Previews!apply_currency_rounding(p, currency) <= Previews!apply_currency_rounding(q, currency)
BY GridMonotone DEF RoundedOn

\* A price is rounded to no more than the point nearest to a dearer one.
LEMMA BelowPoint ==
  ASSUME NEW p \in Nat, NEW q \in Nat, p <= q, NEW currency, NEW s \in Nat \ {0}, NEW a \in Int, NEW l \in Int,
         NEW g \in Int, OnGrid(g, q, s, a, l), RoundedOn(p, currency, s, a, l)
  PROVE  Previews!apply_currency_rounding(p, currency) <= g
BY GridMonotone DEF RoundedOn

\* A price is rounded to no less than the point nearest to a cheaper one.
LEMMA AbovePoint ==
  ASSUME NEW p \in Nat, NEW q \in Nat, p <= q, NEW currency, NEW s \in Nat \ {0}, NEW a \in Int, NEW l \in Int,
         NEW g \in Int, OnGrid(g, p, s, a, l), RoundedOn(q, currency, s, a, l)
  PROVE  g <= Previews!apply_currency_rounding(q, currency)
BY GridMonotone DEF RoundedOn

\* What a currency makes of some prices keeps their order.
Sorted(currency, S) ==
  \A p \in S :
    /\ Previews!apply_currency_rounding(p, currency) \in Nat
    /\ \A q \in S : p <= q =>
         Previews!apply_currency_rounding(p, currency) <= Previews!apply_currency_rounding(q, currency)
Below(T) == {p \in Nat \ {0} : p < T}
Within(T, U) == {p \in Nat : T <= p /\ p < U}
From(T) == {p \in Nat : T <= p}

\* One grid for some prices.
GridFor(S, currency, s, a, l) ==
  /\ s \in Nat \ {0} /\ a \in Int /\ l \in Int /\ s * l + a \in Nat
  /\ \A p \in S : RoundedOn(p, currency, s, a, l)
Shared(g, T, s, a, l) == g \in Int /\ OnGrid(g, T, s, a, l)

\* Prices that are rounded to one grid keep their order.
LEMMA OneTier ==
  ASSUME NEW S, S \subseteq Nat, NEW currency, NEW s, NEW a, NEW l, GridFor(S, currency, s, a, l)
  PROVE  Sorted(currency, S)
<1> SUFFICES ASSUME NEW p \in S
             PROVE  /\ Previews!apply_currency_rounding(p, currency) \in Nat
                    /\ \A q \in S : p <= q =>
                         Previews!apply_currency_rounding(p, currency)
                           <= Previews!apply_currency_rounding(q, currency)
  BY DEF Sorted
<1>1. Previews!apply_currency_rounding(p, currency) \in Nat
  <2>1. s * l + a \in Nat /\ RoundedOn(p, currency, s, a, l)
    BY DEF GridFor
  <2> QED BY <2>1 DEF RoundedOn, OnGrid
<1> SUFFICES ASSUME NEW q \in S, p <= q
             PROVE  Previews!apply_currency_rounding(p, currency)
                      <= Previews!apply_currency_rounding(q, currency)
  BY <1>1
<1>2. /\ s \in Nat \ {0} /\ a \in Int /\ l \in Int
      /\ RoundedOn(p, currency, s, a, l) /\ RoundedOn(q, currency, s, a, l)
  BY DEF GridFor
<1>3. p \in Nat /\ q \in Nat
  OBVIOUS
<1> QED BY <1>2, <1>3, OneGrid

\* Two tiers that share the point nearest to the price where they meet.
LEMMA TwoGrids ==
  ASSUME NEW T \in Nat, T > 1, NEW currency, Sorted(currency, Below(T)),
         NEW B, B \subseteq Below(T), T - 1 \in B,
         NEW sv, NEW av, NEW l1, GridFor(B, currency, sv, av, l1),
         NEW S, S \subseteq From(T), NEW sw, NEW aw, NEW l2, GridFor(S, currency, sw, aw, l2),
         NEW g, Shared(g, T, sv, av, l1), Shared(g, T, sw, aw, l2)
  PROVE  Sorted(currency, Below(T) \cup S)
<1> DEFINE r(p) == Previews!apply_currency_rounding(p, currency)
<1>1. /\ sv \in Nat \ {0} /\ av \in Int /\ l1 \in Int
      /\ sw \in Nat \ {0} /\ aw \in Int /\ l2 \in Int
      /\ g \in Int /\ T - 1 \in Nat /\ T - 1 <= T
  BY DEF GridFor, Shared
<1>2. OnGrid(g, T, sv, av, l1) /\ OnGrid(g, T, sw, aw, l2)
  BY DEF Shared
<1>3. RoundedOn(T - 1, currency, sv, av, l1)
  BY DEF GridFor
<1>4. r(T - 1) <= g /\ r(T - 1) \in Int
  <2>1. r(T - 1) <= g
    BY <1>1, <1>2, <1>3, BelowPoint
  <2> QED BY <1>3, <2>1 DEF RoundedOn
<1>5. ASSUME NEW p \in Below(T) PROVE r(p) <= r(T - 1)
  <2>1. p <= T - 1 /\ T - 1 \in Below(T)
    BY DEF Below
  <2> QED BY <2>1 DEF Sorted
<1>6. ASSUME NEW q \in S PROVE g <= r(q) /\ r(q) \in Int
  <2>1. q \in Nat /\ T <= q
    BY DEF From
  <2>2. RoundedOn(q, currency, sw, aw, l2)
    BY DEF GridFor
  <2>3. g <= r(q)
    BY <1>1, <1>2, <2>1, <2>2, AbovePoint
  <2> QED BY <2>2, <2>3 DEF RoundedOn
<1>7. Sorted(currency, S)
  <2>1. S \subseteq Nat
    BY DEF From
  <2> QED BY <2>1, OneTier
<1>8. ASSUME NEW p \in Below(T) \cup S PROVE r(p) \in Nat
  BY <1>7 DEF Sorted
<1> SUFFICES ASSUME NEW p \in Below(T) \cup S, NEW q \in Below(T) \cup S, p <= q
             PROVE  r(p) <= r(q)
  BY <1>8 DEF Sorted
<1>9. CASE p \in Below(T) /\ q \in Below(T)
  BY <1>9 DEF Sorted
<1>10. CASE p \in S /\ q \in S
  BY <1>7, <1>10 DEF Sorted
<1>11. CASE p \in Below(T) /\ q \in S
  <2>1. r(p) <= r(T - 1) /\ r(T - 1) <= g /\ g <= r(q)
    BY <1>4, <1>5, <1>6, <1>11
  <2> QED BY <1>1, <1>4, <1>8, <2>1
<1>12. CASE p \in S /\ q \in Below(T)
  BY <1>12 DEF Below, From
<1> QED BY <1>9, <1>10, <1>11, <1>12

\* The prices of a tier.
LEMMA TierGridFor ==
  ASSUME NEW currency, NEW profile, profile = Previews!ProfileOf(currency), NEW tier, NEW s, NEW a, NEW l,
         TierGrid(profile, tier, s, a, l),
         NEW S, S \subseteq Nat \ {0}, \A p \in S : Previews!get_tier(p, profile.tiers) = tier
  PROVE  GridFor(S, currency, s, a, l)
<1>1. s \in Nat \ {0} /\ a \in Int /\ l \in Int
  <2>1. tier[2] \in StepSizes /\ s = 1000 * tier[2] /\ a \in Int /\ l \in Int
    BY DEF TierGrid
  <2> QED BY <2>1, Points DEF StepSizes
<1>2. ASSUME NEW p \in S PROVE RoundedOn(p, currency, s, a, l)
  <2>1. p \in Nat \ {0} /\ TierGrid(Previews!ProfileOf(currency),
                  Previews!get_tier(p, Previews!ProfileOf(currency).tiers), s, a, l)
    OBVIOUS
  <2> QED BY <2>1, GridOfTier
<1>3. s * l + a \in Nat
  <2>1. Lowest(l, s, a, profile.min_price) /\ profile.min_price \in Nat \ {0}
    BY DEF TierGrid
  <2>2. s * l \in Int
    BY <1>1, Steps
  <2> QED BY <1>1, <2>1, <2>2 DEF Lowest
<1> QED BY <1>1, <1>2, <1>3 DEF GridFor

\* Two tiers meet at a point of both their grids.
Meet(profile, t1, t2, T) ==
  /\ T = 1000 * t2[1] /\ t2[1] \in Nat \ {0}
  /\ \E sv, av, l1, sw, aw, l2, g \in Int :
       /\ TierGrid(profile, t1, sv, av, l1) /\ TierGrid(profile, t2, sw, aw, l2)
       /\ Shared(g, T, sv, av, l1) /\ Shared(g, T, sw, aw, l2)

\* The first tier keeps the order of its prices, and so does each one that is added.
LEMMA FirstTier ==
  ASSUME NEW currency, NEW profile, profile = Previews!ProfileOf(currency),
         NEW t1, NEW t2, NEW T, Meet(profile, t1, t2, T),
         \A p \in Nat : p < T => Previews!get_tier(p, profile.tiers) = t1
  PROVE  Sorted(currency, Below(T))
<1>1. PICK sv, av, l1 \in Int : TierGrid(profile, t1, sv, av, l1)
  BY DEF Meet
<1>2. T \in Nat
  BY DEF Meet
<1>3. Below(T) \subseteq Nat \ {0} /\ Below(T) \subseteq Nat
  BY DEF Below
<1>4. \A p \in Below(T) : Previews!get_tier(p, profile.tiers) = t1
  BY DEF Below
<1>5. GridFor(Below(T), currency, sv, av, l1)
  BY <1>1, <1>3, <1>4, TierGridFor
<1> QED BY <1>3, <1>5, OneTier

\* The next tier keeps the order where it meets the last one.
LEMMA NextTier ==
  ASSUME NEW currency, NEW profile, profile = Previews!ProfileOf(currency),
         NEW t1, NEW t2, NEW T, Meet(profile, t1, t2, T), Sorted(currency, Below(T)),
         Previews!get_tier(T - 1, profile.tiers) = t1,
         NEW S, S \subseteq From(T), \A p \in S : Previews!get_tier(p, profile.tiers) = t2
  PROVE  Sorted(currency, Below(T) \cup S)
<1>1. T \in Nat /\ T > 1
  BY DEF Meet
<1>2. PICK sv, av, l1, sw, aw, l2, g \in Int :
           /\ TierGrid(profile, t1, sv, av, l1) /\ TierGrid(profile, t2, sw, aw, l2)
           /\ Shared(g, T, sv, av, l1) /\ Shared(g, T, sw, aw, l2)
  BY DEF Meet
<1> DEFINE B == {T - 1}
<1>3. B \subseteq Below(T) /\ B \subseteq Nat \ {0} /\ S \subseteq Nat \ {0}
  BY <1>1 DEF Below, From
<1>4. \A p \in B : Previews!get_tier(p, profile.tiers) = t1
  OBVIOUS
<1>5. T - 1 \in B
  OBVIOUS
<1> HIDE DEF B
<1>6. GridFor(B, currency, sv, av, l1)
  BY <1>2, <1>3, <1>4, TierGridFor
<1>7. GridFor(S, currency, sw, aw, l2)
  BY <1>2, <1>3, TierGridFor
<1> QED BY <1>1, <1>2, <1>3, <1>5, <1>6, <1>7, TwoGrids

\* A currency of two tiers.
LEMMA TwoTiered ==
  ASSUME NEW currency, NEW profile, profile = Previews!ProfileOf(currency),
         NEW t1, NEW t2, profile.tiers = <<t1, t2>>, t1[1] = 0,
         NEW T, Meet(profile, t1, t2, T)
  PROVE  Sorted(currency, Nat \ {0})
<1>1. T \in Nat /\ T > 1 /\ t2[1] \in Nat /\ T = 1000 * t2[1]
  BY DEF Meet
<1>2. \A p \in Nat : Previews!get_tier(p, profile.tiers) = IF p >= T THEN t2 ELSE t1
  BY <1>1, TwoTiers
<1>3. Sorted(currency, Below(T))
  BY <1>1, <1>2, FirstTier
<1>4. Previews!get_tier(T - 1, profile.tiers) = t1
  BY <1>1, <1>2
<1>5. \A p \in From(T) : Previews!get_tier(p, profile.tiers) = t2
  BY <1>1, <1>2 DEF From
<1>6. Sorted(currency, Below(T) \cup From(T))
  BY <1>3, <1>4, <1>5, NextTier
<1>7. Below(T) \cup From(T) = Nat \ {0}
  BY <1>1 DEF Below, From
<1> QED BY <1>6, <1>7, Zenon

\* A currency of three tiers.
LEMMA ThreeTiered ==
  ASSUME NEW currency, NEW profile, profile = Previews!ProfileOf(currency),
         NEW t1, NEW t2, NEW t3, profile.tiers = <<t1, t2, t3>>, t1[1] = 0,
         NEW T, Meet(profile, t1, t2, T), NEW U, Meet(profile, t2, t3, U), T < U
  PROVE  Sorted(currency, Nat \ {0})
<1>1. /\ T \in Nat /\ T > 1 /\ t2[1] \in Nat /\ T = 1000 * t2[1]
      /\ U \in Nat /\ U > 1 /\ t3[1] \in Nat /\ U = 1000 * t3[1]
  BY DEF Meet
<1>2. \A p \in Nat : Previews!get_tier(p, profile.tiers) =
                       IF p >= U THEN t3 ELSE IF p >= T THEN t2 ELSE t1
  <2>1. t2[1] <= t3[1]
    BY <1>1
  <2> QED BY <1>1, <2>1, ThreeTiers
<1>3. Sorted(currency, Below(T))
  BY <1>1, <1>2, FirstTier
<1>4. Previews!get_tier(T - 1, profile.tiers) = t1 /\ Previews!get_tier(U - 1, profile.tiers) = t2
  BY <1>1, <1>2
<1>5. \A p \in Within(T, U) : Previews!get_tier(p, profile.tiers) = t2
  BY <1>1, <1>2 DEF Within
<1>6. \A p \in From(U) : Previews!get_tier(p, profile.tiers) = t3
  BY <1>1, <1>2 DEF From
<1>7. Within(T, U) \subseteq From(T)
  BY DEF Within, From
<1>8. Below(T) \cup Within(T, U) = Below(U)
  BY <1>1 DEF Below, Within
<1>9. Sorted(currency, Below(T) \cup Within(T, U))
  BY <1>3, <1>4, <1>5, <1>7, NextTier
<1>10. Sorted(currency, Below(U))
  BY <1>8, <1>9, Zenon
<1>11. Sorted(currency, Below(U) \cup From(U))
  BY <1>4, <1>6, <1>10, NextTier
<1>12. Below(U) \cup From(U) = Nat \ {0}
  BY <1>1 DEF Below, From
<1> QED BY <1>11, <1>12, Zenon

\* A currency of four tiers.
LEMMA FourTiered ==
  ASSUME NEW currency, NEW profile, profile = Previews!ProfileOf(currency),
         NEW t1, NEW t2, NEW t3, NEW t4, profile.tiers = <<t1, t2, t3, t4>>, t1[1] = 0,
         NEW T, Meet(profile, t1, t2, T), NEW U, Meet(profile, t2, t3, U),
         NEW V, Meet(profile, t3, t4, V), T < U, U < V
  PROVE  Sorted(currency, Nat \ {0})
<1>1. /\ T \in Nat /\ T > 1 /\ t2[1] \in Nat /\ T = 1000 * t2[1]
      /\ U \in Nat /\ U > 1 /\ t3[1] \in Nat /\ U = 1000 * t3[1]
      /\ V \in Nat /\ V > 1 /\ t4[1] \in Nat /\ V = 1000 * t4[1]
  BY DEF Meet
<1>2. \A p \in Nat : Previews!get_tier(p, profile.tiers) =
                       IF p >= V THEN t4 ELSE IF p >= U THEN t3 ELSE IF p >= T THEN t2 ELSE t1
  <2>1. t2[1] <= t3[1] /\ t3[1] <= t4[1]
    BY <1>1
  <2> SUFFICES ASSUME NEW p \in Nat
               PROVE  Previews!get_tier(p, <<t1, t2, t3, t4>>) =
                        IF p >= V THEN t4 ELSE IF p >= U THEN t3 ELSE IF p >= T THEN t2 ELSE t1
    OBVIOUS
  <2>2. Previews!get_tier(p, <<t1, t2, t3, t4>>) =
          IF p >= 1000 * t4[1] THEN t4 ELSE IF p >= 1000 * t3[1] THEN t3
          ELSE IF p >= 1000 * t2[1] THEN t2 ELSE t1
    BY <1>1, <2>1, FourTiers
  <2> QED BY <1>1, <2>2
<1>3. Sorted(currency, Below(T))
  BY <1>1, <1>2, FirstTier
<1>4. /\ Previews!get_tier(T - 1, profile.tiers) = t1
      /\ Previews!get_tier(U - 1, profile.tiers) = t2
      /\ Previews!get_tier(V - 1, profile.tiers) = t3
  BY <1>1, <1>2
<1>5. /\ \A p \in Within(T, U) : Previews!get_tier(p, profile.tiers) = t2
      /\ \A p \in Within(U, V) : Previews!get_tier(p, profile.tiers) = t3
      /\ \A p \in From(V) : Previews!get_tier(p, profile.tiers) = t4
  BY <1>1, <1>2 DEF Within, From
<1>6. Within(T, U) \subseteq From(T) /\ Within(U, V) \subseteq From(U)
  BY DEF Within, From
<1>7. Below(T) \cup Within(T, U) = Below(U)
  BY <1>1 DEF Below, Within
<1>8. Below(U) \cup Within(U, V) = Below(V)
  BY <1>1 DEF Below, Within
<1>9. Sorted(currency, Below(T) \cup Within(T, U))
  BY ZenonT(120), <1>3, <1>4, <1>5, <1>6, NextTier
<1>10. Sorted(currency, Below(U))
  BY <1>7, <1>9, Zenon
<1>11. Sorted(currency, Below(U) \cup Within(U, V))
  BY SMTT(60), <1>4, <1>5, <1>6, <1>10, NextTier
<1>12. Sorted(currency, Below(V))
  BY <1>8, <1>11, Zenon
<1>13. Sorted(currency, Below(V) \cup From(V))
  BY ZenonT(120), <1>4, <1>5, <1>12, NextTier
<1>14. Below(V) \cup From(V) = Nat \ {0}
  BY <1>1 DEF Below, From
<1> QED BY <1>13, <1>14, Zenon

\* The tiers of the yen share the points where they meet.
LEMMA JpyMeets ==
  Meet(Previews!JPY, <<0, 10, -10>>, <<10000, 100, -100>>, 10000000)

<1>1. Shared(10000000, 10000000, 10000, -10000, 11) /\ Shared(10000000, 10000000, 100000, -100000, 2)
  <2>1. 10000000 = 10000 * 1001 + (-10000) /\ 10000000 = 100000 * 101 + (-100000)
    BY SMT
  <2> QED BY <2>1, SMT DEF Shared, OnGrid
<1>2. Meet(Previews!JPY, <<0, 10, -10>>, <<10000, 100, -100>>, 10000000)
  BY <1>1, JpyGrids, SMT DEF Meet

<1> QED BY <1>2, SMT

\* The yen, and what has its profile, keeps the order of its prices.
LEMMA JpySorted ==
  ASSUME NEW currency, Previews!ProfileOf(currency) = Previews!JPY
  PROVE  Sorted(currency, Nat \ {0})
<1>1. Previews!JPY.tiers = <<<<0, 10, -10>>, <<10000, 100, -100>>>>
  BY JpyGrids, SMT DEF JpyTiers
<1> QED BY <1>1, JpyMeets, TwoTiered, SMT

\* The tiers of the won share the points where they meet.
LEMMA KrwMeets ==
  Meet(Previews!KRW, <<0, 100, -100>>, <<100000, 1000, -1000>>, 100000000)

<1>1. Shared(100000000, 100000000, 100000, -100000, 10) /\ Shared(100000000, 100000000, 1000000, -1000000, 2)
  <2>1. 100000000 = 100000 * 1001 + (-100000) /\ 100000000 = 1000000 * 101 + (-1000000)
    BY SMT
  <2> QED BY <2>1, SMT DEF Shared, OnGrid
<1>2. Meet(Previews!KRW, <<0, 100, -100>>, <<100000, 1000, -1000>>, 100000000)
  BY <1>1, KrwGrids, SMT DEF Meet

<1> QED BY <1>2, SMT

\* The won, and what has its profile, keeps the order of its prices.
LEMMA KrwSorted ==
  ASSUME NEW currency, Previews!ProfileOf(currency) = Previews!KRW
  PROVE  Sorted(currency, Nat \ {0})
<1>1. Previews!KRW.tiers = <<<<0, 100, -100>>, <<100000, 1000, -1000>>>>
  BY KrwGrids, SMT DEF KrwTiers
<1> QED BY <1>1, KrwMeets, TwoTiered, SMT

\* The tiers of the dong share the points where they meet.
LEMMA VndMeets ==
  Meet(Previews!VND, <<0, 1000, 0>>, <<1000000, 10000, 0>>, 1000000000)

<1>1. Shared(1000000000, 1000000000, 1000000, 0, 10) /\ Shared(1000000000, 1000000000, 10000000, 0, 1)
  <2>1. 1000000000 = 1000000 * 1000 + 0 /\ 1000000000 = 10000000 * 100 + 0
    BY SMT
  <2> QED BY <2>1, SMT DEF Shared, OnGrid
<1>2. Meet(Previews!VND, <<0, 1000, 0>>, <<1000000, 10000, 0>>, 1000000000)
  BY <1>1, VndGrids, SMT DEF Meet

<1> QED BY <1>2, SMT

\* The dong, and what has its profile, keeps the order of its prices.
LEMMA VndSorted ==
  ASSUME NEW currency, Previews!ProfileOf(currency) = Previews!VND
  PROVE  Sorted(currency, Nat \ {0})
<1>1. Previews!VND.tiers = <<<<0, 1000, 0>>, <<1000000, 10000, 0>>>>
  BY VndGrids, SMT DEF VndTiers
<1> QED BY <1>1, VndMeets, TwoTiered, SMT

\* The tiers of the peso share the points where they meet.
LEMMA PhpMeets ==
  Meet(Previews!PHP, <<0, 10, -1>>, <<10000, 100, -1>>, 10000000)

<1>1. Shared(9999000, 10000000, 10000, -1000, 5) /\ Shared(9999000, 10000000, 100000, -1000, 1)
  <2>1. 9999000 = 10000 * 1000 + (-1000) /\ 9999000 = 100000 * 100 + (-1000)
    BY SMT
  <2> QED BY <2>1, SMT DEF Shared, OnGrid
<1>2. Meet(Previews!PHP, <<0, 10, -1>>, <<10000, 100, -1>>, 10000000)
  BY <1>1, PhpGrids, SMT DEF Meet

<1> QED BY <1>2, SMT

\* The peso, and what has its profile, keeps the order of its prices.
LEMMA PhpSorted ==
  ASSUME NEW currency, Previews!ProfileOf(currency) = Previews!PHP
  PROVE  Sorted(currency, Nat \ {0})
<1>1. Previews!PHP.tiers = <<<<0, 10, -1>>, <<10000, 100, -1>>>>
  BY PhpGrids, SMT DEF PhpTiers
<1> QED BY <1>1, PhpMeets, TwoTiered, SMT

\* The tiers of the Indian rupee share the points where they meet.
LEMMA InrMeets ==
  /\ Meet(Previews!INR, <<0, 100, -1>>, <<1000, 500, -1>>, 1000000)
  /\ Meet(Previews!INR, <<1000, 500, -1>>, <<10000, 1000, -1>>, 10000000)

<1>1. Shared(999000, 1000000, 100000, -1000, 1) /\ Shared(999000, 1000000, 500000, -1000, 1)
  <2>1. 999000 = 100000 * 10 + (-1000) /\ 999000 = 500000 * 2 + (-1000)
    BY SMT
  <2> QED BY <2>1, SMT DEF Shared, OnGrid
<1>2. Meet(Previews!INR, <<0, 100, -1>>, <<1000, 500, -1>>, 1000000)
  BY <1>1, InrGrids, SMT DEF Meet

<1>3. Shared(9999000, 10000000, 500000, -1000, 1) /\ Shared(9999000, 10000000, 1000000, -1000, 1)
  <2>1. 9999000 = 500000 * 20 + (-1000) /\ 9999000 = 1000000 * 10 + (-1000)
    BY SMT
  <2> QED BY <2>1, SMT DEF Shared, OnGrid
<1>4. Meet(Previews!INR, <<1000, 500, -1>>, <<10000, 1000, -1>>, 10000000)
  BY <1>3, InrGrids, SMT DEF Meet

<1> QED BY <1>2, <1>4, SMT

\* The Indian rupee, and what has its profile, keeps the order of its prices.
LEMMA InrSorted ==
  ASSUME NEW currency, Previews!ProfileOf(currency) = Previews!INR
  PROVE  Sorted(currency, Nat \ {0})
<1>1. Previews!INR.tiers = <<<<0, 100, -1>>, <<1000, 500, -1>>, <<10000, 1000, -1>>>>
  BY InrGrids, SMT DEF InrTiers
<1> QED BY <1>1, InrMeets, ThreeTiered, SMT

\* The tiers of the Argentine peso share the points where they meet.
LEMMA ArsMeets ==
  /\ Meet(Previews!ARS, <<0, 10, 0>>, <<100, 50, 0>>, 100000)
  /\ Meet(Previews!ARS, <<100, 50, 0>>, <<500, 100, 0>>, 500000)
  /\ Meet(Previews!ARS, <<500, 100, 0>>, <<5000, 500, 0>>, 5000000)

<1>1. Shared(99990, 100000, 10000, -10, 1) /\ Shared(99990, 100000, 50000, -10, 1)
  <2>1. 99990 = 10000 * 10 + (-10) /\ 99990 = 50000 * 2 + (-10)
    BY SMT
  <2> QED BY <2>1, SMT DEF Shared, OnGrid
<1>2. Meet(Previews!ARS, <<0, 10, 0>>, <<100, 50, 0>>, 100000)
  BY <1>1, ArsGrids, SMT DEF Meet

<1>3. Shared(499990, 500000, 50000, -10, 1) /\ Shared(499990, 500000, 100000, -10, 1)
  <2>1. 499990 = 50000 * 10 + (-10) /\ 499990 = 100000 * 5 + (-10)
    BY SMT
  <2> QED BY <2>1, SMT DEF Shared, OnGrid
<1>4. Meet(Previews!ARS, <<100, 50, 0>>, <<500, 100, 0>>, 500000)
  BY <1>3, ArsGrids, SMT DEF Meet

<1>5. Shared(4999990, 5000000, 100000, -10, 1) /\ Shared(4999990, 5000000, 500000, -10, 1)
  <2>1. 4999990 = 100000 * 50 + (-10) /\ 4999990 = 500000 * 10 + (-10)
    BY SMT
  <2> QED BY <2>1, SMT DEF Shared, OnGrid
<1>6. Meet(Previews!ARS, <<500, 100, 0>>, <<5000, 500, 0>>, 5000000)
  BY <1>5, ArsGrids, SMT DEF Meet

<1> QED BY <1>2, <1>4, <1>6, SMT

\* The Argentine peso, and what has its profile, keeps the order of its prices.
LEMMA ArsSorted ==
  ASSUME NEW currency, Previews!ProfileOf(currency) = Previews!ARS
  PROVE  Sorted(currency, Nat \ {0})
<1>1. Previews!ARS.tiers = <<<<0, 10, 0>>, <<100, 50, 0>>, <<500, 100, 0>>, <<5000, 500, 0>>>>
  BY ArsGrids, SMT DEF ArsTiers
<1> QED BY <1>1, ArsMeets, FourTiered, SMT

\* The currencies without tiers.
WholeTier(profile) ==
  /\ profile.tiers = << >> /\ profile.min_price \in Nat \ {0}
  /\ \E s, l \in Int : WholeGrid(s, profile.suffix, l, profile.min_price)

\* They keep the order of their prices.
LEMMA PlainSorted ==
  ASSUME NEW currency, WholeTier(Previews!ProfileOf(currency))
  PROVE  Sorted(currency, Nat \ {0})
<1> DEFINE profile == Previews!ProfileOf(currency)
           suffix == profile.suffix
           min == profile.min_price
<1>1. PICK s, l \in Int : WholeGrid(s, suffix, l, min)
  BY DEF WholeTier
<1>2. min \in Nat \ {0} /\ profile.tiers = << >>
  BY DEF WholeTier
<1> HIDE DEF suffix, min
<1>3. s \in Nat \ {0} /\ suffix \in Int /\ l \in Int /\ s * l + suffix \in Nat
  BY <1>1, <1>2 DEF WholeGrid, Lowest
<1>4. \A p \in Nat \ {0} : RoundedOn(p, currency, s, suffix, l)
  BY <1>1, <1>2, PlainRounds DEF suffix, min
<1>5. GridFor(Nat \ {0}, currency, s, suffix, l)
  BY <1>3, <1>4 DEF GridFor
<1>6. Nat \ {0} \subseteq Nat
  OBVIOUS
<1> QED BY <1>5, <1>6, OneTier

\* The four profiles that have none.
LEMMA WholeTiers ==
  /\ WholeTier(Previews!STANDARD_99) /\ WholeTier(Previews!BRL)
  /\ WholeTier(Previews!RUB) /\ WholeTier(Previews!STANDARD_3DP)
<1>1. /\ WholeGrid(1000, 990, 0, 990) /\ WholeGrid(1000, 900, 0, 900)
      /\ WholeGrid(1000, 0, 1, 1000) /\ WholeGrid(1000, 999, 0, 999)
  BY DEF WholeGrid, Lowest
<1> QED
  BY <1>1 DEF WholeTier, Previews!STANDARD_99, Previews!BRL, Previews!RUB, Previews!STANDARD_3DP, Previews!Plain

\* Every currency has one of the ten profiles, and keeps the order of its prices.
LEMMA CurrencySorted == \A currency : Sorted(currency, Nat)
<1> SUFFICES ASSUME NEW currency PROVE Sorted(currency, Nat)
  OBVIOUS
<1>1. Previews!ProfileOf(currency) \in
        {Previews!STANDARD_99, Previews!BRL, Previews!RUB, Previews!STANDARD_3DP, Previews!JPY,
         Previews!KRW, Previews!VND, Previews!INR, Previews!PHP, Previews!ARS}
  BY Zenon DEF Previews!ProfileOf
<1>2. Sorted(currency, Nat \ {0})
  BY <1>1, WholeTiers, PlainSorted, JpySorted, KrwSorted, VndSorted, InrSorted, PhpSorted, ArsSorted
<1>3. Previews!apply_currency_rounding(0, currency) = 0
  BY DEF Previews!apply_currency_rounding
<1> QED BY <1>2, <1>3 DEF Sorted

\* The other modes keep the order too.
LEMMA QuantizeSorts ==
  ASSUME NEW step \in {1, 10, 1000}, NEW p \in Nat, NEW q \in Nat, p <= q
  PROVE  Previews!Quantize(p, step) <= Previews!Quantize(q, step)
<1>1. CASE step = 1
  BY <1>1 DEF Previews!Quantize
<1>2. CASE step = 10
  BY <1>2 DEF Previews!Quantize
<1>3. CASE step = 1000
  BY <1>3 DEF Previews!Quantize
<1> QED BY <1>1, <1>2, <1>3

\* A charming price, from the whole units and the rest.
Charmed(whole, fractional, suffix) ==
  IF fractional < suffix /\ fractional < 500
  THEN (IF whole - 1 > 0 THEN whole - 1 ELSE 0) * 1000 + suffix
  ELSE whole * 1000 + suffix
Charms(r, suffix, whole, fractional) ==
  /\ whole \in Nat /\ fractional \in 0..999 /\ r = 1000 * whole + fractional
  /\ Previews!apply_charming(r, suffix) = Charmed(whole, fractional, suffix)

\* A charming price depends on the whole units and the rest.
LEMMA CharmingIs == \A r \in Nat, suffix \in {950, 990} : \E v, e : Charms(r, suffix, v, e)
<1> SUFFICES ASSUME NEW r \in Nat, NEW suffix \in {950, 990} PROVE \E v, e : Charms(r, suffix, v, e)
  OBVIOUS
<1>1. \A n \in Int : Previews!Max({n, 0}) = IF n > 0 THEN n ELSE 0
  BY DEF Previews!Max
<1>2. Previews!apply_charming(r, suffix) = Charmed(r \div 1000, r % 1000, suffix)
  BY <1>1 DEF Charmed, Previews!apply_charming, Previews!Unit
<1>3. r \div 1000 \in Nat /\ r % 1000 \in 0..999 /\ r = 1000 * (r \div 1000) + (r % 1000)
  OBVIOUS
<1>4. Charms(r, suffix, r \div 1000, r % 1000)
  BY <1>2, <1>3 DEF Charms
<1> QED BY <1>4

\* The charming modes keep the order.
LEMMA CharmingSorts ==
  ASSUME NEW suffix \in {950, 990}, NEW p \in Nat, NEW q \in Nat, p <= q
  PROVE  Previews!apply_charming(p, suffix) <= Previews!apply_charming(q, suffix)
<1>1. PICK v, e : Charms(p, suffix, v, e)
  BY CharmingIs
<1>2. PICK w, f : Charms(q, suffix, w, f)
  BY CharmingIs
<1>3. /\ v \in Nat /\ w \in Nat /\ e \in 0..999 /\ f \in 0..999
      /\ v < w \/ (v = w /\ e <= f)
  BY SMTT(60), <1>1, <1>2 DEF Charms
<1>4. Charmed(v, e, suffix) <= Charmed(w, f, suffix)
  BY <1>3 DEF Charmed
<1> QED BY <1>1, <1>2, <1>4 DEF Charms

\* Whatever the mode and the currency, the dearer price stays the dearer one.
LEMMA FinalSorts ==
  ASSUME NEW mode, NEW currency, NEW p \in Nat, NEW q \in Nat, p <= q
  PROVE  Previews!finalize_price(p, mode, currency) <= Previews!finalize_price(q, mode, currency)
<1>1. CASE mode = "none"
  <2>1. Previews!QuantumOf(currency) \in {1, 10, 1000}
    BY DEF Previews!QuantumOf, Previews!Unit
  <2> QED BY <1>1, <2>1, QuantizeSorts DEF Previews!finalize_price
<1>2. CASE mode = "99" /\ Previews!ProfileOf(currency).decimals = 2
  BY <1>2, CharmingSorts DEF Previews!finalize_price
<1>3. CASE mode = "95" /\ Previews!ProfileOf(currency).decimals = 2
  BY <1>3, CharmingSorts DEF Previews!finalize_price
<1>4. CASE mode # "none" /\ ~(mode \in {"99", "95"} /\ Previews!ProfileOf(currency).decimals = 2)
  <2>1. \A r \in {p, q} : Previews!finalize_price(r, mode, currency)
                            = Previews!apply_currency_rounding(r, currency)
    BY <1>4 DEF Previews!finalize_price
  <2> QED BY <2>1, CurrencySorted DEF Sorted
<1> QED BY <1>1, <1>2, <1>3, <1>4

\* So what is shown is in order.
LEMMA PreviewInvHolds == PreviewInv => PreviewHolds
<1> SUFFICES ASSUME PreviewInv PROVE Previews!KeepsOrder
  BY DEF PreviewInv, PreviewHolds, Previews!PreviewHolds
<1>1. PICK mode \in Modes : \A t \in DOMAIN seen : ~seen[t].manual => Made(t, mode)
  BY DEF PreviewInv
<1> SUFFICES ASSUME NEW t \in DOMAIN seen, NEW u \in DOMAIN seen, ~seen[t].manual, ~seen[u].manual,
                    seen[t].currency = seen[u].currency, seen[t].raw <= seen[u].raw
             PROVE  seen[t].suggested <= seen[u].suggested
  BY DEF Previews!KeepsOrder
<1>2. Made(t, mode) /\ Made(u, mode)
  BY <1>1
<1> QED BY <1>2, FinalSorts DEF Made

-----------------------------------------------------------------------------
(* The specification of the run: one part moves, the others rest.          *)

\* What each part's own step is when another one moves: nothing.
LEMMA PartsMove ==
  ASSUME [MCNext]_<<part, trialVars, vars, previewVars>>
  PROVE  /\ [Trials!Next]_(Trials!vars)
         /\ [Previews!Next]_(Previews!vars)
  BY DEF MCNext, OfferStep, VersionStep, PreviewStep, trialVars, previewVars,
         Trials!vars, Previews!vars

\* An apply that reports its trial as synced has left it in every target
\* territory, whatever of the deletes and creates failed on the way.
THEOREM SyncedTrialsAreComplete == MCSpec => SyncedIsComplete
  <1>1. MCInit => OfferInv
    BY OfferInit DEF MCInit
  <1>2. OfferInv /\ [MCNext]_<<part, trialVars, vars, previewVars>>
          => OfferInv' /\ [\A a \in {a1} : offerPc[a] = "create" /\ answer'[a] = "synced" =>
                             \A t \in target[a] : offer[t] = desired[a]]_(Trials!vars)
    BY PartsMove, OfferStepHolds DEF SyncedNow
  <1> QED BY <1>1, <1>2, PTL DEF MCSpec, SyncedIsComplete, Trials!SyncedIsComplete

\* What a preview has shown as going through is not skipped by the apply if nothing
\* has changed since, and the rounding to nice prices never makes the dearer of two
\* territories of one currency the cheaper one: for every price, rate, tax and index,
\* and each of the profiles of the code.
THEOREM PreviewsHold == MCSpec => []PreviewHolds
  <1>1. MCInit => PreviewInv
    BY PreviewInit DEF MCInit
  <1>2. PreviewInv /\ [MCNext]_<<part, trialVars, vars, previewVars>> => PreviewInv'
    BY PartsMove, PreviewStepHolds
  <1> QED BY <1>1, <1>2, PreviewInvHolds, PTL DEF MCSpec
=============================================================================
