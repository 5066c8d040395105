---------------------------- MODULE PriceVersions ----------------------------
(***************************************************************************)
(* Saving the price versions of one product                                *)
(* (services/pricing/versions.py).  Every apply that reached Apple, and    *)
(* every baseline, reads the highest number, inserts the next one and      *)
(* commits; a unique constraint lets one of two equal numbers through, and *)
(* the loser reads again, VERSION_INSERT_ATTEMPTS times in all.            *)
(***************************************************************************)
EXTENDS Naturals, FiniteSets

CONSTANTS
  Saver,                     \* applies and baselines, each saves once
  VERSION_INSERT_ATTEMPTS

ASSUME AttemptsAssumption == VERSION_INSERT_ATTEMPTS \in Nat \ {0}

VARIABLES
  versions,   \* the rows of the product: [version, saver]
  pc,
  attempt,
  number      \* the number read, 0 before

vars == <<versions, pc, attempt, number>>

Ends == {"saved", "outraced", "failed", "died"}
Row == [version : Nat \ {0}, saver : Saver]

TypeOK ==
  /\ versions \in SUBSET Row
  /\ pc \in [Saver -> {"apply", "read", "insert"} \cup Ends]
  /\ attempt \in [Saver -> 1..VERSION_INSERT_ATTEMPTS]
  /\ number \in [Saver -> Nat]

Init ==
  /\ versions = {}
  /\ pc = [s \in Saver |-> "apply"]
  /\ attempt = [s \in Saver |-> 1]
  /\ number = [s \in Saver |-> 0]

Taken == {v.version : v \in versions}

\* The apply is done with Apple, or the baseline has read the cached prices.
Start(s) ==
  /\ pc[s] = "apply"
  /\ pc' = [pc EXCEPT ![s] = "read"]
  /\ UNCHANGED <<versions, attempt, number>>

\* max(version) + 1, or 1.
IsNext(n) == n - 1 \in Taken \cup {0} /\ \A m \in Taken : m < n

\* _next_version.
Read(s) ==
  /\ pc[s] = "read"
  /\ \E n \in 1..(Cardinality(versions) + 1) :
       IsNext(n) /\ number' = [number EXCEPT ![s] = n]
  /\ pc' = [pc EXCEPT ![s] = "insert"]
  /\ UNCHANGED <<versions, attempt>>

Conflict_Forever(s) ==
  /\ pc' = [pc EXCEPT ![s] = "insert"]
  /\ UNCHANGED attempt

Conflict_SameNumber(s) ==
  IF attempt[s] = VERSION_INSERT_ATTEMPTS
  THEN /\ pc' = [pc EXCEPT ![s] = "outraced"]
       /\ UNCHANGED attempt
  ELSE /\ pc' = [pc EXCEPT ![s] = "insert"]
       /\ attempt' = [attempt EXCEPT ![s] = @ + 1]

Conflict_NoLimit(s) ==
  /\ pc' = [pc EXCEPT ![s] = "read"]
  /\ attempt' = [attempt EXCEPT ![s] = @ + 1]

\* The IntegrityError: read again, unless this was the last attempt.
Conflict(s) ==
  IF attempt[s] = VERSION_INSERT_ATTEMPTS
  THEN /\ pc' = [pc EXCEPT ![s] = "outraced"]
       /\ UNCHANGED attempt
  ELSE /\ pc' = [pc EXCEPT ![s] = "read"]
       /\ attempt' = [attempt EXCEPT ![s] = @ + 1]

Collides_Never(s) == FALSE

\* uq_price_version_product_version.
Collides(s) == number[s] \in Taken

\* Insert and commit, at once for the database.
Insert(s) ==
  /\ pc[s] = "insert"
  /\ IF Collides(s)
     THEN Conflict(s) /\ UNCHANGED versions
     ELSE /\ versions' = versions \cup {[version |-> number[s], saver |-> s]}
          /\ pc' = [pc EXCEPT ![s] = "saved"]
          /\ UNCHANGED attempt
  /\ UNCHANGED number

\* Any other database error, swallowed by record_apply_version, or the end of
\* the process.
Stop(s) ==
  /\ pc[s] \in {"read", "insert"}
  /\ \E end \in {"failed", "died"} : pc' = [pc EXCEPT ![s] = end]
  /\ UNCHANGED <<versions, attempt, number>>

Next == \E s \in Saver : Start(s) \/ Read(s) \/ Insert(s) \/ Stop(s)

Spec == Init /\ [][Next]_vars

\* A request runs on by itself once it has begun.
FairSpec == Spec /\ \A s \in Saver : WF_vars(Read(s) \/ Insert(s))

-----------------------------------------------------------------------------
(* Properties *)

\* The versions of a product are 1, 2, 3, ...: no number twice, none left out,
\* however the saves overlap and fail.
Numbered == Taken = 1..Cardinality(versions)

SaverOf(n) == (CHOOSE v \in versions : v.version = n).saver
Told(s) == CASE pc[s] = "saved" -> "saved"
             [] pc[s] \in Ends \ {"saved"} -> "failed"
             [] OTHER -> "waiting"
Log == INSTANCE VersionLog WITH
  log  <- [n \in Taken |-> SaverOf(n)],
  told <- [s \in Saver |-> Told(s)]

\* Overlapping saves that read the same number, lose the race for it and read
\* again amount to one log that each of them appends to at once or not at all:
\* a version keeps its number and its contents, and who is told it is saved
\* has exactly one.
SavesAppend == Log!Spec

\* Lost races alone lose a version only when as many other saves of the same
\* product as there are attempts got through meanwhile.
OutracedByEnough ==
  \A s \in Saver : pc[s] = "outraced" =>
    Cardinality(versions) >= VERSION_INSERT_ATTEMPTS

\* A save ends.
Answers == \A s \in Saver : pc[s] = "read" ~> pc[s] \in Ends
=============================================================================
