----------------------------- MODULE AssetTools -----------------------------
(***************************************************************************)
(* The tools that change one screenshot of one set: screenshots_upload,    *)
(* screenshots_delete and cpp_screenshots_delete.  Each lists the set once *)
(* and works from that list to its end, one call to App Store Connect at a *)
(* time; none of them takes the lock of the asset sync.                    *)
(***************************************************************************)
EXTENDS Naturals, Sequences, FiniteSets, SequencesExt

CONSTANTS
  Runs,                 \* requests that may overlap
  Names,                \* file names
  MAX_SCREENSHOT_FILES, \* Apple's cap on a set
  MaxCalls              \* bound on the requests

VARIABLES
  set,    \* the set: [there, shots], shots a sequence of [id, name]
  run,    \* request -> its state
  mixed,  \* history: two requests overlapped, or one went by position
  calls

vars == <<set, run, mixed, calls>>

Idle == [pc |-> "idle"]
To(r, rec) == run' = [run EXCEPT ![r] = rec]
Step(r, pc) == [run[r] EXCEPT !.pc = pc]
Ids(shots) == {shots[i].id : i \in DOMAIN shots}
Without(shots, id) ==
  IF id \in Ids(shots) THEN RemoveAt(shots, CHOOSE i \in DOMAIN shots : shots[i].id = id) ELSE shots
NoSet == [there |-> FALSE, shots |-> <<>>]

\* What is in the set now is still what the run listed, or was done by it.
Start(r, rec) ==
  /\ run[r] = Idle /\ calls < MaxCalls /\ calls' = calls + 1
  /\ LET alone == \A s \in Runs : run[s] = Idle IN
     /\ run' = [s \in Runs |->
          IF s = r THEN [rec EXCEPT !.alone = alone]
          ELSE IF run[s] = Idle THEN Idle ELSE [run[s] EXCEPT !.alone = FALSE]]
     /\ mixed' = (mixed \/ ~alone \/ (rec.by = "position" /\ rec.do = "upload"))
  /\ UNCHANGED set

Blank == [pc |-> "find", do |-> "upload", by |-> "name", id |-> calls + 1, name |-> CHOOSE n \in Names : TRUE,
          at |-> 0, listed |-> <<>>, todo |-> <<>>, prune |-> FALSE, alone |-> TRUE]

-----------------------------------------------------------------------------
(* screenshots_upload                                                      *)

upload_version_screenshot(r, name, by, at) ==
  Start(r, [Blank EXCEPT !.name = name, !.by = by, !.at = at])

\* ensure_screenshot_set, then the list; by name: the same name, else the end.
SlotOf(shots, name) ==
  LET same == {i \in DOMAIN shots : shots[i].name = name} IN
  IF same = {} THEN Len(shots) + 1 ELSE CHOOSE i \in same : \A j \in same : i <= j

ListForUpload(r) ==
  LET at == IF run[r].by = "name" THEN SlotOf(set.shots, run[r].name) ELSE run[r].at IN
  /\ run[r].pc = "find" /\ run[r].do = "upload"
  /\ set' = [set EXCEPT !.there = TRUE]
  /\ To(r, IF at > Len(set.shots) + 1 THEN Idle
           ELSE [Step(r, "replace") EXCEPT !.at = at, !.listed = set.shots])
  /\ UNCHANGED <<mixed, calls>>

\* The old one goes first: Apple's cap leaves no room to upload beside it.
Replace(r) ==
  LET old == run[r].listed[run[r].at] IN
  /\ run[r].pc = "replace"
  /\ IF run[r].at \notin DOMAIN run[r].listed
     THEN /\ To(r, IF Len(run[r].listed) >= MAX_SCREENSHOT_FILES THEN Idle ELSE Step(r, "post"))
          /\ UNCHANGED set
     ELSE \/ /\ set' = [set EXCEPT !.shots = Without(@, old.id)]
             /\ To(r, [Step(r, "post") EXCEPT !.listed = Without(@, old.id)])
          \/ /\ set' = [set EXCEPT !.shots = Without(@, old.id)] \/ UNCHANGED set
             /\ To(r, Idle)
  /\ UNCHANGED <<mixed, calls>>

\* upload_to_set: reserve, PUT and commit.  The reservation that a failure
\* leaves is an asset of the set.
Post(r) ==
  /\ run[r].pc = "post"
  /\ IF set.there /\ Len(set.shots) < MAX_SCREENSHOT_FILES
     THEN /\ set' = [set EXCEPT !.shots = Append(@, [id |-> run[r].id, name |-> run[r].name])]
          /\ To(r, Step(r, "order")) \/ To(r, Idle)
     ELSE To(r, Idle) /\ UNCHANGED set
  /\ UNCHANGED <<mixed, calls>>

\* reorder_set sends the whole order of the list; Apple takes it only when it
\* names just what the set holds.
Order_Appends(r) == Append(run[r].listed, [id |-> run[r].id, name |-> run[r].name])
Order(r) == InsertAt(run[r].listed, run[r].at, [id |-> run[r].id, name |-> run[r].name])

Reorder(r) ==
  /\ run[r].pc = "order"
  /\ \/ /\ run[r].at = Len(run[r].listed) + 1 /\ UNCHANGED set
        /\ To(r, Step(r, "verify"))
     \/ /\ run[r].at # Len(run[r].listed) + 1 /\ Ids(Order(r)) = Ids(set.shots)
        /\ set' = [set EXCEPT !.shots = Order(r)]
        /\ To(r, Step(r, "verify")) \/ To(r, Idle)
     \/ run[r].at # Len(run[r].listed) + 1 /\ To(r, Idle) /\ UNCHANGED set
  /\ UNCHANGED <<mixed, calls>>

\* _verify_upload only reads; Apple may have refused the asset.
Verify(r) ==
  /\ run[r].pc = "verify" /\ To(r, Idle)
  /\ UNCHANGED <<set, mixed, calls>>

-----------------------------------------------------------------------------
(* screenshots_delete, cpp_screenshots_delete                              *)

Selectors == {"id", "position", "all"}
Delete(r, by, at, prune) ==
  Start(r, [Blank EXCEPT !.do = "delete", !.by = by, !.at = at, !.prune = prune])
delete_version_screenshots(r, by, at, prune) == Delete(r, by, at, prune)
delete_cpp_screenshots(r, by, at, prune) == Delete(r, by, at, prune)

\* delete_from_localization: the targets, and what will remain, are of this
\* list.  An id that is asked for is one of the set.
ListForDelete(r) ==
  LET all == run[r].by = "all"
      todo == IF all THEN set.shots ELSE <<set.shots[run[r].at]>> IN
  /\ run[r].pc = "find" /\ run[r].do = "delete"
  /\ To(r, IF ~set.there \/ (~all /\ run[r].at \notin DOMAIN set.shots) THEN Idle
           ELSE [Step(r, "delete") EXCEPT !.listed = set.shots, !.todo = todo])
  /\ UNCHANGED <<set, mixed, calls>>

DeleteOne(r) ==
  LET id == Head(run[r].todo).id IN
  /\ run[r].pc = "delete" /\ run[r].todo # <<>>
  /\ \/ /\ id \in Ids(set.shots)
        /\ set' = [set EXCEPT !.shots = Without(@, id)]
        /\ To(r, [run[r] EXCEPT !.todo = Tail(@), !.listed = Without(@, id)]) \/ To(r, Idle)
     \/ To(r, Idle) /\ UNCHANGED set
  /\ UNCHANGED <<mixed, calls>>

\* remaining: counted from the list, not from the set.
Empties(r) == run[r].listed = <<>>
Prune(r) ==
  /\ run[r].pc = "delete" /\ run[r].todo = <<>>
  /\ \/ Empties(r) /\ run[r].prune /\ set' = NoSet
     \/ UNCHANGED set
  /\ To(r, Idle)
  /\ UNCHANGED <<mixed, calls>>

Dies(r) ==
  /\ run[r] # Idle /\ To(r, Idle)
  /\ UNCHANGED <<set, mixed, calls>>

Init ==
  /\ \E n \in 0..MAX_SCREENSHOT_FILES :
       set = [there |-> TRUE, shots |-> [i \in 1..n |-> [id |-> MaxCalls + i, name |-> 0]]]
  /\ run = [r \in Runs |-> Idle] /\ mixed = FALSE /\ calls = 0

Next == \E r \in Runs :
  \/ \E n \in Names :
       \/ upload_version_screenshot(r, n, "name", 0)
       \/ \E at \in 1..MAX_SCREENSHOT_FILES + 1 : upload_version_screenshot(r, n, "position", at)
  \/ \E by \in Selectors, at \in 1..MAX_SCREENSHOT_FILES, prune \in BOOLEAN :
       \/ delete_version_screenshots(r, by, at, prune)
       \/ delete_cpp_screenshots(r, by, at, prune)
  \/ ListForUpload(r) \/ Replace(r) \/ Post(r) \/ Reorder(r) \/ Verify(r)
  \/ ListForDelete(r) \/ DeleteOne(r) \/ Prune(r) \/ Dies(r)

Spec == Init /\ [][Next]_vars

-----------------------------------------------------------------------------
\* An upload that runs alone leaves every other screenshot where it was, at
\* each of its steps, and has its own in the slot it was asked for.
OnlyTheSlot ==
  \A r \in Runs : run[r].pc \in {"post", "order", "verify"} /\ run[r].alone =>
    /\ Without(set.shots, run[r].id) = run[r].listed
    /\ run[r].pc = "verify" =>
         run[r].at \in DOMAIN set.shots /\ set.shots[run[r].at].id = run[r].id

\* Uploads by name that follow each other never double a name, wherever an
\* earlier one has failed.
NamesAreNotDoubled ==
  ~mixed => \A i, j \in DOMAIN set.shots :
    set.shots[i].name = set.shots[j].name /\ set.shots[i].name \in Names => i = j

\* A delete counts what remains from its list: while nothing else runs, that
\* is what is in the set.
CountIsTrue ==
  \A r \in Runs : run[r].pc = "delete" /\ run[r].alone => set.shots = run[r].listed

SlotIsExact == OnlyTheSlot /\ NamesAreNotDoubled /\ CountIsTrue
=============================================================================
