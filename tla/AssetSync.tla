------------------------------ MODULE AssetSync ------------------------------
(***************************************************************************)
(* Syncing an export directory into one screenshot or preview set          *)
(* (services/asc/asset_sync.py, run_asset_sync in mcp/tools/screenshots.py *)
(* with the bind of a main listing or, in mcp/tools/cpp.py, of a Custom    *)
(* Product Page).  A sync is one call with apply=True for one locale and   *)
(* set type; the rows of a larger export are applied one after the other   *)
(* in the same way.  App Store Connect is the environment: a write it      *)
(* answers with an error may have landed, and it works on an uploaded      *)
(* asset in its own time.  Syncs are the only writers of the set: the      *)
(* tools that upload or delete one asset are left out.                     *)
(***************************************************************************)
EXTENDS Naturals, Sequences, FiniteSets

CONSTANTS
  Sync,       \* the calls
  Id,         \* asset ids
  File,       \* contents of exported files
  Look,       \* the name and size of each file, all there is without a checksum
  MaxFiles,   \* Apple's cap on a set
  Exports,    \* what an export directory may hold for the set
  Pages       \* what the set may show before the first sync

ASSUME ExportsAssumption ==
  \A e \in Exports : e \in Seq(File) /\ Len(e) \in 1..MaxFiles
ASSUME PagesAssumption == \A p \in Pages : p \in Seq(File) /\ Len(p) <= MaxFiles
ASSUME MaxFilesAssumption == MaxFiles \in Nat
ASSUME IdAssumption == IsFiniteSet(Id) => Cardinality(Id) >= MaxFiles

VARIABLES
  localized,     \* whether the page has the localization of the locale
  assets,        \* the assets of the set, in set order
  applying,      \* whether the page's key is in _APPLYING
  pc,
  localization,  \* what the step has for a localization id
  export,        \* the files of the step
  existing,      \* the assets it was planned from
  slot,          \* the index the step is at
  order,         \* the ids in the slots before it
  again,         \* whether this is the second attempt
  failed         \* step.failed

pageVars == <<localized, assets>>
stepVars == <<localization, export, existing, slot, order, again, failed>>
vars == <<localized, assets, applying, pc,
          localization, export, existing, slot, order, again, failed>>

State == {"awaiting", "withheld", "shown", "failed"}
Asset == [id : Id, file : File, state : State]

Applies == {"scan", "slot", "upload", "replan", "read_back"}
Ends == {"done", "refused", "aborted"}

TypeOK ==
  /\ localized \in BOOLEAN
  /\ assets \in Seq(Asset)
  /\ applying \in BOOLEAN
  /\ pc \in [Sync -> {"idle", "bound"} \cup Applies \cup Ends]
  /\ localization \in [Sync -> {"missing", "known", "made"}]
  /\ export \in [Sync -> Seq(File)]
  /\ existing \in [Sync -> Seq(Asset)]
  /\ slot \in [Sync -> Nat \ {0}]
  /\ order \in [Sync -> Seq(Id)]
  /\ again \in [Sync -> BOOLEAN]
  /\ failed \in [Sync -> BOOLEAN]

Ids(seq) == {seq[i].id : i \in DOMAIN seq}
Names(ids) == {ids[i] : i \in DOMAIN ids}

\* A page that shows one of Pages, or has no localization and so no set.
Init ==
  /\ \/ localized = FALSE /\ assets = <<>>
     \/ /\ localized = TRUE
        /\ \E p \in Pages, ids \in [1..MaxFiles -> Id] :
             /\ ids = [i \in 1..MaxFiles |-> CHOOSE id \in Id :
                         id \notin {ids[j] : j \in 1..(i - 1)}]
             /\ assets = [i \in DOMAIN p |->
                           [id |-> ids[i], file |-> p[i], state |-> "shown"]]
  /\ applying = FALSE
  /\ pc = [s \in Sync |-> "idle"]
  /\ localization = [s \in Sync |-> "missing"]
  /\ export = [s \in Sync |-> <<>>]
  /\ existing = [s \in Sync |-> <<>>]
  /\ slot = [s \in Sync |-> 1]
  /\ order = [s \in Sync |-> <<>>]
  /\ again = [s \in Sync |-> FALSE]
  /\ failed = [s \in Sync |-> FALSE]

Goto(s, label) == pc' = [pc EXCEPT ![s] = label]

\* The target's localizations are read before the lock is asked for.
Bind(s) ==
  /\ pc[s] = "idle"
  /\ localization' = [localization EXCEPT ![s] =
                        IF localized THEN "known" ELSE "missing"]
  /\ Goto(s, "bound")
  /\ UNCHANGED <<pageVars, applying, export, existing, slot, order, again, failed>>

\* _one_apply_per_page refuses a second apply instead of letting it wait.
Lock(s) ==
  /\ pc[s] = "bound"
  /\ IF applying THEN Goto(s, "refused") /\ UNCHANGED applying
                 ELSE Goto(s, "scan") /\ applying' = TRUE
  /\ UNCHANGED <<pageVars, stepVars>>

\* The call ends and its steps are gone.
End(s, how) ==
  /\ Goto(s, how)
  /\ export' = [export EXCEPT ![s] = <<>>]
  /\ existing' = [existing EXCEPT ![s] = <<>>]
  /\ slot' = [slot EXCEPT ![s] = 1]
  /\ order' = [order EXCEPT ![s] = <<>>]
  /\ UNCHANGED <<pageVars, localization, again, failed>>

Release_KeepsKey(s, how) == End(s, how) /\ applying' = (how = "aborted")
\* The finally of _one_apply_per_page.
Release(s, how) == End(s, how) /\ applying' = FALSE

Matches_ByLook(a, f) == a.state \in {"withheld", "shown"} /\ Look[a.file] = Look[f]
\* _slot_matches.  The checksum decides, and while Apple withholds it the name
\* and size do.
Matches(a, f) ==
  \/ a.state = "shown" /\ a.file = f
  \/ a.state = "withheld" /\ Look[a.file] = Look[f]

InPlace(seq, files) ==
  /\ Len(seq) = Len(files)
  /\ \A i \in DOMAIN files : Matches(seq[i], files[i])

\* plan_sync lists nothing for a step without a localization id.
Listed(s) == IF localization[s] = "missing" THEN <<>> ELSE assets

\* From the listing on: a step whose files are in place is skipped.
Planned(s, files) ==
  /\ existing' = [existing EXCEPT ![s] = Listed(s)]
  /\ Goto(s, IF InPlace(Listed(s), files) THEN "read_back" ELSE "slot")

\* _scan_locale groups the directory's files into a step.
Scanned(s) ==
  /\ \E files \in Exports :
       export' = [export EXCEPT ![s] = files] /\ Planned(s, files)
  /\ UNCHANGED <<pageVars, applying, localization, slot, order, again, failed>>

\* scan_export_dir finds an error row (a file of an unknown size, a locale that
\* may not be created, too many files), and nothing at all is written.
ErrorRow(s) == Release(s, "refused")

\* Scan and first plan.
Scan(s) == pc[s] = "scan" /\ (Scanned(s) \/ ErrorRow(s))

Failed_Forever(s) ==
  /\ again' = [again EXCEPT ![s] = TRUE]
  /\ Goto(s, "replan")
  /\ UNCHANGED failed

\* _apply_or_record: the first failure plans the step again, the second one is
\* recorded on it.
Failed(s) ==
  IF again[s]
  THEN /\ failed' = [failed EXCEPT ![s] = TRUE]
       /\ Goto(s, "read_back")
       /\ UNCHANGED again
  ELSE /\ again' = [again EXCEPT ![s] = TRUE]
       /\ Goto(s, "replan")
       /\ UNCHANGED failed

Replan_OldPlan(s) ==
  /\ pc[s] = "replan"
  /\ Goto(s, "slot")
  /\ UNCHANGED <<pageVars, applying, stepVars>>

Replan(s) ==
  /\ pc[s] = "replan"
  /\ \/ /\ Planned(s, export[s])
        /\ slot' = [slot EXCEPT ![s] = 1]
        /\ order' = [order EXCEPT ![s] = <<>>]
        /\ UNCHANGED failed
     \/ /\ failed' = [failed EXCEPT ![s] = TRUE]
        /\ existing' = [existing EXCEPT ![s] = <<>>]
        /\ Goto(s, "read_back")
        /\ UNCHANGED <<slot, order>>
  /\ UNCHANGED <<pageVars, applying, localization, export, again>>

Advance(s, id) ==
  /\ slot' = [slot EXCEPT ![s] = @ + 1]
  /\ order' = [order EXCEPT ![s] = Append(@, id)]

\* apply_sync_step, slot by slot.
InSlot(s) == slot[s] <= Len(existing[s])
Wanted(s) == slot[s] <= Len(export[s])
Keeps(s) ==
  InSlot(s) /\ Wanted(s) /\ Matches(existing[s][slot[s]], export[s][slot[s]])

Keep(s) ==
  /\ pc[s] = "slot"
  /\ Keeps(s)
  /\ Advance(s, existing[s][slot[s]].id)
  /\ UNCHANGED <<pageVars, applying, pc, localization, export, existing, again,
                 failed>>

At(id) == CHOOSE i \in DOMAIN assets : assets[i].id = id
Without(id) ==
  IF id \in Ids(assets)
  THEN SubSeq(assets, 1, At(id) - 1) \o SubSeq(assets, At(id) + 1, Len(assets))
  ELSE assets

\* The asset to be replaced, or one beyond the files.  Apple answers 404 for an
\* asset that is gone.
Delete(s) ==
  /\ pc[s] = "slot"
  /\ InSlot(s) /\ ~Keeps(s)
  /\ LET id == existing[s][slot[s]].id IN
       \/ /\ id \in Ids(assets)
          /\ assets' = Without(id)
          /\ IF Wanted(s) THEN Goto(s, "upload") /\ UNCHANGED slot
                          ELSE slot' = [slot EXCEPT ![s] = @ + 1] /\ UNCHANGED pc
          /\ UNCHANGED <<again, failed>>
       \/ /\ assets' \in {assets, Without(id)}
          /\ Failed(s)
          /\ UNCHANGED slot
  /\ UNCHANGED <<localized, applying, localization, export, existing, order>>

Used == Ids(assets) \cup UNION {Ids(existing[s]) \cup Names(order[s]) : s \in Sync}
NewId == CHOOSE id \in Id : id \notin Used

\* An asset after the last one of the set, as far as its upload got.
With(s, state) ==
  Append(assets, [id |-> NewId, file |-> export[s][slot[s]], state |-> state])

\* The slot is empty: its asset has been deleted or there was none.
Ready(s) == pc[s] = "upload" \/ (pc[s] = "slot" /\ Wanted(s) /\ ~InSlot(s))

\* ensure_localization where the step has none.  The set, which
\* find_or_create_asset_set makes empty, is one with its assets.
Localize(s) ==
  /\ localized' = TRUE
  /\ localization' = [localization EXCEPT ![s] =
                        IF @ = "missing" THEN "made" ELSE @]

\* Find or create the localization and the set, then reserve, send the bytes
\* and commit (upload_asset).  A full set takes no reservation.
Upload(s) ==
  /\ Ready(s)
  /\ Used # Id
  /\ \/ /\ Localize(s)
        /\ Len(assets) < MaxFiles
        /\ assets' = With(s, "withheld")
        /\ Advance(s, NewId)
        /\ Goto(s, "slot")
        /\ UNCHANGED <<again, failed>>
     \/ /\ Localize(s)
        /\ \/ UNCHANGED assets
           \/ /\ Len(assets) < MaxFiles
              /\ assets' \in {With(s, "awaiting"), With(s, "withheld")}
        /\ Failed(s)
        /\ UNCHANGED <<slot, order>>
     \/ /\ localization[s] = "missing"
        /\ localized' \in {localized, TRUE}
        /\ Failed(s)
        /\ UNCHANGED <<assets, localization, slot, order>>
  /\ UNCHANGED <<applying, export, existing>>

\* The named assets first and the others after them, in an order of Apple's.
Ordered(ids) ==
  {seq \in [DOMAIN assets -> {assets[i] : i \in DOMAIN assets}] :
     /\ \A i \in DOMAIN ids : i \in DOMAIN seq /\ seq[i].id = ids[i]
     /\ \A i, j \in DOMAIN seq : seq[i].id = seq[j].id => i = j}

\* Apple may also refuse a list that leaves some out.
Reorder(s) ==
  /\ pc[s] = "slot"
  /\ ~InSlot(s) /\ ~Wanted(s)
  /\ \/ /\ Names(order[s]) \subseteq Ids(assets)
        /\ assets' \in Ordered(order[s])
        /\ Goto(s, "read_back")
        /\ UNCHANGED <<again, failed>>
     \/ /\ \/ UNCHANGED assets
           \/ Names(order[s]) \subseteq Ids(assets) /\ assets' \in Ordered(order[s])
        /\ Failed(s)
  /\ UNCHANGED <<localized, applying, localization, export, existing, slot, order>>

ReadBack(s) == pc[s] = "read_back" /\ Release(s, "done")

\* ExportChangedError, a listing nobody guards, a cancelled call: the with
\* blocks are left.
Abort(s) ==
  \/ pc[s] = "bound" /\ End(s, "aborted") /\ UNCHANGED applying
  \/ pc[s] \in Applies /\ Release(s, "aborted")

\* Apple is done with an upload and publishes its checksum, or refuses it.
Process ==
  /\ \E i \in DOMAIN assets, state \in {"shown", "failed"} :
       /\ assets[i].state = "withheld"
       /\ assets' = [assets EXCEPT ![i].state = state]
  /\ UNCHANGED <<localized, applying, pc, stepVars>>

Apply(s) ==
  \/ Lock(s) \/ Scan(s) \/ Replan(s) \/ Keep(s) \/ Delete(s) \/ Upload(s)
  \/ Reorder(s) \/ ReadBack(s)

Next == Process \/ \E s \in Sync : Bind(s) \/ Apply(s) \/ Abort(s)

Spec == Init /\ [][Next]_vars

\* Every call to Apple returns or raises, so a sync goes on once it has begun.
FairSpec == Spec /\ \A s \in Sync : WF_vars(Apply(s))

-----------------------------------------------------------------------------
(* Properties *)

\* Whether the listing of localizations that a sync began with still held when
\* it had the lock.  One that found none may have waited while another sync
\* made it.
Fresh(s) ==
  localization[s] = "known"
    \/ \A q \in Sync \ {s} : pc[q] \in {"idle", "bound", "refused"}

\* A sync without a failed row leaves exactly the export, in its order, through
\* failed and half-landed writes of its own and of earlier syncs.  The one
\* exception is a slot that was still processing a file of the same name and
\* size.
CleanSyncShowsExport ==
  \A s \in Sync : pc[s] = "read_back" /\ ~failed[s] /\ Fresh(s) =>
    /\ Len(assets) = Len(export[s])
    /\ \A i \in DOMAIN assets :
         \/ assets[i].file = export[s][i]
         \/ /\ i \in DOMAIN existing[s]
            /\ existing[s][i].id = assets[i].id
            /\ existing[s][i].state = "withheld"
            /\ Look[assets[i].file] = Look[export[s][i]]

\* A step works through the set that is there: what it has placed and what it
\* planned for and has not come to yet are all the assets there are.
NothingUnplanned ==
  \A s \in Sync : pc[s] \in {"slot", "upload"} /\ Fresh(s) =>
    Ids(assets) = Names(order[s]) \cup
      {existing[s][i].id : i \in {j \in DOMAIN existing[s] :
                                   j > slot[s] \/ (j = slot[s] /\ pc[s] = "slot")}}

\* At most one sync applies to the page, and the key is held exactly while one
\* does: no sync is refused for a lock nobody will give back.
LockHasOneHolder ==
  /\ applying <=> \E s \in Sync : pc[s] \in Applies
  /\ \A s, q \in Sync : pc[s] \in Applies /\ pc[q] \in Applies => s = q

\* A sync that has begun ends: failures are tried again once, not for ever.
EverySyncEnds == \A s \in Sync : pc[s] = "bound" ~> pc[s] \in Ends
=============================================================================
