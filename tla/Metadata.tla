------------------------------ MODULE Metadata ------------------------------
(***************************************************************************)
(* The store-page texts of one app: what App Store Connect holds, the      *)
(* mirror of it in the database, and the requests that change both.  A     *)
(* snapshot sync reads Apple call by call and then replaces the mirror;    *)
(* a request for one locale, and a bulk apply over many, write to Apple    *)
(* first and commit the same change to the mirror afterwards.              *)
(*                                                                         *)
(* A text is a value that fits its field; the others are refused before    *)
(* any of this begins.  A localization is known by the id Apple gave it.   *)
(* The MCP tools make the same checks in the same order as the REST        *)
(* routes, and the definitions named metadata_... are the tools.  One      *)
(* request of each of the three sorts is in progress at a time, and MaxOps *)
(* bounds their number.                                                    *)
(***************************************************************************)
EXTENDS Naturals, Sequences, Functions, SequencesExt

CONSTANTS
  Locales,     \* the locales of the app
  Values,      \* texts of a field
  BulkFields,  \* the fields a bulk apply is tried with
  MaxOps       \* bound on the number of requests

VARIABLES
  apple,     \* [state, locs]: the version's state, and Apple's localizations
  rows,      \* AppMetadataLocalization: kind -> locale -> [id, vals]
  mstate,    \* AppMetadataState, or Unsynced before the first sync
  sync,      \* the snapshot sync in progress, or Idle
  single,    \* the one-locale request whose Apple call has been answered, or Idle
  bulk,      \* the bulk apply in progress, or Idle
  had,       \* history: every <<kind, locale, field, value>> Apple ever accepted
  drift,     \* history: a fault or an overlap since the last undisturbed sync
  ops        \* requests so far, and the next localization id

vars == <<apple, rows, mstate, sync, single, bulk, had, drift, ops>>

None == "none"
Idle == [pc |-> "idle"]
Unsynced == [state |-> "unsynced", editable |-> {}]
Kinds == {"app_info", "version"}
FieldsOf(kind) == IF kind = "app_info" THEN {"name"}
                  ELSE {"description", "promotional_text"}
KindOf(field) == CHOOSE kind \in Kinds : field \in FieldsOf(kind)

\* The fields a version in this state lets one write (sync_app, Step C).
VersionFields(state) ==
  CASE state = "editable" -> FieldsOf("version")
    [] state = "live"     -> {"promotional_text"}
    [] OTHER              -> {}
EditableFields(state) == FieldsOf("app_info") \cup VersionFields(state)

\* A version in review is neither editable nor live: sync finds none.
HasParent(kind, state) == kind = "app_info" \/ state \in {"editable", "live"}

Blank(kind) == [f \in FieldsOf(kind) |-> None]
With(vals, changes) == [f \in DOMAIN vals |-> IF f \in DOMAIN changes THEN changes[f] ELSE vals[f]]
Put(map, loc, x) == [l \in DOMAIN map \cup {loc} |-> IF l = loc THEN x ELSE map[l]]
Drop(map, loc) == [l \in DOMAIN map \ {loc} |-> map[l]]
Texts(kind, loc, vals) == {<<kind, loc, f, vals[f]>> : f \in DOMAIN vals}

-----------------------------------------------------------------------------
(* Apple's side of a call: what it accepts, and what it then holds.        *)

Open(kind, changes) == DOMAIN changes \subseteq EditableFields(apple.state)
Knows(kind, loc, id) == loc \in DOMAIN apple.locs[kind] /\ apple.locs[kind][loc].id = id

NewId == <<ops, IF bulk = Idle THEN 0 ELSE 1 + Len(bulk.status), single.pc>>
Post(kind, loc, changes) ==
  /\ loc \notin DOMAIN apple.locs[kind] /\ Open(kind, changes)
  /\ LET new == [id |-> NewId, vals |-> With(Blank(kind), changes)]
     IN  /\ apple' = [apple EXCEPT !.locs[kind] = Put(@, loc, new)]
         /\ had' = had \cup Texts(kind, loc, new.vals)

Patch(kind, loc, id, changes) ==
  /\ Knows(kind, loc, id) /\ Open(kind, changes)
  /\ apple' = [apple EXCEPT !.locs[kind][loc].vals = With(@, changes)]
  /\ had' = had \cup Texts(kind, loc, changes)

\* _guard_version_localization_update: refused before anything is sent.
VersionGuard(kind, changes) ==
  \/ kind = "app_info" \/ mstate.state \in {None, "unsynced"}
  \/ DOMAIN changes \subseteq VersionFields(mstate.state)

\* assert_fields_editable: nothing is editable before the first sync.
AssertEditable(fields) ==
  fields \subseteq mstate.editable

Same == UNCHANGED <<apple, had>>
Busy == sync # Idle \/ single # Idle \/ bulk # Idle
Begin == ops < MaxOps /\ ops' = ops + 1

-----------------------------------------------------------------------------
(* sync_app.  The request that made a locale runs it before it answers.    *)

StartSync ==
  /\ sync = Idle /\ Begin
  /\ sync' = [pc |-> "infos", alone |-> ~Busy]
  /\ drift' = (drift \/ Busy)
  /\ UNCHANGED <<apple, rows, mstate, single, bulk, had>>

metadata_sync == StartSync

ReadAppInfos ==
  /\ sync.pc = "infos"
  /\ sync' = [pc |-> "versions", alone |-> sync.alone, info |-> apple.locs["app_info"],
              state |-> None, version |-> <<>>]
  /\ UNCHANGED <<apple, rows, mstate, single, bulk, had, drift, ops>>

\* A version that can be edited is looked for first, then one that is live.
ReadVersions ==
  /\ sync.pc \in {"versions", "live"}
  /\ LET listed == IF sync.pc = "versions" THEN "editable" ELSE "live"
         missed == IF sync.pc = "versions" THEN "live" ELSE "write"
     IN  sync' = IF apple.state = listed THEN [sync EXCEPT !.pc = "texts", !.state = listed]
                 ELSE [sync EXCEPT !.pc = missed]
  /\ UNCHANGED <<apple, rows, mstate, single, bulk, had, drift, ops>>

\* By then the version may be in another state.
ReadVersionTexts ==
  /\ sync.pc = "texts"
  /\ sync' = [sync EXCEPT !.pc = "write", !.version = apple.locs["version"]]
  /\ UNCHANGED <<apple, rows, mstate, single, bulk, had, drift, ops>>

Upsert_KeepsStale(old, listed) ==
  [l \in DOMAIN old \cup DOMAIN listed |-> IF l \in DOMAIN listed THEN listed[l] ELSE old[l]]
\* _upsert_localizations: the rows become the list, stale locales are deleted.
Upsert(old, listed) == listed

\* The rows of a kind without a parent are left as they were.
WriteSnapshot ==
  /\ sync.pc = "write"
  /\ rows' = [app_info |-> Upsert(rows["app_info"], sync.info),
              version |-> IF sync.state = None THEN rows["version"]
                          ELSE Upsert(rows["version"], sync.version)]
  /\ mstate' = [state |-> sync.state, editable |-> EditableFields(sync.state)]
  /\ drift' = (drift /\ ~(sync.alone /\ sync.state # None))
  /\ sync' = Idle
  /\ UNCHANGED <<apple, single, bulk, had, ops>>

\* A read fails: the request ends with nothing written.
SyncFails ==
  /\ sync.pc \in {"infos", "versions", "live", "texts"}
  /\ sync' = Idle
  /\ drift' = TRUE
  /\ UNCHANGED <<apple, rows, mstate, single, bulk, had, ops>>

-----------------------------------------------------------------------------
(* One locale.  Apple is called; the mirror is committed in a later step.  *)

StartOne ==
  /\ single = Idle /\ Begin
  /\ sync' = IF sync = Idle THEN sync ELSE [sync EXCEPT !.alone = FALSE]
  /\ drift' = (drift \/ Busy)

CreateLocale(kind, loc, changes) ==
  /\ sync = Idle /\ single = Idle /\ Begin
  /\ mstate # Unsynced /\ HasParent(kind, mstate.state)
  /\ AssertEditable(DOMAIN changes \cap FieldsOf(kind))
  /\ Post(kind, loc, changes)
  /\ sync' = [pc |-> "infos", alone |-> ~Busy]
  /\ drift' = (drift \/ Busy)
  /\ UNCHANGED <<rows, mstate, single, bulk>>

metadata_create_locale(kind, loc, changes) == CreateLocale(kind, loc, changes)

\* Only the fields that were set are written back.
UpdateLocale(kind, loc, changes) ==
  /\ StartOne
  /\ loc \in DOMAIN rows[kind]
  /\ AssertEditable(DOMAIN changes)
  /\ VersionGuard(kind, changes)
  /\ Patch(kind, loc, rows[kind][loc].id, changes)
  /\ single' = [pc |-> "update", kind |-> kind, loc |-> loc, changes |-> changes,
                read |-> rows[kind][loc]]
  /\ UNCHANGED <<rows, mstate, bulk>>

metadata_update_locale(kind, loc, changes) == UpdateLocale(kind, loc, changes)

\* No guard: whatever the state of the version, Apple decides.
DeleteLocale(kind, loc) ==
  /\ StartOne
  /\ loc \in DOMAIN rows[kind]
  /\ Knows(kind, loc, rows[kind][loc].id)
  /\ apple' = [apple EXCEPT !.locs[kind] = Drop(@, loc)]
  /\ single' = [pc |-> "delete", kind |-> kind, loc |-> loc,
                read |-> rows[kind][loc]]
  /\ UNCHANGED <<rows, mstate, bulk, had>>

metadata_delete_locale(kind, loc) == DeleteLocale(kind, loc)

\* The session writes what differs from what it loaded; the row may have been
\* deleted by a sync since, and then the commit fails.
Mirrored(kind, loc, read, changes) ==
  IF loc \notin DOMAIN rows[kind] THEN rows
  ELSE [rows EXCEPT ![kind][loc].vals =
          With(@, Restrict(changes, {f \in DOMAIN changes : changes[f] # read.vals[f]}))]

Gone(kind, loc) == Drop(rows[kind], loc)

CommitOne ==
  /\ single # Idle
  /\ rows' = IF single.pc = "update"
             THEN Mirrored(single.kind, single.loc, single.read, single.changes)
             ELSE [rows EXCEPT ![single.kind] = Gone(single.kind, single.loc)]
  /\ single' = Idle
  /\ UNCHANGED <<apple, mstate, sync, bulk, had, drift, ops>>

-----------------------------------------------------------------------------
(* BulkMetadataService.apply                                               *)

\* _build_items.  The order of the checks decides which skip is soft; a text
\* over its limit is not here, _validate_inputs has refused the whole request.
Item(field, value, loc, create) ==
  LET kind == KindOf(field)
      row == loc \in DOMAIN rows[kind]
      current == IF row THEN rows[kind][loc].vals[field] ELSE None
  IN  [loc |-> loc, value |-> value,
       action |-> CASE current = value -> "unchanged"
                    [] mstate # Unsynced /\ field \notin mstate.editable -> "skip"
                    [] ~row /\ ~create -> "skip"
                    [] ~row -> "create"
                    [] OTHER -> "update"]
\* apply: the plan, the rows and the state are read before the first write.
\* A field that is not editable skips every locale at once.
StartBulk(field, values, targets, force, create) ==
  LET kind == KindOf(field)
      plan == [i \in DOMAIN targets |-> Item(field, values[targets[i]], targets[i], create)]
  IN  /\ bulk = Idle /\ Begin
      /\ drift' = (drift \/ Busy)
      /\ sync' = IF sync = Idle THEN sync ELSE [sync EXCEPT !.alone = FALSE]
      /\ bulk' = [pc |-> "loop", field |-> field, force |-> force,
                  plan |-> IF AssertEditable({field}) THEN plan
                           ELSE [i \in DOMAIN plan |-> [plan[i] EXCEPT !.action = "skip"]],
                  parent |-> mstate # Unsynced /\ HasParent(kind, mstate.state),
                  existing |-> rows[kind], status |-> <<>>, accepted |-> {}, id |-> <<0>>]
      /\ UNCHANGED <<apple, rows, mstate, single, had>>

metadata_bulk_apply(field, values, targets, force, create) ==
  StartBulk(field, values, targets, force, create)

Todo == bulk.plan[1]
Kind == KindOf(bulk.field)
Change == [f \in {bulk.field} |-> Todo.value]
HasRow == Todo.loc \in DOMAIN bulk.existing
Advance(status, b) ==
  [b EXCEPT !.plan = Tail(@), !.status = Append(@, [loc |-> Todo.loc, status |-> status])]

\* force lifts the soft skip only.
Skips ==
  \/ Todo.action = "skip"
  \/ Todo.action = "unchanged" /\ ~bulk.force
  \/ ~HasRow /\ Todo.action # "create"
  \/ ~HasRow /\ ~bulk.parent
BulkSkips ==
  /\ bulk.pc = "loop" /\ bulk.plan # <<>> /\ Skips
  /\ bulk' = Advance("skipped", bulk)
  /\ Same
  /\ UNCHANGED <<rows, mstate, sync, single, drift, ops>>

Write ==
  IF HasRow THEN Patch(Kind, Todo.loc, bulk.existing[Todo.loc].id, Change)
            ELSE Post(Kind, Todo.loc, Change)

\* Accepted, and answered: the mirror is still to be committed.
BulkWrites ==
  /\ bulk.pc = "loop" /\ bulk.plan # <<>> /\ ~Skips
  /\ Write
  /\ bulk' = [bulk EXCEPT !.pc = IF HasRow THEN "update" ELSE "insert",
                          !.accepted = @ \cup {Todo.loc}, !.id = NewId]
  /\ UNCHANGED <<rows, mstate, sync, single, drift, ops>>

\* The answer is lost, or comes without an id: nothing is mirrored.
Unanswered_Skipped == "skipped"
Unanswered == "failed"
BulkLosesAnswer ==
  /\ bulk.pc = "loop" /\ bulk.plan # <<>> /\ ~Skips
  /\ Write
  /\ bulk' = Advance(Unanswered, [bulk EXCEPT !.accepted = @ \cup {Todo.loc}])
  /\ drift' = TRUE
  /\ UNCHANGED <<rows, mstate, sync, single, ops>>

\* Refused by the guard ("skipped") or by Apple ("failed").
BulkRefused ==
  /\ bulk.pc = "loop" /\ bulk.plan # <<>> /\ ~Skips
  /\ bulk' = Advance(IF HasRow /\ ~VersionGuard(Kind, Change) THEN "skipped" ELSE "failed", bulk)
  /\ Same
  /\ UNCHANGED <<rows, mstate, sync, single, drift, ops>>

\* One commit per locale.  A row a sync has deleted, or has inserted first,
\* makes the commit fail, and with it the rest of the request.
BulkCommits ==
  /\ bulk.pc \in {"update", "insert"}
  /\ LET loc == Todo.loc
         new == [id |-> bulk.id, vals |-> With(Blank(Kind), Change)]
         taken == loc \in DOMAIN rows[Kind]
     IN  IF (bulk.pc = "insert") = taken
         THEN bulk' = Idle /\ drift' = TRUE /\ UNCHANGED rows
         ELSE /\ rows' = IF bulk.pc = "insert" THEN [rows EXCEPT ![Kind] = Put(@, loc, new)]
                         ELSE Mirrored(Kind, loc, bulk.existing[loc], Change)
              /\ bulk' = Advance("applied", [bulk EXCEPT !.pc = "loop",
                           !.existing = Put(@, loc, rows'[Kind][loc])])
              /\ UNCHANGED drift
  /\ UNCHANGED <<apple, mstate, sync, single, had, ops>>

EndBulk ==
  /\ bulk.pc = "loop" /\ bulk.plan = <<>>
  /\ bulk' = Idle
  /\ UNCHANGED <<apple, rows, mstate, sync, single, had, drift, ops>>

-----------------------------------------------------------------------------
(* Everything else                                                         *)

\* The version goes to review, is rejected, or is released (unless nothing is
\* left that would look).
VersionMoves ==
  /\ Busy \/ ops < MaxOps
  /\ \/ apple.state = "editable" /\ apple' = [apple EXCEPT !.state = "review"]
     \/ apple.state = "review" /\ \E s \in {"editable", "live"} : apple' = [apple EXCEPT !.state = s]
  /\ UNCHANGED <<rows, mstate, sync, single, bulk, had, drift, ops>>

\* The process stops: what was not committed is gone.
Crash ==
  /\ Busy
  /\ sync' = Idle /\ single' = Idle /\ bulk' = Idle /\ drift' = TRUE
  /\ UNCHANGED <<apple, rows, mstate, had, ops>>

Init ==
  /\ \E en \in Locales, v \in Values :
       /\ apple = [state |-> "editable",
                   locs |-> [kind \in Kinds |->
                     [l \in {en} |-> [id |-> <<0>>, vals |-> [f \in FieldsOf(kind) |-> v]]]]]
       /\ had = UNION {Texts(kind, en, [f \in FieldsOf(kind) |-> v]) : kind \in Kinds}
  /\ \/ mstate = Unsynced /\ rows = [kind \in Kinds |-> <<>>] /\ drift = TRUE
     \/ /\ mstate = [state |-> "editable", editable |-> EditableFields("editable")]
        /\ rows = apple.locs /\ drift = FALSE
  /\ sync = Idle /\ single = Idle /\ bulk = Idle
  /\ ops = 0

Changes(kind) == {[f \in fs |-> v] : fs \in SUBSET FieldsOf(kind) \ {{}}, v \in Values}
Targets == Locales \X Locales

Next ==
  \/ StartSync \/ metadata_sync \/ ReadAppInfos \/ ReadVersions
  \/ ReadVersionTexts \/ WriteSnapshot \/ SyncFails
  \/ \E kind \in Kinds, loc \in Locales :
       \/ \E c \in Changes(kind) : CreateLocale(kind, loc, c) \/ UpdateLocale(kind, loc, c)
       \/ \E c \in Changes(kind) : metadata_create_locale(kind, loc, c)
       \/ \E c \in Changes(kind) : metadata_update_locale(kind, loc, c)
       \/ DeleteLocale(kind, loc) \/ metadata_delete_locale(kind, loc)
  \/ CommitOne
  \/ \E f \in BulkFields, vs \in [Locales -> Values], t \in Targets, force, create \in BOOLEAN :
       StartBulk(f, vs, t, force, create) \/ metadata_bulk_apply(f, vs, t, force, create)
  \/ BulkSkips \/ BulkWrites \/ BulkLosesAnswer \/ BulkRefused \/ BulkCommits \/ EndBulk
  \/ VersionMoves \/ Crash

Spec == Init /\ [][Next]_vars

-----------------------------------------------------------------------------
NeverAhead ==
  \A kind \in Kinds : \A loc \in DOMAIN rows[kind] :
    Texts(kind, loc, rows[kind][loc].vals) \subseteq had
Follows ==
  ~Busy /\ ~drift /\ mstate # Unsynced =>
    \A kind \in Kinds : HasParent(kind, mstate.state) => rows[kind] = apple.locs[kind]

\* The mirror never shows a text Apple did not accept for that locale and
\* field, whatever request failed, overlapped another or died half-way; and
\* requests that ran one after another and without a fault, since a sync that
\* ran alone, leave it exactly as Apple's page is.
MirrorIsTrue == NeverAhead /\ Follows

\* What a bulk apply reports: "applied" only for what Apple accepted, and
\* nothing sent to Apple for a locale whose every item says "skipped".
ReportsTheTruth ==
  bulk.pc = "loop" =>
    \A i \in DOMAIN bulk.status :
      LET s == bulk.status[i] IN
      /\ s.status = "applied" => s.loc \in bulk.accepted
      /\ s.status = "skipped" =>
           \/ s.loc \notin bulk.accepted
           \/ \E j \in DOMAIN bulk.status : bulk.status[j].loc = s.loc
                                             /\ bulk.status[j].status # "skipped"
=============================================================================
