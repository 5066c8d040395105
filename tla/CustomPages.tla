---------------------------- MODULE CustomPages ----------------------------
(***************************************************************************)
(* Custom product pages: a page made from an uploaded set of screenshots,  *)
(* the search keywords of a localization, its promotional text, and the    *)
(* deletion of a page.  Every step is one call to App Store Connect; other *)
(* requests, people and App Review move between two of them.  The routes   *)
(* and the tools run the same service; the definitions named cpp_... are   *)
(* the tools.                                                              *)
(***************************************************************************)
EXTENDS Naturals, Sequences, FiniteSets, Functions

CONSTANTS
  Runs,      \* requests that may overlap
  Keywords,  \* the keywords a page can be asked to hold
  Locales,   \* locales a page may be localized to; Seed is one of them
  Seed,      \* the locale a page is made with
  Files,     \* files of one from-upload, in order
  MaxCalls   \* bound on the requests

VARIABLES
  pages,   \* page -> [there, state, visible, locs, files, keywords]; history: asked,
           \* the files of the upload it was made from
  offered, \* the app's appKeywords for the locale
  run,     \* request -> its state
  excused, \* history: pages whose deletion failed, or whose request died
  calls

vars == <<pages, offered, run, excused, calls>>

Idle == [pc |-> "idle"]
Single == 0
To(r, rec) == run' = [run EXCEPT ![r] = rec]
Step(r, pc) == [run[r] EXCEPT !.pc = pc]
Begin == calls < MaxCalls /\ calls' = calls + 1
OpenToWrites(p) == pages[p].there /\ pages[p].state = "editable"
There == {p \in DOMAIN pages : pages[p].there}

-----------------------------------------------------------------------------
(* create_cpp, create_cpp_with_screenshots                                 *)

\* One compound POST: the page, its version and its seed localization.  The
\* answer can be lost, and then nothing knows the page to delete it.
CreatePage(r, files) ==
  /\ run[r] = Idle /\ Begin
  /\ pages' = Append(pages, [there |-> TRUE, state |-> "editable", visible |-> FALSE,
                             locs |-> {Seed}, files |-> {}, keywords |-> {}, asked |-> Range(files)])
  /\ \/ To(r, [pc |-> "visible", page |-> Len(pages) + 1, todo |-> files])
        /\ UNCHANGED excused
     \/ To(r, Idle) /\ excused' = excused \cup {Len(pages) + 1}
  /\ UNCHANGED offered

create_cpp(r) == CreatePage(r, <<>>)
cpp_create(r) == CreatePage(r, <<>>)

\* create_cpp_from_upload: no files, or only empty ones, never get this far.
create_cpp_from_upload(r) == Files # <<>> /\ CreatePage(r, Files)

\* Visibility is a second call, and a refusal does not fail the create.
SetVisible(r) ==
  LET p == run[r].page IN
  /\ run[r].pc = "visible"
  /\ \/ pages[p].there /\ pages' = [pages EXCEPT ![p].visible = TRUE]
     \/ UNCHANGED pages
  /\ To(r, IF run[r].todo = <<>> THEN Idle ELSE Step(r, "version"))
  /\ UNCHANGED <<offered, excused, calls>>

Fails_Leaves(r) == To(r, Idle)
Fails(r) == To(r, Step(r, "cleanup"))

\* get_editable_version_id, with no fallback to a version in review, and the seed
\* localization: any of these calls may fail.
ResolveVersion(r) ==
  /\ run[r].pc = "version"
  /\ \/ OpenToWrites(run[r].page) /\ To(r, Step(r, "upload"))
     \/ Fails(r)
  /\ UNCHANGED <<pages, offered, excused, calls>>

\* A file that fails may have landed.
UploadFile(r) ==
  LET p == run[r].page IN
  /\ run[r].pc = "upload"
  /\ \/ /\ run[r].todo # <<>> /\ pages[p].there
        /\ pages' = [pages EXCEPT ![p].files = @ \cup {Head(run[r].todo)}]
        /\ To(r, [run[r] EXCEPT !.todo = Tail(@)]) \/ Fails(r)
     \/ run[r].todo # <<>> /\ Fails(r) /\ UNCHANGED pages
     \/ run[r].todo = <<>> /\ To(r, Idle) /\ UNCHANGED pages
  /\ UNCHANGED <<offered, excused, calls>>

\* Best effort: the page is deleted before the error is passed on.
Cleanup(r) ==
  LET p == run[r].page IN
  /\ run[r].pc = "cleanup"
  /\ \/ pages' = [pages EXCEPT ![p].there = FALSE] /\ UNCHANGED excused
     \/ UNCHANGED pages /\ excused' = excused \cup {p}
  /\ To(r, Idle)
  /\ UNCHANGED <<offered, calls>>

Changes(p, page) ==
  /\ Begin /\ pages[p].there
  /\ pages' = [pages EXCEPT ![p] = page]
  /\ UNCHANGED <<offered, run, excused>>

cpp_delete(p) == Changes(p, [pages[p] EXCEPT !.there = FALSE])
cpp_update(p) == Changes(p, [pages[p] EXCEPT !.visible = ~@])

\* find_or_create_localization_id, on the editable version.
cpp_ensure_localization(p, l) ==
  OpenToWrites(p) /\ Changes(p, [pages[p] EXCEPT !.locs = @ \cup {l}])

\* One file into a localization; assert_localization_editable comes first.
cpp_upload_screenshot(p) ==
  OpenToWrites(p) /\ Changes(p, [pages[p] EXCEPT !.files = @ \cup {Single}])

-----------------------------------------------------------------------------
(* cpp_keywords_set                                                        *)

\* alone: no other request touches the keywords while this one runs.
Keying(r) == run[r].pc \in {"current", "offered", "link", "unlink", "back"}
cpp_keywords_set(r, p, wanted) ==
  /\ run[r] = Idle /\ Begin
  /\ OpenToWrites(p)
  /\ run' = [s \in Runs |->
       IF s = r THEN [pc |-> "current", page |-> p, wanted |-> wanted, old |-> {},
                      add |-> {}, remove |-> {}, alone |-> \A t \in Runs : ~Keying(t)]
       ELSE IF Keying(s) THEN [run[s] EXCEPT !.alone = FALSE] ELSE run[s]]
  /\ UNCHANGED <<pages, offered, excused>>

ReadCurrent(r) ==
  /\ run[r].pc = "current"
  /\ To(r, [Step(r, "offered") EXCEPT !.old = pages[run[r].page].keywords])
  /\ UNCHANGED <<pages, offered, excused, calls>>

\* plan_search_keywords: a keyword that is neither offered nor assigned is an
\* error row, and one error row stops the whole apply.
Plan_RemovesAll(wanted, old, known) ==
  [error |-> wanted \ (known \cup old), add |-> (wanted \cap known) \ old, remove |-> old]
Plan(wanted, old, known) ==
  [error |-> wanted \ (known \cup old), add |-> (wanted \cap known) \ old, remove |-> old \ wanted]

ReadOffered(r) ==
  LET plan == Plan(run[r].wanted, run[r].old, offered) IN
  /\ run[r].pc = "offered"
  /\ To(r, IF plan.error # {} THEN Idle
           ELSE [Step(r, "link") EXCEPT !.add = plan.add, !.remove = plan.remove])
  /\ UNCHANGED <<pages, offered, excused, calls>>

\* link_search_keywords: POST what is new, then DELETE what is not wanted.
Link(r) ==
  LET p == run[r].page IN
  /\ run[r].pc = "link"
  /\ IF OpenToWrites(p)
     THEN /\ pages' = [pages EXCEPT ![p].keywords = @ \cup run[r].add]
          /\ To(r, Step(r, "unlink")) \/ To(r, Idle)
     ELSE To(r, Idle) /\ UNCHANGED pages
  /\ UNCHANGED <<offered, excused, calls>>

Unlink(r) ==
  LET p == run[r].page IN
  /\ run[r].pc = "unlink"
  /\ IF OpenToWrites(p)
     THEN /\ pages' = [pages EXCEPT ![p].keywords = @ \ run[r].remove]
          /\ To(r, Step(r, "back")) \/ To(r, Idle)
     ELSE To(r, Idle) /\ UNCHANGED pages
  /\ UNCHANGED <<offered, excused, calls>>

ReadBack(r) ==
  /\ run[r].pc = "back" /\ To(r, Idle)
  /\ UNCHANGED <<pages, offered, excused, calls>>

-----------------------------------------------------------------------------
\* App Review, and the app's own keyword field; a request dies.  A page that
\* is rejected may be edited again.
Review ==
  /\ \E r \in Runs : run[r] # Idle
  /\ \E p \in There : pages' = [pages EXCEPT ![p].state =
                             IF @ = "editable" THEN "review" ELSE "editable"]
  /\ UNCHANGED <<offered, run, excused, calls>>

OfferChanges ==
  /\ \E r \in Runs : run[r].pc \in {"current", "offered"}
  /\ \E k \in Keywords : offered' = IF k \in offered THEN offered \ {k} ELSE offered \cup {k}
  /\ UNCHANGED <<pages, run, excused, calls>>

Dies(r) ==
  /\ run[r] # Idle /\ To(r, Idle)
  /\ excused' = IF Keying(r) THEN excused ELSE excused \cup {run[r].page}
  /\ UNCHANGED <<pages, offered, calls>>

Init ==
  /\ \E old \in SUBSET Keywords :
       pages = <<[there |-> TRUE, state |-> "editable", visible |-> TRUE, locs |-> {Seed},
                  files |-> {}, keywords |-> old, asked |-> {}]>>
  /\ offered \in SUBSET Keywords
  /\ run = [r \in Runs |-> Idle] /\ excused = {} /\ calls = 0

Next ==
  \/ \E r \in Runs :
       \/ create_cpp(r) \/ cpp_create(r) \/ create_cpp_from_upload(r)
       \/ SetVisible(r) \/ ResolveVersion(r) \/ UploadFile(r) \/ Cleanup(r)
       \/ \E p \in There, wanted \in SUBSET Keywords : cpp_keywords_set(r, p, wanted)
       \/ ReadCurrent(r) \/ ReadOffered(r) \/ Link(r) \/ Unlink(r) \/ ReadBack(r) \/ Dies(r)
  \/ \E p \in There :
       \/ cpp_delete(p) \/ cpp_update(p) \/ cpp_upload_screenshot(p)
       \/ \E l \in Locales : cpp_ensure_localization(p, l)
  \/ Review \/ OfferChanges

Spec == Init /\ [][Next]_vars

-----------------------------------------------------------------------------
\* A page that is there has every file of the upload it was made from, or a request
\* is still at it, its cleanup included; unless its deletion failed, its request died,
\* or nobody was told that it was made.
NoHalfPages ==
  \A p \in There :
    \/ pages[p].asked \subseteq pages[p].files
    \/ p \in excused
    \/ \E r \in Runs : run[r].pc \in {"visible", "version", "upload", "cleanup"} /\ run[r].page = p

\* A keyword set that runs alone never takes away a keyword that was there and
\* is still wanted, never leaves one that was neither, and has exactly the
\* wanted ones when it reads them back.
KeywordsBetween ==
  \A r \in Runs : run[r].pc \in {"link", "unlink", "back"} /\ run[r].alone =>
    LET now == pages[run[r].page].keywords IN
    /\ run[r].old \cap run[r].wanted \subseteq now
    /\ now \subseteq run[r].old \cup run[r].wanted
    /\ run[r].pc = "back" => now = run[r].wanted
=============================================================================
