---------------------------- MODULE Experiments ----------------------------
(***************************************************************************)
(* Product page experiments: the submit that sends one to App Review, and  *)
(* the upload that fills a treatment's localization.  Every step is one    *)
(* call to App Store Connect; calls of other requests, and of people in    *)
(* App Store Connect, come in between, and an answer can be lost after     *)
(* Apple has done what was asked.  The REST routes and the MCP tools run   *)
(* the same service behind the same membership checks; the definitions     *)
(* named experiment_... are the tools.  The treatment that is uploaded to  *)
(* belongs to an experiment nobody deletes.                                *)
(***************************************************************************)
EXTENDS Naturals, Sequences, FiniteSets

CONSTANTS
  Runs,           \* requests that may overlap
  Exps,           \* the app's experiments
  Files,          \* files of one from-upload, in order
  MAX_TREATMENTS,
  MaxSubs,        \* bound on the review submissions
  MaxCalls        \* bound on the requests

VARIABLES
  expState,    \* experiment -> its state at Apple
  treatments,  \* experiment -> number of treatments
  subs,        \* the app's review submissions: [open, items]
  loc,         \* the treatment's localization, or NoLoc: [maker, files]
  run,         \* request -> its state
  sent,        \* history: submission -> the experiment whose submit sent it
  late,        \* history: submissions added to after a submit had listed them
  refused,     \* history: Apple refused a step of a submit that ran alone
  orphan,      \* history: the cleanup of a failed upload failed, or died
  calls

vars == <<expState, treatments, subs, loc, run, sent, late, refused, orphan, calls>>

Other == "other"
Idle == [pc |-> "idle"]
NoLoc == [maker |-> 0, files |-> {}]
Submitting(r) == run[r].pc \in {"list", "items", "create", "add", "send"}
Uploading(r) == run[r].pc \in {"resolve", "make", "upload", "cleanup"}
Waiting(e) == expState[e] = "waiting"
Editable == {"prepare", "rejected"}
To(r, rec) == run' = [run EXCEPT ![r] = rec]
Step(r, pc) == [run[r] EXCEPT !.pc = pc]
Begin == calls < MaxCalls /\ calls' = calls + 1
Overlap(r) == \E s \in Runs \ {r} : Submitting(s)

\* _assert_member: a resource of another parent is refused.
Member(e) == expState[e] # "absent"

submitVars == <<expState, subs, sent, late, refused>>
uploadVars == <<loc, orphan>>

-----------------------------------------------------------------------------
(* submit_experiment_for_review                                            *)

Submit(r, e) ==
  /\ run[r] = Idle /\ Begin /\ Member(e)
  /\ run' = [s \in Runs |->
       IF s = r THEN [pc |-> "list", e |-> e, sub |-> 0,
                      alone |-> ~Overlap(r) /\ expState[e] \in Editable]
       ELSE IF Submitting(s) THEN [run[s] EXCEPT !.alone = FALSE] ELSE run[s]]
  /\ UNCHANGED <<submitVars, uploadVars, treatments>>

experiment_submit_for_review(r, e) == Submit(r, e)

Disturbed ==
  [s \in Runs |-> IF Submitting(s) THEN [run[s] EXCEPT !.alone = FALSE] ELSE run[s]]

Open == {i \in DOMAIN subs : subs[i].open}

\* _open_submission_for: at most one is open per app and platform.
ListOpen(r) ==
  /\ run[r].pc = "list"
  /\ IF Open = {} THEN To(r, Step(r, "create"))
     ELSE \E i \in Open : To(r, [Step(r, "items") EXCEPT !.sub = i])
  /\ UNCHANGED <<submitVars, uploadVars, treatments, calls>>

\* Anything else in it refuses the submit; only this experiment is a retry.
Others_NotAsked(items, e) == {}
Others(items, e) == items \ {e}
Holds(items, e) == e \in items
ListItems(r) ==
  /\ run[r].pc = "items"
  /\ LET items == subs[run[r].sub].items IN
     To(r, IF Others(items, run[r].e) # {} THEN Idle
           ELSE Step(r, IF Holds(items, run[r].e) THEN "send" ELSE "add"))
  /\ UNCHANGED <<submitVars, uploadVars, treatments, calls>>

\* Apple's side of a write: done and answered, done with the answer lost, or
\* refused.  Only the first goes on; a write that is refused changes nothing.
Written(r, next) == To(r, next) \/ To(r, Idle)
Refused(r) ==
  /\ To(r, Idle)
  /\ refused' = (refused \/ run[r].alone)
  /\ UNCHANGED <<expState, subs, sent, late>>

CreateSubmission(r) ==
  /\ run[r].pc = "create"
  /\ IF Open # {} THEN Refused(r)
     ELSE /\ Len(subs) < MaxSubs
          /\ subs' = Append(subs, [open |-> TRUE, items |-> {}])
          /\ Written(r, [Step(r, "add") EXCEPT !.sub = Len(subs) + 1])
          /\ UNCHANGED <<expState, sent, late, refused>>
  /\ UNCHANGED <<uploadVars, treatments, calls>>

Listed(i) == \E s \in Runs : run[s].pc \in {"add", "send"} /\ run[s].sub = i
ListedByOther(r, i) == \E s \in Runs \ {r} : run[s].pc \in {"add", "send"} /\ run[s].sub = i

AddItem(r) ==
  LET i == run[r].sub  e == run[r].e IN
  /\ run[r].pc = "add"
  /\ IF ~subs[i].open \/ e \in subs[i].items \/ expState[e] \notin Editable THEN Refused(r)
     ELSE /\ subs' = [subs EXCEPT ![i].items = @ \cup {e}]
          /\ late' = IF ListedByOther(r, i) THEN late \cup {i} ELSE late
          /\ Written(r, Step(r, "send"))
          /\ UNCHANGED <<expState, sent, refused>>
  /\ UNCHANGED <<uploadVars, treatments, calls>>

Send(r) ==
  LET i == run[r].sub IN
  /\ run[r].pc = "send"
  /\ IF ~subs[i].open THEN Refused(r)
     ELSE /\ subs' = [subs EXCEPT ![i].open = FALSE]
          /\ expState' = [e \in Exps |-> IF e \in subs[i].items THEN "waiting" ELSE expState[e]]
          /\ sent' = sent \cup {<<i, run[r].e>>}
          /\ To(r, Idle)
          /\ UNCHANGED <<late, refused>>
  /\ UNCHANGED <<uploadVars, treatments, calls>>

\* A call fails before Apple sees it, or the process dies.
SubmitDies(r) ==
  /\ Submitting(r) /\ To(r, Idle)
  /\ UNCHANGED <<submitVars, uploadVars, treatments, calls>>

\* Somebody adds to the open submission in App Store Connect.
PersonAdds ==
  /\ \E i \in Open : /\ subs' = [subs EXCEPT ![i].items = @ \cup {Other}]
                     /\ late' = IF Listed(i) THEN late \cup {i} ELSE late
  /\ run' = Disturbed
  /\ UNCHANGED <<expState, sent, refused, uploadVars, treatments, calls>>

-----------------------------------------------------------------------------
(* The life of an experiment and of its treatments                         *)

Review == \E e \in Exps, s \in {"approved", "rejected"} :
  /\ Waiting(e) /\ expState' = [expState EXCEPT ![e] = s]
  /\ UNCHANGED <<subs, sent, late, refused, uploadVars, treatments, run, calls>>

Becomes(e, state) ==
  /\ expState' = [expState EXCEPT ![e] = state]
  /\ run' = Disturbed
  /\ UNCHANGED <<subs, sent, late, refused, uploadVars, treatments, calls>>

\* Apple keeps one draft per app.
CreateExperiment(e) ==
  /\ expState[e] = "absent" /\ \A x \in Exps : expState[x] # "prepare"
  /\ Becomes(e, "prepare")
experiment_create(e) == CreateExperiment(e)

\* Only before it starts, and not while it is in review or about to go there.
DeleteExperiment(e) ==
  /\ expState[e] \in Editable /\ \A i \in Open : e \notin subs[i].items
  /\ Becomes(e, "absent")
experiment_delete(e) == DeleteExperiment(e)

\* Routes stop through update_experiment; starting is the tool's alone.
UpdateExperiment(e) == expState[e] = "running" /\ Becomes(e, "stopped")
experiment_stop(e) == UpdateExperiment(e)
experiment_start(e) == expState[e] = "approved" /\ Becomes(e, "running")

CreateTreatment(e) ==
  /\ treatments[e] < MAX_TREATMENTS /\ expState[e] \in Editable
  /\ treatments' = [treatments EXCEPT ![e] = @ + 1]
  /\ UNCHANGED <<submitVars, uploadVars, run, calls>>

experiment_create_treatment(e) == CreateTreatment(e)

DeleteTreatment(e) ==
  /\ treatments[e] > 0 /\ expState[e] \in Editable
  /\ treatments' = [treatments EXCEPT ![e] = @ - 1]
  /\ UNCHANGED <<submitVars, uploadVars, run, calls>>
experiment_delete_treatment(e) == DeleteTreatment(e)

-----------------------------------------------------------------------------
(* populate_treatment_from_upload, into one locale of one treatment        *)

Populate(r) ==
  /\ run[r] = Idle /\ Begin
  /\ To(r, [pc |-> "resolve", call |-> calls + 1, created |-> FALSE, at |-> 0, todo |-> Files])
  /\ UNCHANGED <<submitVars, uploadVars, treatments>>

\* _resolve_localization: only one that this call made is its own to delete.
Resolve(r) ==
  /\ run[r].pc = "resolve"
  /\ To(r, IF loc = NoLoc THEN Step(r, "make")
           ELSE [Step(r, "upload") EXCEPT !.at = loc.maker])
  /\ UNCHANGED <<submitVars, uploadVars, treatments, calls>>

\* ensure_treatment_localization: the same lookup, one call later the same POST.
EnsureLocalization ==
  /\ loc = NoLoc /\ Begin
  /\ loc' = [maker |-> calls + 1, files |-> {}]
  /\ UNCHANGED <<submitVars, orphan, treatments, run>>
experiment_ensure_treatment_localization == EnsureLocalization

\* experiment_upload_treatment_screenshot: one file, into one that is there.
UploadOne ==
  /\ loc # NoLoc /\ Begin
  /\ loc' = [loc EXCEPT !.files = @ \cup {<<calls + 1, Files[1]>>}]
  /\ UNCHANGED <<submitVars, orphan, treatments, run>>

MakeLocalization(r) ==
  /\ run[r].pc = "make"
  /\ IF loc # NoLoc THEN To(r, Idle) /\ UNCHANGED uploadVars
     ELSE /\ loc' = [maker |-> run[r].call, files |-> {}]
          /\ \/ To(r, [Step(r, "upload") EXCEPT !.created = TRUE, !.at = run[r].call])
                /\ UNCHANGED orphan
             \/ To(r, Idle) /\ orphan' = TRUE
  /\ UNCHANGED <<submitVars, treatments, calls>>

\* The next file lands, or fails and with it the upload.
CleansUp_Always(r) == TRUE
CleansUp(r) == run[r].created
UploadFile(r) ==
  /\ run[r].pc = "upload"
  /\ \/ /\ run[r].todo # <<>> /\ loc.maker = run[r].at
        /\ loc' = [loc EXCEPT !.files = @ \cup {<<run[r].call, Head(run[r].todo)>>}]
        /\ To(r, [run[r] EXCEPT !.todo = Tail(@)])
     \/ /\ run[r].todo # <<>>
        /\ To(r, IF CleansUp(r) THEN Step(r, "cleanup") ELSE Idle)
        /\ UNCHANGED loc
     \/ run[r].todo = <<>> /\ To(r, Idle) /\ UNCHANGED loc
  /\ UNCHANGED <<submitVars, treatments, orphan, calls>>

\* Best effort: the deletion may fail, or never be reached.
Cleanup(r) ==
  /\ run[r].pc = "cleanup" /\ To(r, Idle)
  /\ \/ loc' = (IF loc.maker = run[r].at THEN NoLoc ELSE loc) /\ UNCHANGED orphan
     \/ orphan' = TRUE /\ UNCHANGED loc
  /\ UNCHANGED <<submitVars, treatments, calls>>

UploadDies(r) ==
  /\ Uploading(r) /\ To(r, Idle) /\ orphan' = TRUE
  /\ UNCHANGED <<submitVars, loc, treatments, calls>>

Init ==
  /\ \E e \in Exps : expState = [x \in Exps |-> IF x = e THEN "prepare" ELSE "absent"]
  /\ treatments = [e \in Exps |-> 0]
  /\ subs = <<>>
  /\ loc \in {NoLoc, [maker |-> MaxCalls + 1, files |-> {}]}
  /\ run = [r \in Runs |-> Idle]
  /\ sent = {} /\ late = {} /\ refused = FALSE /\ orphan = FALSE /\ calls = 0

Next ==
  \/ \E r \in Runs :
       \/ \E e \in Exps : Submit(r, e) \/ experiment_submit_for_review(r, e)
       \/ ListOpen(r) \/ ListItems(r) \/ CreateSubmission(r) \/ AddItem(r) \/ Send(r)
       \/ SubmitDies(r)
       \/ Populate(r) \/ Resolve(r) \/ MakeLocalization(r) \/ UploadFile(r) \/ Cleanup(r)
       \/ UploadDies(r)
  \/ PersonAdds \/ Review
  \/ EnsureLocalization \/ experiment_ensure_treatment_localization \/ UploadOne
  \/ \E e \in Exps :
       \/ CreateExperiment(e) \/ experiment_create(e)
       \/ DeleteExperiment(e) \/ experiment_delete(e)
       \/ UpdateExperiment(e) \/ experiment_start(e) \/ experiment_stop(e)
       \/ CreateTreatment(e) \/ experiment_create_treatment(e)
       \/ DeleteTreatment(e) \/ experiment_delete_treatment(e)

Spec == Init /\ [][Next]_vars

-----------------------------------------------------------------------------
\* A submission that a submit sends holds nothing but its experiment, unless
\* it was added to after the submit had listed it.
NothingElseIsSent ==
  \A s \in sent : s[1] \notin late => subs[s[1]].items = {s[2]}

\* A submit that runs alone is never refused, whatever an earlier one that
\* failed half-way has left: a retry finishes it.
RetryGoesThrough == ~refused

\* Both of the above, of every submit.
SubmitIsClean == NothingElseIsSent /\ RetryGoesThrough

\* A from-upload deletes no localization that was there before it, and one
\* that failed leaves none of its own, unless its cleanup failed too.
CleansUpItsOwn ==
  [][ /\ loc # NoLoc /\ loc' = NoLoc =>
           \E r \in Runs : run[r].pc = "cleanup" /\ run[r].call = loc.maker
      /\ \A r \in Runs :
           Uploading(r) /\ run'[r] = Idle /\ run[r].pc # "make" /\ run[r].todo # <<>>
             /\ ~orphan' => loc'.maker # run[r].call ]_vars

=============================================================================
