---------------------------- MODULE ProductParts ----------------------------
(***************************************************************************)
(* What hangs on a product at Apple and has no row here: localizations of  *)
(* subscriptions, in-app purchases and groups, introductory offers one at  *)
(* a time, and the screenshot for App Review.  Nothing is kept locally:    *)
(* each request lists, decides, and writes.                                *)
(***************************************************************************)
EXTENDS Naturals, FiniteSets, Sequences, FiniteSetsExt

CONSTANTS
  Runs, Products,
  Locales,      \* full locale tags, and bare languages
  Lang,         \* tag -> its language
  Canon,        \* tag -> the tag Apple stores it under
  MaxParts,     \* bound on the parts ever made
  MaxCalls      \* bound on the requests and on what people change

VARIABLES
  kind,     \* what the parts are: "sub", "iap", "group" localizations, "offer"
  parts,    \* id -> [of, locale, text] or Gone
  shot,     \* the review screenshot: NoShot or [id, whole]
  run,      \* request -> its state
  written,  \* history: every change of a part that was there before
  overlap,  \* history: two requests, or a request and a person, at once
  calls

vars == <<kind, parts, shot, run, written, overlap, calls>>

Idle == [pc |-> "idle"]
Gone == [of |-> "nobody", locale |-> "none", text |-> <<"none", "none">>]
NoShot == [id |-> "none", whole |-> FALSE]
To(r, rec) == run' = [run EXCEPT ![r] = rec]
Step(r, pc) == [run[r] EXCEPT !.pc = pc]
Of(p) == {i \in DOMAIN parts : parts[i].of = p}
Busy == \E s \in Runs : run[s] # Idle
Start(r, rec) ==
  /\ run[r] = Idle /\ calls < MaxCalls /\ calls' = calls + 1
  /\ To(r, rec) /\ overlap' = (overlap \/ Busy)
  /\ UNCHANGED <<kind, parts, shot, written>>
Calling == UNCHANGED <<kind, overlap, calls>>

-----------------------------------------------------------------------------
(* Apple's side of a part                                                  *)

\* Refused for what is there already: one part per product and locale.
Add(p, locale, text) ==
  /\ Len(parts) < MaxParts
  /\ ~\E i \in Of(p) : parts[i].locale = Canon[locale]
  /\ parts' = Append(parts, [of |-> p, locale |-> Canon[locale], text |-> text])
Change(i, p, locale, new) ==
  /\ parts[i] # Gone
  /\ parts' = [parts EXCEPT ![i] = new]
  /\ written' = written \cup {[owner |-> parts[i].of, locale |-> parts[i].locale,
                               by |-> p, asked |-> locale]}
Write(i, p, locale, text) == Change(i, p, locale, [parts[i] EXCEPT !.text = text])

-----------------------------------------------------------------------------
(* One part: create, update, delete                                        *)

Asks(r, kinds) ==
  /\ kind \in kinds
  /\ \E p \in Products, t \in Locales : Start(r, [pc |-> "create", of |-> p, asked |-> t])
Names(r, kinds, pc) ==
  /\ kind \in kinds
  /\ \E p \in Products, i \in DOMAIN parts :
       Start(r, [pc |-> "assert", of |-> p, part |-> i, then |-> pc])

create_subscription_localization(r) == Asks(r, {"sub"})
create_iap_localization(r) == Asks(r, {"iap"})
create_subscription_group_localization(r) == Asks(r, {"group"})
create_subscription_intro_offer(r) == Asks(r, {"offer"})
pricing_create_subscription_localization(r) == create_subscription_localization(r)
pricing_create_iap_localization(r) == create_iap_localization(r)
pricing_create_subscription_group_localization(r) == create_subscription_group_localization(r)
pricing_create_subscription_intro_offer(r) == create_subscription_intro_offer(r)
update_subscription_localization(r) == Names(r, {"sub"}, "update")
update_iap_localization(r) == Names(r, {"iap"}, "update")
update_subscription_group_localization(r) == Names(r, {"group"}, "update")
pricing_update_subscription_localization(r) == update_subscription_localization(r)
pricing_update_iap_localization(r) == update_iap_localization(r)
pricing_update_subscription_group_localization(r) == update_subscription_group_localization(r)
delete_subscription_localization(r) == Names(r, {"sub"}, "delete")
delete_iap_localization(r) == Names(r, {"iap"}, "delete")
delete_subscription_group_localization(r) == Names(r, {"group"}, "delete")
delete_subscription_intro_offer(r) == Names(r, {"offer"}, "delete")
pricing_delete_subscription_localization(r) == delete_subscription_localization(r)
pricing_delete_iap_localization(r) == delete_iap_localization(r)
pricing_delete_subscription_group_localization(r) == delete_subscription_group_localization(r)
pricing_delete_subscription_intro_offer(r) == delete_subscription_intro_offer(r)

Creates(r, k) ==
  /\ kind = k /\ run[r].pc = "create" /\ To(r, Idle)
  /\ \/ Add(run[r].of, run[r].asked, <<r, run[r].asked>>)
     \/ UNCHANGED parts
  /\ Calling /\ UNCHANGED <<shot, written>>
PostSubText(r)   == Creates(r, "sub")
PostIapText(r)   == Creates(r, "iap")
PostGroupText(r) == Creates(r, "group")
PostOffer(r)     == Creates(r, "offer")

\* The part must be one of the product's; a listing that fails is a refusal.
Member_Unchecked(p, i) == TRUE
Member(p, i) == i \in Of(p)
AssertMember(r) ==
  /\ run[r].pc = "assert"
  /\ To(r, IF Member(run[r].of, run[r].part) THEN Step(r, run[r].then) ELSE Idle)
  /\ Calling /\ UNCHANGED <<parts, shot, written>>
ListingFails(r) ==
  /\ run[r].pc \in {"assert", "list"} /\ To(r, Idle)
  /\ Calling /\ UNCHANGED <<parts, shot, written>>

Updates(r, k) ==
  /\ kind = k /\ run[r].pc = "update" /\ To(r, Idle)
  /\ \/ Write(run[r].part, run[r].of, parts[run[r].part].locale, <<r, parts[run[r].part].locale>>)
     \/ UNCHANGED <<parts, written>>
  /\ Calling /\ UNCHANGED shot
PatchSubText(r)   == Updates(r, "sub")
PatchIapText(r)   == Updates(r, "iap")
PatchGroupText(r) == Updates(r, "group")

Deletes(r, k) ==
  /\ kind = k /\ run[r].pc = "delete" /\ To(r, Idle)
  /\ \/ Change(run[r].part, run[r].of, parts[run[r].part].locale, Gone)
     \/ UNCHANGED <<parts, written>>
  /\ Calling /\ UNCHANGED shot
DropSubText(r)   == Deletes(r, "sub")
DropIapText(r)   == Deletes(r, "iap")
DropGroupText(r) == Deletes(r, "group")
DropOffer(r)     == Deletes(r, "offer")

-----------------------------------------------------------------------------
(* Many localizations at once                                              *)

Bulk(r, kinds) ==
  /\ kind \in kinds
  /\ \E p \in Products, a \in Locales, b \in Locales :
       Start(r, [pc |-> "list", of |-> p, todo |-> IF a = b THEN <<a>> ELSE <<a, b>>,
                 asked |-> {a, b}, exact |-> << >>, prefix |-> << >>, saved |-> {}, failed |-> {}])
bulk_sync_subscription_localizations(r) == Bulk(r, {"sub"})
bulk_sync_iap_localizations(r) == Bulk(r, {"iap"})
pricing_bulk_sync_subscription_localizations(r) == bulk_sync_subscription_localizations(r)
pricing_bulk_sync_iap_localizations(r) == bulk_sync_iap_localizations(r)

\* By exact tag, and by language, where the last one listed wins.
ListAll(r) ==
  /\ run[r].pc = "list"
  /\ LET mine == Of(run[r].of)
         Tagged(t) == {i \in mine : parts[i].locale = t}
         Speaking(l) == {i \in mine : Lang[parts[i].locale] = l}
     IN To(r, [Step(r, "item") EXCEPT
                 !.exact = [t \in {parts[i].locale : i \in mine} |-> CHOOSE i \in Tagged(t) : TRUE],
                 !.prefix = [l \in {Lang[parts[i].locale] : i \in mine} |-> Max(Speaking(l))]])
  /\ Calling /\ UNCHANGED <<parts, shot, written>>

Existing(r, t) ==
  IF t \in DOMAIN run[r].exact THEN run[r].exact[t]
  ELSE IF Lang[t] \in DOMAIN run[r].prefix THEN run[r].prefix[Lang[t]] ELSE 0

\* One locale that fails does not stop the others.
AfterFailure_Stops(r, t) == [Step(r, "answer") EXCEPT !.failed = @ \cup {t}, !.todo = << >>]
AfterFailure(r, t) == [run[r] EXCEPT !.failed = @ \cup {t}, !.todo = Tail(@)]
Item(r) ==
  /\ run[r].pc = "item" /\ run[r].todo # << >>
  /\ LET t == Head(run[r].todo)
         i == Existing(r, t)
         text == <<r, t>>
         saved == [run[r] EXCEPT !.saved = @ \cup {t}, !.todo = Tail(@)]
     IN \/ i # 0 /\ Write(i, run[r].of, t, text) /\ To(r, saved)
        \/ i = 0 /\ Add(run[r].of, t, text) /\ To(r, saved) /\ UNCHANGED written
        \/ UNCHANGED <<parts, written>> /\ To(r, AfterFailure(r, t))
  /\ Calling /\ UNCHANGED shot

BulkDone(r) ==
  /\ run[r].pc = "item" /\ run[r].todo = << >> /\ To(r, Step(r, "answer"))
  /\ Calling /\ UNCHANGED <<parts, shot, written>>

-----------------------------------------------------------------------------
(* The screenshot for App Review: look, delete, reserve, upload, commit    *)

Upload(r, kinds) ==
  kind \in kinds /\ Start(r, [pc |-> "look", blind |-> FALSE, id |-> "none", old |-> NoShot])
upload_subscription_review_screenshot(r) == Upload(r, {"sub"})
upload_iap_review_screenshot(r) == Upload(r, {"iap"})
pricing_upload_subscription_review_screenshot(r) == Upload(r, {"sub"})
pricing_upload_iap_review_screenshot(r) == Upload(r, {"iap"})

Look(r, k, refused) ==
  /\ kind = k /\ run[r].pc = "look"
  /\ \/ To(r, IF shot = NoShot THEN Step(r, "reserve") ELSE [Step(r, "drop") EXCEPT !.old = shot])
     \/ To(r, refused)
  /\ Calling /\ UNCHANGED <<parts, shot, written>>
LookSub(r) == Look(r, "sub", Idle)
\* For an in-app purchase a GET that Apple refuses reads as no screenshot.
LookIap(r) == Look(r, "iap", [Step(r, "reserve") EXCEPT !.blind = TRUE]) \/ Look(r, "iap", Idle)

AfterLook_KeepsWhole(r) == ~run[r].old.whole
AfterLook(r) == TRUE
Drop(r) ==
  /\ run[r].pc = "drop"
  /\ \/ /\ AfterLook(r) /\ shot.id = run[r].old.id /\ shot' = NoShot /\ To(r, Step(r, "reserve"))
     \/ /\ ~AfterLook(r) /\ UNCHANGED shot /\ To(r, Step(r, "reserve"))
     \/ /\ shot' \in {shot, NoShot} /\ To(r, Idle)
  /\ Calling /\ UNCHANGED <<parts, written>>

\* Apple keeps one: a reservation beside another is refused.
Reserve(r) ==
  /\ run[r].pc = "reserve"
  /\ IF shot # NoShot THEN UNCHANGED shot /\ To(r, Step(r, "taken"))
     ELSE /\ shot' \in {NoShot, [id |-> r, whole |-> FALSE]}
          /\ \/ To(r, Idle)
             \/ shot' # NoShot /\ To(r, [Step(r, "put") EXCEPT !.id = r])
  /\ Calling /\ UNCHANGED <<parts, written>>

PutBinary(r) ==
  /\ run[r].pc = "put" /\ (To(r, Step(r, "commit")) \/ To(r, Idle))
  /\ Calling /\ UNCHANGED <<parts, shot, written>>

CommitShot(r) ==
  /\ run[r].pc = "commit"
  /\ \/ shot.id = r /\ shot' = [shot EXCEPT !.whole = TRUE] /\ (To(r, Step(r, "shown")) \/ To(r, Idle))
     \/ UNCHANGED shot /\ To(r, Idle)
  /\ Calling /\ UNCHANGED <<parts, written>>

Answer(r) ==
  /\ run[r].pc \in {"answer", "taken", "shown"} /\ To(r, Idle)
  /\ Calling /\ UNCHANGED <<parts, shot, written>>
Dies(r) ==
  /\ run[r] # Idle /\ To(r, Idle)
  /\ Calling /\ UNCHANGED <<parts, shot, written>>

\* Somebody works in App Store Connect.
Person ==
  /\ calls < MaxCalls /\ calls' = calls + 1 /\ overlap' = (overlap \/ Busy)
  /\ \E p \in Products, t \in Locales : Add(p, t, <<"person", t>>)
  /\ UNCHANGED <<kind, shot, run, written>>

Init ==
  /\ kind \in {"sub", "iap", "group", "offer"}
  /\ parts \in {<<[of |-> p, locale |-> Canon[t], text |-> <<"old", t>>]>> : p \in Products, t \in Locales}
  /\ shot = NoShot /\ run = [r \in Runs |-> Idle] /\ written = {} /\ overlap = FALSE /\ calls = 0

Next ==
  \/ \E r \in Runs :
       \/ create_subscription_localization(r) \/ create_iap_localization(r)
       \/ create_subscription_group_localization(r) \/ create_subscription_intro_offer(r)
       \/ pricing_create_subscription_localization(r) \/ pricing_create_iap_localization(r)
       \/ pricing_create_subscription_group_localization(r) \/ pricing_create_subscription_intro_offer(r)
       \/ update_subscription_localization(r) \/ update_iap_localization(r)
       \/ update_subscription_group_localization(r)
       \/ pricing_update_subscription_localization(r) \/ pricing_update_iap_localization(r)
       \/ pricing_update_subscription_group_localization(r)
       \/ delete_subscription_localization(r) \/ delete_iap_localization(r)
       \/ delete_subscription_group_localization(r) \/ delete_subscription_intro_offer(r)
       \/ pricing_delete_subscription_localization(r) \/ pricing_delete_iap_localization(r)
       \/ pricing_delete_subscription_group_localization(r) \/ pricing_delete_subscription_intro_offer(r)
       \/ bulk_sync_subscription_localizations(r) \/ bulk_sync_iap_localizations(r)
       \/ pricing_bulk_sync_subscription_localizations(r) \/ pricing_bulk_sync_iap_localizations(r)
       \/ upload_subscription_review_screenshot(r) \/ upload_iap_review_screenshot(r)
       \/ pricing_upload_subscription_review_screenshot(r) \/ pricing_upload_iap_review_screenshot(r)
       \/ PostSubText(r) \/ PostIapText(r) \/ PostGroupText(r) \/ PostOffer(r)
       \/ AssertMember(r) \/ ListingFails(r)
       \/ PatchSubText(r) \/ PatchIapText(r) \/ PatchGroupText(r)
       \/ DropSubText(r) \/ DropIapText(r) \/ DropGroupText(r) \/ DropOffer(r)
       \/ ListAll(r) \/ Item(r) \/ BulkDone(r)
       \/ LookSub(r) \/ LookIap(r) \/ Drop(r) \/ Reserve(r) \/ PutBinary(r) \/ CommitShot(r) \/ Answer(r) \/ Dies(r)
  \/ Person

Spec == Init /\ [][Next]_vars

-----------------------------------------------------------------------------
\* A request changes no part of another product; a bulk write answers for
\* every locale, and while nothing else runs, a text it counted as saved is
\* there, unless it had two tags of one language.
SavedIsThere ==
  /\ \A w \in written : w.by = w.owner
  /\ \A r \in Runs : run[r].pc = "answer" =>
       /\ run[r].saved \cup run[r].failed = run[r].asked
       /\ ~overlap => \A t \in run[r].saved :
            \/ \E u \in run[r].asked \ {t} : Lang[u] = Lang[t]
            \/ \E i \in Of(run[r].of) : parts[i].text = <<r, t>> /\ Lang[parts[i].locale] = Lang[t]

\* The screenshot that an upload answers for is there and whole; whatever an
\* earlier upload left half-way, a new one is not refused for it, except for
\* an in-app purchase whose screenshot could not be read.
ShotArrives ==
  ~overlap => \A r \in Runs :
    /\ run[r].pc = "taken" => run[r].blind
    /\ run[r].pc = "shown" => shot = [id |-> r, whole |-> TRUE]

\* What a request on the parts of a product answers for is at Apple.
AnsweredIsThere == SavedIsThere /\ ShotArrives

\* A comment in the code says that the language only matters when the caller
\* sent a bare one: a full tag never writes over another region's text.
RegionsKeepTheirText ==
  \A w \in written : w.asked \in DOMAIN Lang =>
    Canon[w.asked] = w.locale \/ Lang[w.asked] = w.asked
=============================================================================
