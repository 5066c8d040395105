------------------------------ MODULE Replies -------------------------------
(***************************************************************************)
(* Customer reviews and the developer's replies: the routes and the tools. *)
(* Apple knows reviews and replies by ids of the whole team, so the        *)
(* program remembers from what it lists which app a review belongs to and  *)
(* which review a reply answers, and asks its memory before it reads or    *)
(* writes.  Two users may each hold a row of the same app.  What is in a   *)
(* review or a reply, drafts and translations are data.                    *)
(***************************************************************************)
EXTENDS Naturals, Sequences, FiniteSets

CONSTANTS
  Apps,         \* rows of the apps table
  StoreOf,      \* app -> the app at Apple
  Reviews,
  ReviewOf,     \* review -> the app at Apple it is about
  Asks,         \* requests
  MaxReplies,   \* bound on the replies ever written
  MaxAsked      \* bound on the requests ever made

VARIABLES
  reply,      \* review -> its reply at Apple, or 0
  made,       \* the review of every reply ever written; a reply is its number
  appMap,     \* review -> app (ReviewAppMap), or None
  respMap,    \* reply -> review (ReviewResponseMap), or None
  ask,        \* request -> its state
  asked       \* requests made so far

vars == <<reply, made, appMap, respMap, ask, asked>>
None == "none"
apple == <<reply, made>>
tables == <<appMap, respMap>>

At(app) == {v \in Reviews : ReviewOf[v] = StoreOf[app]}
\* Reviews with their replies as they are at Apple: the data of a page.
Page(R) == {<<v, reply[v]>> : v \in R}
Idle == [pc |-> "end", op |-> None, app |-> None, review |-> None, id |-> 0,
         page |-> {}, newReviews |-> {}, newReplies |-> {}, hit |-> None, answer |-> None]

\* What earlier requests may have left: reviews listed by no or by either user of
\* their app, and a reply that was listed or not.
Init ==
  /\ appMap \in {m \in [Reviews -> Apps \cup {None}] :
                   \A v \in Reviews : m[v] # None => v \in At(m[v])}
  /\ made \in {<<>>} \cup {<<v>> : v \in Reviews}
  /\ reply = [v \in Reviews |-> IF made = <<v>> THEN 1 ELSE 0]
  /\ respMap \in {m \in [1..MaxReplies -> Reviews \cup {None}] :
       \A i \in 1..MaxReplies : m[i] # None => i <= Len(made) /\ m[i] = made[i] /\ appMap[m[i]] # None}
  /\ ask = [a \in Asks |-> Idle]
  /\ asked = 0

To(a, rec) == ask' = [ask EXCEPT ![a] = rec]
Ends(a, answer) == [ask[a] EXCEPT !.pc = "end", !.answer = answer, !.newReviews = {}, !.newReplies = {},
                                  !.page = IF answer = "ok" THEN @ ELSE {}]
Come(a, rec) ==
  /\ ask[a].pc = "end" /\ asked < MaxAsked
  /\ To(a, rec) /\ asked' = asked + 1 /\ UNCHANGED <<apple, tables>>

-----------------------------------------------------------------------------
(* Which app and which review                                              *)

\* assert_review_belongs_to_app
OfApp(review, app) == appMap[review] = app

OfReview_Unnamed(id, app, review) == respMap[id] # None /\ OfApp(respMap[id], app)
\* assert_response_belongs_to_app; review is None when the caller named none.
OfReview(id, app, review) ==
  /\ respMap[id] # None
  /\ review \in {None, respMap[id]}
  /\ OfApp(respMap[id], app)

-----------------------------------------------------------------------------
(* Requests                                                                *)

list_reviews(a, app) ==
  Come(a, [Idle EXCEPT !.pc = "sent", !.op = "list", !.app = app])

\* get_review, draft_review_reply, translate_review: one review is read.
get_review(a, app, review) ==
  /\ OfApp(review, app)
  /\ Come(a, [Idle EXCEPT !.pc = "sent", !.op = "get", !.app = app, !.review = review])

\* The tools of these names commit before they ask the model for a text.
reviews_get(a, app, review) ==
  /\ OfApp(review, app)
  /\ Come(a, [Idle EXCEPT !.pc = "sent", !.op = "reviews_get", !.app = app, !.review = review])

create_reply(a, app, review) ==
  /\ OfApp(review, app)
  /\ Come(a, [Idle EXCEPT !.pc = "sent", !.op = "create", !.app = app, !.review = review])

Change(a, op, app, review, id) ==
  /\ OfReview(id, app, review)
  /\ Come(a, [Idle EXCEPT !.pc = "sent", !.op = op, !.app = app, !.review = review, !.id = id])

update_reply(a, app, review, id) == Change(a, "update", app, review, id)
delete_reply(a, app, review, id) == Change(a, "delete", app, review, id)

\* The tools name the reply alone.
reviews_update_response(a, app, id) == Change(a, "update", app, None, id)
reviews_delete_response(a, app, id) == Change(a, "delete", app, None, id)

Begin(a) == \E app \in Apps :
  \/ list_reviews(a, app)
  \/ \E review \in Reviews :
       get_review(a, app, review) \/ reviews_get(a, app, review) \/ create_reply(a, app, review)
  \/ \E review \in Reviews, id \in DOMAIN made :
       update_reply(a, app, review, id) \/ delete_reply(a, app, review, id)
  \/ \E id \in DOMAIN made :
       reviews_update_response(a, app, id) \/ reviews_delete_response(a, app, id)

-----------------------------------------------------------------------------
(* Apple                                                                   *)

\* One page of the listing, or the one review.
Read(a) ==
  /\ ask[a].pc = "sent" /\ ask[a].op \in {"list", "get", "reviews_get"}
  /\ \E R \in SUBSET (IF ask[a].op = "list" THEN At(ask[a].app) ELSE {ask[a].review}) :
       /\ ask[a].op # "list" => R # {}
       /\ To(a, [ask[a] EXCEPT !.pc = "look", !.page = Page(R)])
  /\ UNCHANGED <<apple, tables, asked>>

\* A review takes one reply; Apple replaces it or refuses a second.
Write(a) ==
  /\ ask[a].pc = "sent" /\ ask[a].op = "create"
  /\ LET v == ask[a].review
         i == IF reply[v] = 0 THEN Len(made) + 1 ELSE reply[v]
     IN /\ i <= MaxReplies
        /\ reply' = [reply EXCEPT ![v] = i]
        /\ made' = IF i > Len(made) THEN Append(made, v) ELSE made
        /\ \/ To(a, [ask[a] EXCEPT !.pc = "look", !.page = {<<v, i>>}, !.hit = v])
           \/ To(a, [Ends(a, "failed") EXCEPT !.hit = v])     \* the answer is lost
  /\ UNCHANGED <<tables, asked>>

Edit(a) ==
  /\ ask[a].pc = "sent" /\ ask[a].op = "update"
  /\ reply[made[ask[a].id]] = ask[a].id
  /\ \E answer \in {"ok", "failed"} : To(a, [Ends(a, answer) EXCEPT !.hit = made[ask[a].id]])
  /\ UNCHANGED <<apple, tables, asked>>

Remove(a) ==
  /\ ask[a].pc = "sent" /\ ask[a].op = "delete"
  /\ LET v == made[ask[a].id]
     IN /\ reply[v] = ask[a].id
        /\ reply' = [reply EXCEPT ![v] = 0]
        /\ \/ To(a, [ask[a] EXCEPT !.pc = "forget", !.hit = v])
           \/ To(a, [Ends(a, "failed") EXCEPT !.hit = v])
  /\ UNCHANGED <<made, tables, asked>>

\* Refused, gone at Apple, or not answered: a 502, a ToolError.
Refuse(a) ==
  /\ ask[a].pc = "sent"
  /\ To(a, Ends(a, "failed"))
  /\ UNCHANGED <<apple, tables, asked>>

\* Replies are also written and removed in App Store Connect.
Person == \E v \in Reviews :
  /\ \/ /\ reply[v] = 0 /\ Len(made) < MaxReplies
        /\ made' = Append(made, v) /\ reply' = [reply EXCEPT ![v] = Len(made')]
     \/ reply[v] # 0 /\ reply' = [reply EXCEPT ![v] = 0] /\ UNCHANGED made
  /\ UNCHANGED <<tables, ask, asked>>

-----------------------------------------------------------------------------
(* The memory                                                              *)

Pairs_NoReply(page) == {}
\* The replies of a page.
Pairs(page) == {p \in page : p[2] # 0}

\* The SELECT of both upserts: what has no row yet will be inserted.
Look(a) ==
  /\ ask[a].pc = "look"
  /\ LET page == ask[a].page
         unseen == IF ask[a].op = "create" THEN {} ELSE {p \in page : appMap[p[1]] = None}
     IN To(a, [ask[a] EXCEPT !.pc = "record",
                 !.newReviews = {p[1] : p \in unseen},
                 !.newReplies = {p[2] : p \in {q \in Pairs(page) : respMap[q[2]] = None}}])
  /\ UNCHANGED <<apple, tables, asked>>

\* Another request has inserted one of the rows meanwhile: an IntegrityError.
Collides(a) ==
  \/ \E v \in ask[a].newReviews : appMap[v] # None
  \/ \E i \in ask[a].newReplies : respMap[i] # None

\* record_review_app_mappings or record_response_mapping, and the commit,
\* behind which a draft by a tool may still fail.
Record(a) ==
  /\ ask[a].pc = "record"
  /\ IF Collides(a)
     THEN UNCHANGED tables /\ To(a, Ends(a, "failed"))
     ELSE /\ appMap' = [v \in Reviews |->
               IF ask[a].op # "create" /\ \E p \in ask[a].page : p[1] = v THEN ask[a].app ELSE appMap[v]]
          /\ respMap' = [i \in 1..MaxReplies |->
               IF \E p \in Pairs(ask[a].page) : p[2] = i
               THEN (CHOOSE p \in ask[a].page : p[2] = i)[1] ELSE respMap[i]]
          /\ \E answer \in {"ok"} \cup (IF ask[a].op = "reviews_get" THEN {"failed"} ELSE {}) :
               To(a, Ends(a, answer))
  /\ UNCHANGED <<apple, asked>>

\* forget_response_mapping, and the commit
Forget(a) ==
  /\ ask[a].pc = "forget"
  /\ respMap' = [respMap EXCEPT ![ask[a].id] = None]
  /\ To(a, Ends(a, "ok"))
  /\ UNCHANGED <<apple, appMap, asked>>

\* The request is cancelled, or the process ends: its rows are rolled back.
Dies(a) ==
  /\ ask[a].pc # "end"
  /\ To(a, Ends(a, "failed"))
  /\ UNCHANGED <<apple, tables, asked>>

Next ==
  \/ Person
  \/ \E a \in Asks :
       \/ Begin(a) \/ Read(a) \/ Write(a) \/ Edit(a) \/ Remove(a) \/ Refuse(a)
       \/ Look(a) \/ Record(a) \/ Forget(a) \/ Dies(a)

Spec == Init /\ [][Next]_vars

-----------------------------------------------------------------------------
(* Properties *)

\* A write for an app touches a review of that app, and the review it was asked
\* for when it was asked for one.
HitsItsReview ==
  \A a \in Asks : ask[a].hit # None =>
    /\ ask[a].hit \in At(ask[a].app)
    /\ ask[a].review \in {None, ask[a].hit}

\* What a caller was shown or told of can be acted on as long as Apple has it:
\* the review is on record for its app, the reply for its review.
ShownIsKnown ==
  \A a \in Asks : ask[a].answer = "ok" =>
    \A p \in ask[a].page :
      /\ appMap[p[1]] # None /\ p[1] \in At(appMap[p[1]])
      /\ reply[p[1]] = p[2] /\ p[2] # 0 => respMap[p[2]] = p[1]

RepliesStay == HitsItsReview /\ ShownIsKnown
=============================================================================
