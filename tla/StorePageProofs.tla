-------------------------- MODULE StorePageProofs ---------------------------
(***************************************************************************)
(* Proofs about what makes a store page, for any sets of locales, texts,   *)
(* requests, proposals, experiments, keywords and pages, and any caps.     *)
(* Each part has an inductive invariant of its own; a step of MCStorePage  *)
(* is a step of one part with the others at rest, so each holds of the     *)
(* whole as well.                                                          *)
(*                                                                         *)
(* Listing (ListingInv): whoever buys a translation holds the lock, where  *)
(* there is one, and what is bought and about to be is within the cap or   *)
(* what it may be overrun by.  CustomPages (PageInv): what of an upload is *)
(* not on the page is still to do, and what a keyword set that runs alone  *)
(* has read and planned is so.  Experiments (SubmitInv,                    *)
(* UploadInv): what a submit has found out of a submission is so while     *)
(* nobody else is at it; which localization an upload has made is known    *)
(* by its call.  Metadata (TextInv): the rows are behind Apple's page by   *)
(* exactly what the request at work is about to commit.  AssetTools        *)
(* (ShotInv): while a request is alone, the set is what it listed, with    *)
(* its own screenshot at the place its step has brought it to.             *)
(***************************************************************************)
EXTENDS MCStorePage, FiniteSetTheorems, SequenceTheorems, WellFoundedInduction, TLAPS

-----------------------------------------------------------------------------
(***************************************************************************)
(* Listing: the cap on translations, and the draft of a proposal.          *)
(***************************************************************************)

ListingSetting == Cap \in Nat /\ L!Nobody \notin Requests
                  /\ IsFiniteSet(Requests) /\ Requests # {}

\* The state of a request has the fields its step reads.
ReqShape ==
  /\ DOMAIN req = Requests
  /\ \A r \in Requests : "pc" \in DOMAIN req[r]
  /\ \A r \in Requests : L!Running(r) =>
       {"kind", "items", "proposal", "source", "values", "used", "read"} \subseteq DOMAIN req[r]

\* A request that is about to insert holds the lock, if there is one.
Counted ==
  /\ postgres \in BOOLEAN
  /\ \A r \in Requests : req[r].pc = "insert" =>
       req[r].used \in Nat /\ (postgres => lock = r)

\* Those that have counted below the cap and not inserted yet.  What has been bought
\* and what they are about to buy stays within the cap and what it may be overrun by.
Buyers == {r \in Requests : req[r].pc = "insert" /\ req[r].used < Cap}
WithinCap ==
  IsFiniteSet(recent) /\ Cardinality(recent) + Cardinality(Buyers) <= Cap + L!Overrun

\* While nothing has overlapped, a localize that is about to save has read the draft
\* as it is.
ReadIsDraft ==
  \A r \in Requests : req[r].pc = "save" =>
    req[r].kind = "localize" /\ (~lost => req[r].read = draft)

ListingInv == ReqShape /\ Counted /\ WithinCap /\ ReadIsDraft /\ L!BatchesAddUp

LEMMA SameCardinality == ASSUME NEW S PROVE L!Cardinality(S) = Cardinality(S)
  BY Zenon DEF L!Cardinality, Cardinality

\* The buyers are finitely many requests, and what may be overrun is a number.
LEMMA BuyersAreFew ==
  ASSUME ListingSetting, postgres \in BOOLEAN
  PROVE  /\ IsFiniteSet(Buyers) /\ Cardinality(Buyers) \in Nat
         /\ Cardinality(Buyers) <= Cardinality(Requests) /\ Cardinality(Requests) \in Nat
         /\ L!Overrun \in Nat
         /\ L!Overrun = IF postgres THEN 0 ELSE Cardinality(Requests) - 1
<1>1. Buyers \subseteq Requests
  BY DEF Buyers
<1>2. /\ IsFiniteSet(Buyers) /\ Cardinality(Buyers) <= Cardinality(Requests)
      /\ Cardinality(Buyers) \in Nat /\ Cardinality(Requests) \in Nat
  BY <1>1, FS_Subset, FS_CardinalityType DEF ListingSetting
<1>3. L!Cardinality(Requests) = Cardinality(Requests)
  BY SameCardinality
<1>4. Cardinality(Requests) # 0
  BY FS_EmptySet DEF ListingSetting
<1> QED
  BY <1>2, <1>3, <1>4 DEF L!Overrun

\* A step after which no more is bought, and nobody else is about to buy.
LEMMA StaysWithin ==
  ASSUME ListingSetting, Counted, WithinCap, UNCHANGED postgres,
         IsFiniteSet(recent'), Cardinality(recent') <= Cardinality(recent), Buyers' \subseteq Buyers
  PROVE  WithinCap'
<1>1. IsFiniteSet(Buyers) /\ Cardinality(Buyers) \in Nat /\ L!Overrun \in Nat
  BY BuyersAreFew DEF Counted
<1>2. Cardinality(Buyers') <= Cardinality(Buyers) /\ Cardinality(Buyers') \in Nat
  BY <1>1, FS_Subset, FS_CardinalityType
<1>3. Cardinality(recent) \in Nat /\ Cardinality(recent') \in Nat
  BY FS_CardinalityType DEF WithinCap
<1>4. L!Overrun' = L!Overrun
  BY DEF L!Overrun
<1> QED
  BY <1>1, <1>2, <1>3, <1>4 DEF WithinCap, ListingSetting

LEMMA StaysStill ==
  ASSUME ListingSetting, Counted, WithinCap, UNCHANGED <<postgres, recent>>, Buyers' \subseteq Buyers
  PROVE  WithinCap'
<1>1. IsFiniteSet(recent) /\ Cardinality(recent) \in Nat
  BY FS_CardinalityType DEF WithinCap
<1>2. Cardinality(recent') <= Cardinality(recent)
  BY <1>1
<1> QED
  BY <1>1, <1>2, StaysWithin

\* Who is about to insert and is not over the cap is a buyer.
LEMMA BelowCap ==
  ASSUME ListingSetting, Counted, NEW r \in Requests, req[r].pc = "insert", ~L!AtCap(req[r].used)
  PROVE  r \in Buyers
  BY DEF L!AtCap, Buyers, Counted, ListingSetting

LEMMA ListingInitially == ASSUME ListingSetting, L!Init PROVE ListingInv
<1>1. ReqShape /\ Counted /\ ReadIsDraft
  BY DEF L!Init, L!Idle, ReqShape, Counted, ReadIsDraft, L!Running
<1>2. WithinCap
  <2>1. Buyers = {} /\ recent = {}
    BY DEF L!Init, L!Idle, Buyers
  <2> QED
    BY <1>1, <2>1, FS_EmptySet, BuyersAreFew DEF Counted, WithinCap, ListingSetting
<1>3. L!BatchesAddUp
  BY DEF L!Init, L!BatchesAddUp
<1> QED
  BY <1>1, <1>2, <1>3 DEF ListingInv

\* A step of a request that neither inserts, saves nor changes what has been bought.
LEMMA ListingQuiet ==
  ASSUME ListingSetting, ListingInv, NEW r \in Requests, ReqShape',
         \A s \in Requests \ {r} : req'[s] = req[s],
         req'[r].pc \notin {"insert", "save"},
         lock' = lock \/ (lock = r /\ lock' = L!Nobody),
         UNCHANGED <<postgres, recent, draft, asked>>, lost => lost'
  PROVE  ListingInv'
<1> USE DEF ListingInv
<1>1. Counted'
  BY DEF Counted
<1>2. WithinCap'
  <2>1. Buyers' \subseteq Buyers
    BY DEF Buyers
  <2> QED
    BY <2>1, StaysStill
<1>3. ReadIsDraft' /\ L!BatchesAddUp'
  BY DEF ReadIsDraft, L!BatchesAddUp
<1> QED
  BY <1>1, <1>2, <1>3

LEMMA ListingKeeps == ASSUME ListingSetting, ListingInv, [L!Next]_(L!vars) PROVE ListingInv'
<1> USE DEF L!Idle, L!Running, L!Done
<1>0. ReqShape
  BY DEF ListingInv
<1>1. ASSUME NEW r \in Requests, NEW kind, NEW items, NEW p, NEW source,
             L!Start(r, kind, items, p, source),
             UNCHANGED <<postgres, recent, lock, draft, asked>>, lost => lost'
      PROVE  ListingInv'
  <2>1. /\ req'[r].pc = "item"
        /\ \A s \in Requests \ {r} : req'[s] = req[s]
        /\ ReqShape'
    BY <1>0, <1>1 DEF L!Start, ReqShape
  <2> QED
    BY <1>1, <2>1, ListingQuiet
<1>2. ASSUME NEW r \in Requests, L!LookUp(r) PROVE ListingInv'
  <2>1. /\ req'[r].pc \in {"item", "call"}
        /\ \A s \in Requests \ {r} : req'[s] = req[s]
        /\ ReqShape'
    BY <1>0, <1>2 DEF L!LookUp, L!Answered, ReqShape
  <2> QED
    BY <1>2, <2>1, ListingQuiet DEF L!LookUp
<1>3. ASSUME NEW r \in Requests, L!Fails(r) PROVE req'[r].pc = "idle" /\ ReqShape'
                    /\ (\A s \in Requests \ {r} : req'[s] = req[s])
                    /\ (lock' = lock \/ (lock = r /\ lock' = L!Nobody))
  BY <1>0, <1>3 DEF L!Fails, ReqShape
<1>4. ASSUME NEW r \in Requests, NEW ps, L!Call(r, ps) PROVE ListingInv'
  <2>1. CASE L!Fails(r)
    BY <1>3, <1>4, <2>1, ListingQuiet DEF L!Call
  <2>2. CASE ~L!Fails(r)
    <3>1. /\ req'[r].pc \in {"item", "lock"} /\ UNCHANGED lock
          /\ \A s \in Requests \ {r} : req'[s] = req[s]
          /\ ReqShape'
      <4>1. \/ req' = [req EXCEPT ![r].pc = "lock"] /\ UNCHANGED lock
            \/ req' = [req EXCEPT ![r].items = Tail(@), ![r].pc = "item"] /\ UNCHANGED lock
        BY <1>4, <2>2 DEF L!Call
      <4> QED
        BY <1>0, <1>4, <4>1 DEF ReqShape, L!Call
    <3> QED
      BY <1>4, <3>1, ListingQuiet DEF L!Call
  <2> QED
    BY <2>1, <2>2
<1>5. ASSUME NEW r \in Requests, L!Lock(r) PROVE ListingInv'
  <2>1. /\ req'[r].pc = "insert" /\ req'[r].used = L!Cardinality(recent)
        /\ \A s \in Requests \ {r} : req'[s] = req[s]
        /\ ReqShape'
    BY <1>0, <1>5 DEF L!Lock, ReqShape
  <2>2. Cardinality(recent) \in Nat /\ req'[r].used = Cardinality(recent)
    BY <2>1, SameCardinality, FS_CardinalityType DEF ListingInv, WithinCap
  <2>3. /\ postgres => lock \in {L!Nobody, r} /\ lock' = r
        /\ req[r].pc = "lock" /\ UNCHANGED <<postgres, recent, draft, lost, asked>>
    BY <1>5 DEF L!Lock, L!Free
  <2>4. Counted'
    BY <2>1, <2>2, <2>3 DEF ListingInv, Counted, ListingSetting
  <2>5. WithinCap'
    <3>1. /\ IsFiniteSet(Buyers) /\ Cardinality(Buyers) \in Nat /\ L!Overrun \in Nat
          /\ IsFiniteSet(Buyers') /\ Cardinality(Buyers') \in Nat
          /\ Cardinality(Buyers') <= Cardinality(Requests) /\ Cardinality(Requests) \in Nat
          /\ L!Overrun' = L!Overrun
          /\ L!Overrun = IF postgres THEN 0 ELSE Cardinality(Requests) - 1
      <4>1. Buyers' \subseteq Requests
        BY <2>1 DEF Buyers
      <4>2. L!Overrun' = L!Overrun
        BY <2>3 DEF L!Overrun
      <4> QED
        BY <4>1, <4>2, BuyersAreFew, FS_Subset, FS_CardinalityType DEF ListingInv, Counted, ListingSetting
    <3>2. CASE ~(Cardinality(recent) < Cap)
      <4>1. Buyers' \subseteq Buyers
        BY <2>1, <2>2, <3>2 DEF Buyers
      <4> QED
        BY <2>3, <4>1, StaysStill DEF ListingInv
    <3>3. CASE Cardinality(recent) < Cap /\ postgres
      <4>1. Buyers' \subseteq {r}
        BY <2>1, <2>3, <3>3 DEF Buyers, ListingInv, Counted, ListingSetting
      <4>2. Cardinality(Buyers') <= 1
        <5>1. IsFiniteSet({r}) /\ Cardinality({r}) = 1
          BY FS_Singleton
        <5>2. Cardinality(Buyers') <= Cardinality({r})
          BY <4>1, <5>1, FS_Subset
        <5> QED
          BY <5>1, <5>2
      <4> QED
        BY <2>2, <2>3, <3>1, <3>3, <4>2 DEF ListingInv, WithinCap, ListingSetting
    <3>4. CASE Cardinality(recent) < Cap /\ ~postgres
      BY <2>2, <2>3, <3>1, <3>4 DEF ListingInv, WithinCap, ListingSetting
    <3> QED
      BY <2>3, <3>2, <3>3, <3>4 DEF ListingInv, Counted
  <2>6. ReadIsDraft' /\ L!BatchesAddUp'
    BY <2>1, <2>3 DEF ListingInv, ReadIsDraft, L!BatchesAddUp
  <2> QED
    BY <2>1, <2>4, <2>5, <2>6 DEF ListingInv
<1>6. ASSUME NEW r \in Requests, L!Insert(r) PROVE ListingInv'
  <2>1. CASE UNCHANGED recent
    <3>1. CASE L!Fails(r)
      BY <1>3, <1>6, <2>1, <3>1, ListingQuiet DEF L!Insert
    <3>2. CASE ~L!Fails(r)
      <4>1. \/ req' = [req EXCEPT ![r].items = Tail(@), ![r].pc = "item"] /\ UNCHANGED lock
            \/ req' = L!Answered(r) /\ lock' = IF lock = r THEN L!Nobody ELSE lock
        BY <1>6, <3>2 DEF L!Insert
      <4>2. /\ req'[r].pc = "item"
            /\ \A s \in Requests \ {r} : req'[s] = req[s]
            /\ ReqShape'
        BY <1>0, <1>6, <4>1 DEF ReqShape, L!Insert, L!Answered
      <4> QED
        BY <1>6, <2>1, <4>1, <4>2, ListingQuiet DEF L!Insert
    <3> QED
      BY <3>1, <3>2
  <2>2. CASE recent' # recent
    <3>1. /\ ~L!AtCap(req[r].used) /\ recent' = recent \cup {L!Item(r)}
          /\ req' = L!Answered(r) /\ req[r].pc = "insert"
          /\ UNCHANGED <<postgres, draft, lost, asked>>
      BY <1>6, <2>2 DEF L!Insert
    <3>2. /\ req'[r].pc = "item"
          /\ \A s \in Requests \ {r} : req'[s] = req[s]
          /\ ReqShape'
      BY <1>0, <3>1 DEF ReqShape, L!Answered
    <3>3. r \in Buyers
      BY <3>1, BelowCap DEF ListingInv, Counted
    <3>4. WithinCap'
      <4>1. /\ IsFiniteSet(recent \cup {L!Item(r)})
            /\ Cardinality(recent \cup {L!Item(r)}) = IF L!Item(r) \in recent THEN Cardinality(recent)
                                                    ELSE Cardinality(recent) + 1
        BY FS_AddElement DEF ListingInv, WithinCap
      <4>2. /\ Cardinality(recent) \in Nat /\ IsFiniteSet(Buyers)
            /\ Cardinality(Buyers) \in Nat /\ L!Overrun \in Nat
        BY FS_CardinalityType, BuyersAreFew DEF ListingInv, WithinCap, Counted
      <4>3. Buyers' = Buyers \ {r}
        BY <3>2 DEF Buyers
      <4>4. Cardinality(Buyers \ {r}) = Cardinality(Buyers) - 1
        BY <3>3, <4>2, FS_RemoveElement
      <4>5. L!Overrun' = L!Overrun
        BY <3>1 DEF L!Overrun
      <4> QED
        BY <3>1, <4>1, <4>2, <4>3, <4>4, <4>5 DEF ListingInv, WithinCap, ListingSetting
    <3>5. Counted'
      <4>1. postgres => \A s \in Requests \ {r} : req[s].pc # "insert"
        BY <3>1 DEF ListingInv, Counted
      <4> QED
        BY <3>1, <3>2, <4>1 DEF ListingInv, Counted
    <3>6. ReadIsDraft' /\ L!BatchesAddUp'
      BY <3>1, <3>2 DEF ListingInv, ReadIsDraft, L!BatchesAddUp
    <3> QED
      BY <3>2, <3>4, <3>5, <3>6 DEF ListingInv
  <2> QED
    BY <2>1, <2>2
<1>7. ASSUME NEW r \in Requests, L!Finish(r) \/ L!Dies(r) PROVE ListingInv'
  BY <1>3, <1>7, ListingQuiet DEF L!Finish, L!Dies
<1>8. ASSUME NEW r \in Requests, L!ReadDraft(r) PROVE ListingInv'
  <2>1. /\ req'[r].pc = "save" /\ req'[r].read = draft /\ req'[r].kind = "localize"
        /\ \A s \in Requests \ {r} : req'[s] = req[s]
        /\ ReqShape'
        /\ UNCHANGED <<postgres, recent, lock, draft, lost, asked>>
    BY <1>0, <1>8 DEF L!ReadDraft, ReqShape
  <2>2. WithinCap'
    <3>1. Buyers' \subseteq Buyers
      BY <2>1 DEF Buyers
    <3> QED
      BY <2>1, <3>1, StaysStill DEF ListingInv
  <2> QED
    BY <2>1, <2>2 DEF ListingInv, Counted, ReadIsDraft, L!BatchesAddUp
<1>9. ASSUME NEW r \in Requests, L!SaveDraft(r) PROVE ListingInv'
  <2>1. CASE UNCHANGED <<draft, asked, lost>>
    BY <1>3, <1>9, <2>1, ListingQuiet DEF L!SaveDraft
  <2>2. CASE ~UNCHANGED <<draft, asked, lost>>
    <3> DEFINE Earlier == IF req[r].read.hash = req[r].proposal THEN req[r].read.values ELSE <<>>
    <3>1. /\ draft' = L!Merged(req[r].read, req[r].proposal, L!Made(r))
          /\ asked' = DOMAIN L!Made(r)
                        \cup (IF draft.hash = req[r].proposal THEN asked ELSE {})
          /\ lost' = (L!Overlapped(r) \/ (lost /\ draft.hash = req[r].proposal))
          /\ L!Fails(r) /\ UNCHANGED <<postgres, recent>> /\ req[r].pc = "save"
      BY <1>9, <2>2 DEF L!SaveDraft
    <3>2. DOMAIN draft'.values = DOMAIN L!Made(r) \cup DOMAIN Earlier
      BY <3>1 DEF L!Merged, L!Over
    <3>3. L!BatchesAddUp'
      <4> SUFFICES ASSUME ~lost' PROVE asked' \subseteq DOMAIN draft'.values
        BY DEF L!BatchesAddUp
      <4>1. CASE draft.hash = req[r].proposal
        <5>1. ~lost
          BY <3>1, <4>1
        <5>2. req[r].read = draft /\ asked \subseteq DOMAIN draft.values
          BY <3>1, <5>1 DEF ListingInv, ReadIsDraft, L!BatchesAddUp
        <5> QED
          BY <3>1, <3>2, <4>1, <5>2
      <4>2. CASE draft.hash # req[r].proposal
        BY <3>1, <3>2, <4>2
      <4> QED
        BY <4>1, <4>2
    <3>4. ReadIsDraft'
      <4> SUFFICES ASSUME NEW s \in Requests, req'[s].pc = "save"
          PROVE  req'[s].kind = "localize" /\ lost'
        BY DEF ReadIsDraft
      <4>1. s # r /\ req'[s] = req[s]
        BY <1>3, <3>1
      <4>2. req[s].kind = "localize"
        BY <4>1 DEF ListingInv, ReadIsDraft
      <4> QED
        BY <3>1, <4>1, <4>2 DEF L!Overlapped
    <3>5. Counted' /\ WithinCap'
      <4>1. Buyers' \subseteq Buyers
        BY <1>3, <3>1 DEF Buyers
      <4>2. WithinCap'
        BY <3>1, <4>1, StaysStill DEF ListingInv
      <4> QED
        BY <1>3, <3>1, <4>2 DEF ListingInv, Counted
    <3> QED
      BY <1>3, <3>1, <3>3, <3>4, <3>5 DEF ListingInv
  <2> QED
    BY <2>1, <2>2
<1>10. CASE L!Ages
  <2>1. PICK i \in recent : recent' = recent \ {i}
    BY <1>10 DEF L!Ages
  <2>2. /\ IsFiniteSet(recent') /\ Cardinality(recent') \in Nat /\ Cardinality(recent) \in Nat
        /\ Cardinality(recent') <= Cardinality(recent)
    <3>1. IsFiniteSet(recent) /\ Cardinality(recent) \in Nat
      BY FS_CardinalityType DEF ListingInv, WithinCap
    <3>2. IsFiniteSet(recent') /\ Cardinality(recent') = Cardinality(recent) - 1 /\ Cardinality(recent') \in Nat
      BY <2>1, <3>1, FS_RemoveElement, FS_CardinalityType
    <3> QED
      BY <3>1, <3>2
  <2>3. UNCHANGED <<postgres, lock, req, draft, lost, asked>>
    BY <1>10 DEF L!Ages
  <2>4. Counted' /\ WithinCap'
    <3>1. Buyers' = Buyers
      BY <2>3 DEF Buyers
    <3> QED
      BY <2>2, <2>3, <3>1, StaysWithin DEF ListingInv, Counted
  <2>5. ReqShape' /\ ReadIsDraft' /\ L!BatchesAddUp'
    BY <2>3 DEF ListingInv, ReqShape, ReadIsDraft, L!BatchesAddUp
  <2> QED
    BY <2>4, <2>5 DEF ListingInv
<1>11. CASE UNCHANGED L!vars
  BY <1>11 DEF L!vars, ListingInv, ReqShape, Counted, WithinCap, Buyers, L!Overrun, ReadIsDraft, L!BatchesAddUp
<1>12. ASSUME NEW r \in Requests, NEW p, NEW locales,
              L!TranslateFor(r, p, locales) \/ L!metadata_translate(r, p, locales)
       PROVE  ListingInv'
  BY <1>1, <1>12 DEF L!TranslateFor, L!metadata_translate
<1>13. ASSUME NEW r \in Requests, NEW p, NEW t, NEW source, L!Localize(r, p, t, source)
       PROVE  ListingInv'
  BY <1>1, <1>13 DEF L!Localize
<1>14. ASSUME NEW r \in Requests,
              \/ L!Brainstorm(r) \/ (\E refresh \in BOOLEAN : L!listing_brainstorm(r, refresh))
              \/ L!brainstorm_new_apps(r) \/ L!Propose(r)
       PROVE  ListingInv'
  BY <1>1, <1>14 DEF L!Brainstorm, L!listing_brainstorm, L!brainstorm_new_apps, L!Propose
<1> QED
  BY <1>2, <1>4, <1>5, <1>6, <1>7, <1>8, <1>9, <1>10, <1>11, <1>12, <1>13, <1>14 DEF L!Next

\* ListingInv holds of the proposals, drafts and requests of services/listing: the state
\* of a request fits its step, and whoever is about to insert has counted under the lock,
\* where there is one.
THEOREM ListingInductive == ASSUME ListingSetting PROVE L!Spec => []ListingInv
<1>1. L!Init => ListingInv
  BY ListingInitially
<1>2. ListingInv /\ [L!Next]_(L!vars) => ListingInv'
  BY ListingKeeps
<1> QED
  BY <1>1, <1>2, PTL DEF L!Spec

-----------------------------------------------------------------------------
(***************************************************************************)
(* CustomPages: pages made from an upload, and the keywords of a page.     *)
(***************************************************************************)

PageSetting == Files \in Seq(Range(Files))

FileNames == Range(Files) \cup {P!Single}
PageRec == [there: BOOLEAN, state: {"editable", "review"}, visible: BOOLEAN,
            locs: SUBSET (PageLocales \cup {Seed}), files: SUBSET FileNames,
            keywords: SUBSET Keywords, asked: SUBSET FileNames]

Making == {"visible", "version", "upload", "cleanup"}
KeyingPhases == {"current", "offered", "link", "unlink", "back"}

PagesOK == pages \in Seq(PageRec)

\* The state of a request has the fields its step reads, and names a page.
PageRunShape ==
  /\ DOMAIN pageRun = Requests
  /\ \A r \in Requests :
       /\ "pc" \in DOMAIN pageRun[r]
       /\ pageRun[r].pc \in {"idle"} \cup Making \cup KeyingPhases
       /\ pageRun[r].pc = "idle" => pageRun[r] = P!Idle
       /\ pageRun[r].pc \in Making =>
            /\ {"page", "todo"} \subseteq DOMAIN pageRun[r]
            /\ pageRun[r].page \in DOMAIN pages
            /\ pageRun[r].todo \in Seq(FileNames)
       /\ pageRun[r].pc \in KeyingPhases =>
            /\ {"page", "wanted", "old", "add", "remove", "alone"} \subseteq DOMAIN pageRun[r]
            /\ pageRun[r].page \in DOMAIN pages
            /\ pageRun[r].wanted \in SUBSET Keywords /\ pageRun[r].add \in SUBSET Keywords
            /\ pageRun[r].alone \in BOOLEAN

\* What has not been uploaded is still to do.
Uploaded ==
  \A r \in Requests : pageRun[r].pc \in Making =>
    pages[pageRun[r].page].asked \subseteq pages[pageRun[r].page].files \cup Range(pageRun[r].todo)

\* What a request that runs alone has read and planned, step by step.
AloneOne(r, now) ==
  /\ pageRun[r].pc \in {"offered", "link"} => now = pageRun[r].old
  /\ pageRun[r].pc \in {"link", "unlink"} =>
       /\ pageRun[r].add = pageRun[r].wanted \ pageRun[r].old
       /\ pageRun[r].remove = pageRun[r].old \ pageRun[r].wanted
  /\ pageRun[r].pc = "unlink" => now = pageRun[r].old \cup pageRun[r].wanted
  /\ pageRun[r].pc = "back" => now = pageRun[r].wanted

AloneKeeps ==
  \A r \in Requests : pageRun[r].pc \in KeyingPhases /\ pageRun[r].alone =>
    /\ \A s \in Requests \ {r} : pageRun[s].pc \notin KeyingPhases
    /\ AloneOne(r, pages[pageRun[r].page].keywords)

PageInv == PagesOK /\ PageRunShape /\ Uploaded /\ AloneKeeps

LEMMA HeadAndTail ==
  ASSUME NEW S, NEW s \in Seq(S), s # <<>>
  PROVE  /\ Head(s) \in S /\ Tail(s) \in Seq(S)
         /\ Range(s) = {Head(s)} \cup Range(Tail(s))
<1>1. /\ Len(s) \in Nat /\ Len(s) > 0 /\ DOMAIN s = 1..Len(s)
      /\ \A i \in 1..Len(s) : s[i] \in S
  BY EmptySeq, LenProperties
<1>2. /\ Head(s) = s[1] /\ Tail(s) \in Seq(S) /\ Len(Tail(s)) = Len(s) - 1
      /\ \A i \in 1..Len(s) - 1 : Tail(s)[i] = s[i + 1]
  BY HeadTailProperties, <1>1
<1>3. DOMAIN Tail(s) = 1..Len(s) - 1
  BY <1>1, <1>2, LenProperties
<1>4. Range(s) \subseteq {Head(s)} \cup Range(Tail(s))
  <2> SUFFICES ASSUME NEW i \in 1..Len(s), i # 1 PROVE s[i] \in Range(Tail(s))
    BY <1>1, <1>2 DEF Range
  <2>1. i - 1 \in 1..Len(s) - 1 /\ (i - 1) + 1 = i
    BY <1>1
  <2>2. Tail(s)[i - 1] = s[i]
    BY <1>2, <2>1
  <2> QED
    BY <1>3, <2>1, <2>2 DEF Range
<1>5. {Head(s)} \cup Range(Tail(s)) \subseteq Range(s)
  <2>1. Head(s) \in Range(s)
    BY <1>1, <1>2 DEF Range
  <2>2. ASSUME NEW i \in 1..Len(s) - 1 PROVE Tail(s)[i] \in Range(s)
    <3>1. i + 1 \in 1..Len(s)
      BY <1>1
    <3> QED
      BY <1>1, <1>2, <3>1 DEF Range
  <2> QED
    BY <1>3, <2>1, <2>2 DEF Range
<1> QED
  BY <1>1, <1>2, <1>4, <1>5

LEMMA PagesInitially == P!Init => PageInv
<1> SUFFICES ASSUME P!Init PROVE PageInv
  OBVIOUS
<1>1. PICK old \in SUBSET Keywords :
        pages = <<[there |-> TRUE, state |-> "editable", visible |-> TRUE, locs |-> {Seed},
                   files |-> {}, keywords |-> old, asked |-> {}]>>
  BY DEF P!Init
<1>2. PagesOK
  <2>1. [there |-> TRUE, state |-> "editable", visible |-> TRUE, locs |-> {Seed},
                   files |-> {}, keywords |-> old, asked |-> {}] \in PageRec
    BY DEF PageRec
  <2> QED
    BY <1>1, <2>1 DEF PagesOK
<1>3. PageRunShape /\ Uploaded /\ AloneKeeps
  BY DEF P!Init, P!Idle, PageRunShape, Uploaded, AloneKeeps, Making, KeyingPhases
<1> QED
  BY <1>2, <1>3 DEF PageInv

\* What every step but linking does to the pages there were.
PagesKept ==
  \A p \in DOMAIN pages : /\ p \in DOMAIN pages'
                          /\ pages'[p].keywords = pages[p].keywords
                          /\ pages'[p].asked = pages[p].asked
                          /\ pages[p].files \subseteq pages'[p].files

\* A page changes in what a step may change of it.
LEMMA PageChanged ==
  ASSUME PagesOK, NEW p \in DOMAIN pages, NEW page \in PageRec,
         pages' = [pages EXCEPT ![p] = page]
  PROVE  PagesOK' /\ DOMAIN pages' = DOMAIN pages
         /\ pages'[p] = page /\ \A q \in DOMAIN pages \ {p} : pages'[q] = pages[q]
<1>1. DOMAIN pages = 1..Len(pages) /\ Len(pages) \in Nat
  BY LenProperties DEF PagesOK
<1>2. pages' \in Seq(PageRec)
  BY <1>1, ExceptSeq DEF PagesOK
<1> QED
  BY <1>2 DEF PagesOK

\* A step that leaves the requests with keywords as they are.
LEMMA PagesQuiet ==
  ASSUME PageInv, PagesOK', PagesKept, PageRunShape', Uploaded',
         \A s \in Requests : pageRun'[s].pc \in KeyingPhases => pageRun'[s] = pageRun[s]
  PROVE  PageInv'
<1>1. AloneKeeps'
  <2> SUFFICES ASSUME NEW r \in Requests, pageRun'[r].pc \in KeyingPhases, pageRun'[r].alone
      PROVE  /\ \A s \in Requests \ {r} : pageRun'[s].pc \notin KeyingPhases
             /\ AloneOne(r, pages[pageRun[r].page].keywords)'
    BY DEF AloneKeeps
  <2>1. pageRun'[r] = pageRun[r]
    OBVIOUS
  <2>2. \A s \in Requests \ {r} : pageRun'[s].pc \notin KeyingPhases
    BY <2>1 DEF PageInv, AloneKeeps
  <2>3. pages'[pageRun'[r].page].keywords = pages[pageRun[r].page].keywords
    BY <2>1 DEF PageInv, PageRunShape, PagesKept
  <2>4. AloneOne(r, pages[pageRun[r].page].keywords)
    BY <2>1 DEF PageInv, AloneKeeps
  <2> QED
    BY <2>1, <2>2, <2>3, <2>4 DEF AloneOne
<1> QED
  BY <1>1 DEF PageInv

\* A step of a request that stops working on its page, or goes on with it.
LEMMA MakerMoves ==
  ASSUME PageInv, NEW r \in Requests, NEW rec, pageRun' = [pageRun EXCEPT ![r] = rec],
         PagesOK', PagesKept,
         \/ rec = P!Idle
         \/ /\ pageRun[r].pc \in Making /\ rec = [pageRun[r] EXCEPT !.pc = rec.pc]
            /\ rec.pc \in Making
  PROVE  PageInv'
<1> USE DEF PageInv, P!Idle
<1>1. /\ DOMAIN pageRun' = Requests /\ pageRun'[r] = rec
      /\ \A s \in Requests \ {r} : pageRun'[s] = pageRun[s]
  BY DEF PageRunShape
<1>2. PageRunShape'
  <2>1. ASSUME NEW s \in Requests, s # r, pageRun[s].pc \in Making \cup KeyingPhases
        PROVE  pageRun'[s].page \in DOMAIN pages'
    BY <1>1, <2>1 DEF PageRunShape, PagesKept
  <2>2. CASE rec = P!Idle
    BY <1>1, <2>1, <2>2 DEF PageRunShape, Making, KeyingPhases
  <2>3. CASE rec # P!Idle
    <3>1. /\ "pc" \in DOMAIN rec /\ {"page", "todo"} \subseteq DOMAIN rec
          /\ rec.page = pageRun[r].page /\ rec.todo = pageRun[r].todo
          /\ rec.pc \in Making
      BY <2>3 DEF PageRunShape
    <3>2. rec.page \in DOMAIN pages'
      BY <2>3, <3>1 DEF PageRunShape, PagesKept
    <3>3. rec.pc # "idle" /\ rec.pc \notin KeyingPhases
      BY <3>1 DEF Making, KeyingPhases
    <3>4. rec.todo \in Seq(FileNames)
      BY <2>3, <3>1 DEF PageRunShape
    <3> QED
      BY <1>1, <2>1, <3>1, <3>2, <3>3, <3>4 DEF PageRunShape
  <2> QED
    BY <2>2, <2>3
<1>3. Uploaded'
  <2> SUFFICES ASSUME NEW s \in Requests, pageRun'[s].pc \in Making
      PROVE  pages'[pageRun'[s].page].asked \subseteq pages'[pageRun'[s].page].files
                                               \cup Range(pageRun'[s].todo)
    BY DEF Uploaded
  <2>1. /\ pageRun[s].pc \in Making
        /\ pageRun'[s].todo = pageRun[s].todo /\ pageRun'[s].page = pageRun[s].page
    BY <1>1 DEF PageRunShape, Making
  <2> QED
    BY <2>1 DEF Uploaded, PagesKept, PageRunShape
<1>4. ASSUME NEW s \in Requests, pageRun'[s].pc \in KeyingPhases PROVE pageRun'[s] = pageRun[s]
  BY <1>1, <1>4 DEF Making, KeyingPhases
<1> QED
  BY <1>2, <1>3, <1>4, PagesQuiet

\* A step that moves no request.
LEMMA PagesOnly ==
  ASSUME PageInv, PagesOK', PagesKept, UNCHANGED pageRun PROVE PageInv'
<1>1. PageRunShape'
  BY DEF PageInv, PageRunShape, PagesKept
<1>2. Uploaded'
  BY DEF PageInv, PageRunShape, Uploaded, PagesKept
<1> QED
  BY <1>1, <1>2, PagesQuiet

\* One page changed, and not in its keywords, and it lost no file.
LEMMA KeptButOne ==
  ASSUME PagesOK, NEW p \in DOMAIN pages, NEW page \in PageRec,
         pages' = [pages EXCEPT ![p] = page],
         page.keywords = pages[p].keywords, page.asked = pages[p].asked,
         pages[p].files \subseteq page.files
  PROVE  PagesOK' /\ PagesKept
  BY PageChanged DEF PagesKept

\* What each step makes of a page is a page.
LEMMA PageFields ==
  ASSUME PagesOK, NEW p \in DOMAIN pages
  PROVE  /\ pages[p] \in PageRec
         /\ [pages[p] EXCEPT !.visible = TRUE] \in PageRec
         /\ [pages[p] EXCEPT !.visible = ~pages[p].visible] \in PageRec
         /\ [pages[p] EXCEPT !.there = FALSE] \in PageRec
         /\ \A l \in PageLocales : [pages[p] EXCEPT !.locs = pages[p].locs \cup {l}] \in PageRec
         /\ \A f \in FileNames : [pages[p] EXCEPT !.files = pages[p].files \cup {f}] \in PageRec
         /\ \A s \in {"editable", "review"} : [pages[p] EXCEPT !.state = s] \in PageRec
         /\ \A ks \in SUBSET Keywords : [pages[p] EXCEPT !.keywords = ks] \in PageRec
<1>1. pages[p] \in PageRec
  BY ElementOfSeq, LenProperties DEF PagesOK
<1> HIDE DEF FileNames
<1> QED
  BY <1>1 DEF PageRec

LEMMA CreateKeeps ==
  ASSUME PageSetting, PageInv, NEW r \in Requests, NEW files \in Seq(FileNames),
         Range(files) \subseteq FileNames, P!CreatePage(r, files)
  PROVE  PageInv'
<1> USE DEF PageInv, P!Idle
<1> DEFINE new == [there |-> TRUE, state |-> "editable", visible |-> FALSE,
                   locs |-> {Seed}, files |-> {}, keywords |-> {}, asked |-> Range(files)]
           rec == [pc |-> "visible", page |-> Len(pages) + 1, todo |-> files]
<1>1. pages' = Append(pages, new)
  BY DEF P!CreatePage, P!Range, Range
<1>2. new \in PageRec
  BY DEF PageRec
<1> HIDE DEF new
<1>3. /\ PagesOK' /\ Len(pages) \in Nat /\ DOMAIN pages = 1..Len(pages)
      /\ Len(pages') = Len(pages) + 1 /\ DOMAIN pages' = 1..(Len(pages) + 1)
      /\ \A p \in 1..Len(pages) : pages'[p] = pages[p]
  <2>1. pages' \in Seq(PageRec) /\ Len(pages') = Len(pages) + 1
        /\ \A p \in 1..Len(pages) : pages'[p] = pages[p]
    BY <1>1, <1>2, AppendProperties DEF PagesOK
  <2>2. Len(pages) \in Nat /\ DOMAIN pages = 1..Len(pages) /\ DOMAIN pages' = 1..Len(pages')
    BY <2>1, LenProperties DEF PagesOK
  <2> QED
    BY <2>1, <2>2 DEF PagesOK
<1>4. PagesKept
  BY <1>3 DEF PagesKept
<1>5. CASE pageRun' = [pageRun EXCEPT ![r] = P!Idle]
  BY <1>3, <1>4, <1>5, MakerMoves
<1>6. CASE pageRun' = [pageRun EXCEPT ![r] = rec]
  <2>1. /\ DOMAIN pageRun' = Requests /\ pageRun'[r] = rec
        /\ \A s \in Requests \ {r} : pageRun'[s] = pageRun[s]
    BY <1>6 DEF PageRunShape
  <2>2. rec.page \in DOMAIN pages' /\ rec.todo = files /\ rec.pc = "visible"
        /\ {"pc", "page", "todo"} \subseteq DOMAIN rec
    BY <1>3
  <2> HIDE DEF rec
  <2>3. PageRunShape'
    BY <1>3, <2>1, <2>2 DEF PageRunShape, Making, KeyingPhases
  <2>a. pages'[rec.page].asked = Range(files)
    BY <1>1, <1>3, AppendProperties DEF PagesOK, rec, new
  <2>4. Uploaded'
    BY <1>4, <2>a, <2>1, <2>2 DEF Uploaded, PageRunShape, PagesKept
  <2>5. ASSUME NEW s \in Requests, pageRun'[s].pc \in KeyingPhases PROVE pageRun'[s] = pageRun[s]
    BY <2>1, <2>2, <2>5 DEF KeyingPhases
  <2> QED
    BY <1>3, <1>4, <2>3, <2>4, <2>5, PagesQuiet
<1> QED
  BY <1>5, <1>6 DEF P!CreatePage, P!To

LEMMA MakingKeeps ==
  ASSUME PageInv, NEW r \in Requests,
         P!SetVisible(r) \/ P!ResolveVersion(r) \/ P!UploadFile(r) \/ P!Cleanup(r)
  PROVE  PageInv'
<1> DEFINE p == pageRun[r].page
<1> USE DEF PageInv, P!To, P!Step, P!Fails
<1>0. /\ pageRun[r].pc \in Making /\ p \in DOMAIN pages
      /\ pageRun[r].todo \in Seq(FileNames)
      /\ {"pc", "page", "todo"} \subseteq DOMAIN pageRun[r]
  BY DEF P!SetVisible, P!ResolveVersion, P!UploadFile, P!Cleanup, PageRunShape, Making
<1>a. pages[p] \in PageRec
  BY <1>0, PageFields
<1>b. UNCHANGED pages => PagesOK' /\ PagesKept
  BY DEF PagesOK, PagesKept
<1>1. CASE P!SetVisible(r)
  <2>1. PagesOK' /\ PagesKept
    <3>1. CASE pages' = [pages EXCEPT ![p].visible = TRUE]
      <4> DEFINE page == [pages[p] EXCEPT !.visible = TRUE]
      <4>1. page \in PageRec /\ page.keywords = pages[p].keywords /\ page.files = pages[p].files
            /\ page.asked = pages[p].asked
        BY ZenonT(120), <1>0, <1>a, PageFields DEF PageRec
      <4>2. pages' = [pages EXCEPT ![p] = page]
        BY <3>1
      <4> HIDE DEF page
      <4> QED
        BY <1>0, <4>1, <4>2, KeptButOne
    <3> QED
      BY <1>1, <1>b, <3>1 DEF P!SetVisible
  <2>2. pageRun' = [pageRun EXCEPT ![r] = P!Idle]
        \/ pageRun' = [pageRun EXCEPT ![r] = [pageRun[r] EXCEPT !.pc = "version"]]
    BY <1>1 DEF P!SetVisible
  <2>3. [pageRun[r] EXCEPT !.pc = "version"].pc = "version" /\ "version" \in Making
    BY <1>0 DEF Making
  <2> QED
    BY <1>0, <2>1, <2>2, <2>3, MakerMoves
<1>2. CASE P!ResolveVersion(r)
  <2>1. \E pc \in {"upload", "cleanup"} :
          pageRun' = [pageRun EXCEPT ![r] = [pageRun[r] EXCEPT !.pc = pc]]
    BY <1>2 DEF P!ResolveVersion
  <2>2. \A pc \in {"upload", "cleanup"} :
          [pageRun[r] EXCEPT !.pc = pc].pc = pc /\ pc \in Making
    BY <1>0 DEF Making
  <2>3. UNCHANGED pages
    BY <1>2 DEF P!ResolveVersion
  <2> QED
    BY <1>0, <1>b, <2>1, <2>2, <2>3, MakerMoves
<1>3. CASE P!Cleanup(r)
  <2>1. PagesOK' /\ PagesKept
    <3>1. CASE pages' = [pages EXCEPT ![p].there = FALSE]
      <4> DEFINE page == [pages[p] EXCEPT !.there = FALSE]
      <4>1. page \in PageRec /\ page.keywords = pages[p].keywords /\ page.files = pages[p].files
            /\ page.asked = pages[p].asked
        BY ZenonT(120), <1>0, <1>a, PageFields DEF PageRec
      <4>2. pages' = [pages EXCEPT ![p] = page]
        BY <3>1
      <4> HIDE DEF page
      <4> QED
        BY <1>0, <4>1, <4>2, KeptButOne
    <3> QED
      BY <1>3, <1>b, <3>1 DEF P!Cleanup
  <2>2. pageRun' = [pageRun EXCEPT ![r] = P!Idle]
    BY <1>3 DEF P!Cleanup
  <2> QED
    BY <2>1, <2>2, MakerMoves
<1>4. CASE P!UploadFile(r)
  <2>1. CASE UNCHANGED pages /\ pageRun' = [pageRun EXCEPT ![r] = P!Idle]
    BY <1>b, <2>1, MakerMoves
  <2>2. CASE UNCHANGED pages /\ pageRun' = [pageRun EXCEPT ![r] = [pageRun[r] EXCEPT !.pc = "cleanup"]]
    <3>1. [pageRun[r] EXCEPT !.pc = "cleanup"].pc = "cleanup" /\ "cleanup" \in Making
      BY <1>0 DEF Making
    <3> QED
      BY <1>0, <1>b, <2>2, <3>1, MakerMoves
  <2>3. ASSUME pageRun[r].todo # <<>>,
               pages' = [pages EXCEPT ![p].files = @ \cup {Head(pageRun[r].todo)}]
        PROVE  /\ PagesOK' /\ PagesKept
               /\ pages'[p].files = pages[p].files \cup {Head(pageRun[r].todo)}
               /\ pages'[p].asked = pages[p].asked
               /\ Tail(pageRun[r].todo) \in Seq(FileNames)
               /\ Range(pageRun[r].todo) = {Head(pageRun[r].todo)} \cup Range(Tail(pageRun[r].todo))
    <3> DEFINE f == Head(pageRun[r].todo)
               page == [pages[p] EXCEPT !.files = pages[p].files \cup {f}]
    <3>1. /\ f \in FileNames /\ Tail(pageRun[r].todo) \in Seq(FileNames)
          /\ Range(pageRun[r].todo) = {f} \cup Range(Tail(pageRun[r].todo))
      BY <1>0, <2>3, HeadAndTail
    <3> HIDE DEF f
    <3>2. page \in PageRec /\ page.keywords = pages[p].keywords
          /\ page.files = pages[p].files \cup {f} /\ page.asked = pages[p].asked
      BY ZenonT(120), <1>0, <1>a, <3>1, PageFields DEF PageRec
    <3>3. pages' = [pages EXCEPT ![p] = page]
      BY <2>3 DEF f
    <3> HIDE DEF page
    <3>4. PagesOK' /\ PagesKept /\ pages'[p] = page
      BY <1>0, <3>2, <3>3, KeptButOne, PageChanged
    <3> QED
      BY <3>1, <3>2, <3>4 DEF f
  <2>4. CASE /\ pageRun[r].todo # <<>>
             /\ pages' = [pages EXCEPT ![p].files = @ \cup {Head(pageRun[r].todo)}]
             /\ pageRun' = [pageRun EXCEPT ![r] = [pageRun[r] EXCEPT !.pc = "cleanup"]]
    <3>1. [pageRun[r] EXCEPT !.pc = "cleanup"].pc = "cleanup" /\ "cleanup" \in Making
      BY <1>0 DEF Making
    <3> QED
      BY <1>0, <2>3, <2>4, <3>1, MakerMoves
  <2>5. CASE /\ pageRun[r].todo # <<>>
             /\ pages' = [pages EXCEPT ![p].files = @ \cup {Head(pageRun[r].todo)}]
             /\ pageRun' = [pageRun EXCEPT ![r] = [pageRun[r] EXCEPT !.todo = Tail(@)]]
    <3> DEFINE rec == [pageRun[r] EXCEPT !.todo = Tail(pageRun[r].todo)]
    <3>5. /\ rec.pc = pageRun[r].pc /\ rec.page = p
          /\ rec.todo = Tail(pageRun[r].todo) /\ {"pc", "page", "todo"} \subseteq DOMAIN rec
      BY <1>0
    <3>6. /\ DOMAIN pageRun' = Requests /\ pageRun'[r] = rec
          /\ \A s \in Requests \ {r} : pageRun'[s] = pageRun[s]
      BY <2>5 DEF PageRunShape
    <3> HIDE DEF rec
    <3>7. PageRunShape'
      BY SMTT(60), <1>0, <2>3, <2>5, <3>5, <3>6 DEF PageRunShape, PagesKept, Making, KeyingPhases
    <3>8. Uploaded'
      <4> SUFFICES ASSUME NEW s \in Requests, pageRun'[s].pc \in Making
          PROVE  pages'[pageRun'[s].page].asked \subseteq pages'[pageRun'[s].page].files
                                                   \cup Range(pageRun'[s].todo)
        BY DEF Uploaded
      <4>1. CASE s = r
        BY <1>0, <2>3, <2>5, <3>5, <3>6, <4>1 DEF Uploaded
      <4>2. CASE s # r
        BY <2>3, <2>5, <3>6, <4>2 DEF Uploaded, PageRunShape, PagesKept
      <4> QED
        BY <4>1, <4>2
    <3>9. ASSUME NEW s \in Requests, pageRun'[s].pc \in KeyingPhases PROVE pageRun'[s] = pageRun[s]
      BY <1>0, <3>5, <3>6, <3>9 DEF Making, KeyingPhases
    <3> QED
      BY <2>3, <2>5, <3>7, <3>8, <3>9, PagesQuiet
  <2> QED
    BY <1>4, <2>1, <2>2, <2>4, <2>5 DEF P!UploadFile
<1> QED
  BY <1>1, <1>2, <1>3, <1>4

LEMMA ChangesKeep ==
  ASSUME PageInv, NEW p \in P!There,
         \/ P!cpp_delete(p) \/ P!cpp_update(p) \/ P!cpp_upload_screenshot(p)
         \/ \E l \in PageLocales : P!cpp_ensure_localization(p, l)
  PROVE  PageInv'
<1> USE DEF PageInv, P!Changes
<1>1. p \in DOMAIN pages
  BY DEF P!There
<1>2. pages[p] \in PageRec
  BY <1>1, PageFields
<1>3. \E page \in PageRec : /\ pages' = [pages EXCEPT ![p] = page]
                            /\ page.keywords = pages[p].keywords /\ page.asked = pages[p].asked
                            /\ pages[p].files \subseteq page.files
  <2>1. CASE P!cpp_delete(p)
    <3>1. /\ [pages[p] EXCEPT !.there = FALSE] \in PageRec
          /\ pages' = [pages EXCEPT ![p] = [pages[p] EXCEPT !.there = FALSE]]
      BY <1>1, <2>1, PageFields DEF P!cpp_delete
    <3>2. /\ [pages[p] EXCEPT !.there = FALSE].keywords = pages[p].keywords
          /\ [pages[p] EXCEPT !.there = FALSE].files = pages[p].files
          /\ [pages[p] EXCEPT !.there = FALSE].asked = pages[p].asked
      BY <1>2 DEF PageRec
    <3> QED
      BY <3>1, <3>2
  <2>2. CASE P!cpp_update(p)
    <3>1. /\ [pages[p] EXCEPT !.visible = ~pages[p].visible] \in PageRec
          /\ pages' = [pages EXCEPT ![p] = [pages[p] EXCEPT !.visible = ~pages[p].visible]]
      BY <1>1, <2>2, PageFields DEF P!cpp_update
    <3>2. /\ [pages[p] EXCEPT !.visible = ~pages[p].visible].keywords = pages[p].keywords
          /\ [pages[p] EXCEPT !.visible = ~pages[p].visible].files = pages[p].files
          /\ [pages[p] EXCEPT !.visible = ~pages[p].visible].asked = pages[p].asked
      BY <1>2 DEF PageRec
    <3> QED
      BY <3>1, <3>2
  <2>3. CASE P!cpp_upload_screenshot(p)
    <3>1. P!Single \in FileNames
      BY DEF FileNames
    <3>2. /\ [pages[p] EXCEPT !.files = pages[p].files \cup {P!Single}] \in PageRec
          /\ pages' = [pages EXCEPT ![p] = [pages[p] EXCEPT !.files = pages[p].files \cup {P!Single}]]
      BY <1>1, <2>3, <3>1, PageFields DEF P!cpp_upload_screenshot
    <3>3. /\ [pages[p] EXCEPT !.files = pages[p].files \cup {P!Single}].keywords = pages[p].keywords
          /\ pages[p].files \subseteq [pages[p] EXCEPT !.files = pages[p].files \cup {P!Single}].files
          /\ [pages[p] EXCEPT !.files = pages[p].files \cup {P!Single}].asked = pages[p].asked
      BY <1>2 DEF PageRec
    <3> QED
      BY <3>2, <3>3
  <2>4. ASSUME NEW l \in PageLocales, P!cpp_ensure_localization(p, l)
        PROVE  \E page \in PageRec : /\ pages' = [pages EXCEPT ![p] = page]
                                     /\ page.keywords = pages[p].keywords /\ page.asked = pages[p].asked
                                     /\ pages[p].files \subseteq page.files
    <3>1. /\ [pages[p] EXCEPT !.locs = pages[p].locs \cup {l}] \in PageRec
          /\ pages' = [pages EXCEPT ![p] = [pages[p] EXCEPT !.locs = pages[p].locs \cup {l}]]
      BY <1>1, <2>4, PageFields DEF P!cpp_ensure_localization
    <3>2. /\ [pages[p] EXCEPT !.locs = pages[p].locs \cup {l}].keywords = pages[p].keywords
          /\ [pages[p] EXCEPT !.locs = pages[p].locs \cup {l}].files = pages[p].files
          /\ [pages[p] EXCEPT !.locs = pages[p].locs \cup {l}].asked = pages[p].asked
      BY <1>2 DEF PageRec
    <3> QED
      BY <3>1, <3>2
  <2> QED
    BY <2>1, <2>2, <2>3, <2>4
<1>4. UNCHANGED pageRun
  BY DEF P!cpp_delete, P!cpp_update, P!cpp_upload_screenshot, P!cpp_ensure_localization
<1>5. PagesOK' /\ PagesKept
  BY <1>1, <1>3, KeptButOne
<1> QED
  BY <1>4, <1>5, PagesOnly

LEMMA ReviewKeeps ==
  ASSUME PageInv, P!Review \/ P!OfferChanges PROVE PageInv'
<1> USE DEF PageInv
<1>1. CASE P!Review
  <2>1. PICK p \in P!There : pages' = [pages EXCEPT ![p].state =
                               IF @ = "editable" THEN "review" ELSE "editable"]
    BY <1>1 DEF P!Review
  <2> DEFINE s == IF pages[p].state = "editable" THEN "review" ELSE "editable"
  <2>2. p \in DOMAIN pages /\ s \in {"editable", "review"}
    BY DEF P!There
  <2>3. pages[p] \in PageRec /\ [pages[p] EXCEPT !.state = s] \in PageRec
    BY <2>2, PageFields
  <2>4. pages' = [pages EXCEPT ![p] = [pages[p] EXCEPT !.state = s]]
    BY <2>1
  <2>5. /\ [pages[p] EXCEPT !.state = s].keywords = pages[p].keywords
        /\ [pages[p] EXCEPT !.state = s].files = pages[p].files
        /\ [pages[p] EXCEPT !.state = s].asked = pages[p].asked
    BY <2>3 DEF PageRec
  <2>6. PagesOK' /\ PagesKept
    BY <2>2, <2>3, <2>4, <2>5, KeptButOne
  <2> QED
    BY <1>1, <2>6, PagesOnly DEF P!Review
<1>2. CASE P!OfferChanges
  BY <1>2, PagesOnly DEF P!OfferChanges, PagesOK, PagesKept
<1> QED
  BY <1>1, <1>2

\* A request with keywords takes a step that is not its last: it goes on to a state of
\* the same shape, and what is known of it if it runs alone is known after the step.
LEMMA KeyerMoves ==
  ASSUME PageInv, NEW r \in Requests, pageRun[r].pc \in KeyingPhases, NEW rec,
         pageRun' = [pageRun EXCEPT ![r] = rec],
         PagesOK', DOMAIN pages' = DOMAIN pages,
         \A p \in DOMAIN pages : pages'[p].asked = pages[p].asked /\ pages[p].files \subseteq pages'[p].files,
         {"pc", "page", "wanted", "old", "add", "remove", "alone"} \subseteq DOMAIN rec,
         rec.pc \in KeyingPhases, rec.page = pageRun[r].page, rec.wanted = pageRun[r].wanted,
         rec.alone = pageRun[r].alone, rec.add \in SUBSET Keywords,
         rec.alone => AloneOne(r, pages[pageRun[r].page].keywords)',
         \A p \in DOMAIN pages : p = rec.page \/ pages'[p].keywords = pages[p].keywords
  PROVE  PageInv'
<1> USE DEF PageInv
<1>1. /\ DOMAIN pageRun' = Requests /\ pageRun'[r] = rec
      /\ \A s \in Requests \ {r} : pageRun'[s] = pageRun[s]
  BY DEF PageRunShape
<1>2. rec.pc # "idle" /\ rec.pc \notin Making
  BY DEF Making, KeyingPhases
<1>3. PageRunShape'
  BY <1>1, <1>2 DEF PageRunShape
<1>4. Uploaded'
  <2> SUFFICES ASSUME NEW s \in Requests, pageRun'[s].pc \in Making
      PROVE  pages'[pageRun'[s].page].asked \subseteq pages'[pageRun'[s].page].files
                                               \cup Range(pageRun'[s].todo)
    BY DEF Uploaded
  <2>1. pageRun'[s] = pageRun[s]
    BY <1>1, <1>2
  <2> QED
    BY <2>1 DEF Uploaded, PageRunShape
<1>5. AloneKeeps'
  <2> SUFFICES ASSUME NEW s \in Requests, pageRun'[s].pc \in KeyingPhases, pageRun'[s].alone
      PROVE  /\ \A x \in Requests \ {s} : pageRun'[x].pc \notin KeyingPhases
             /\ AloneOne(s, pages[pageRun[s].page].keywords)'
    BY DEF AloneKeeps
  <2>1. CASE s = r
    BY <1>1, <2>1 DEF AloneKeeps
  <2>2. CASE s # r
    <3>1. pageRun[s].pc \in KeyingPhases /\ pageRun[s].alone
      BY <1>1, <2>2
    <3>2. pageRun[r].pc \notin KeyingPhases
      BY <2>2, <3>1 DEF AloneKeeps
    <3> QED
      BY <3>2
  <2> QED
    BY <2>1, <2>2
<1> QED
  BY <1>3, <1>4, <1>5

LEMMA KeyingKeeps ==
  ASSUME PageInv, NEW r \in Requests,
         P!ReadCurrent(r) \/ P!ReadOffered(r) \/ P!Link(r) \/ P!Unlink(r) \/ P!ReadBack(r)
  PROVE  PageInv'
<1> DEFINE p == pageRun[r].page
           now == pages[p].keywords
<1> USE DEF PageInv, P!To, P!Step
<1>0. /\ pageRun[r].pc \in KeyingPhases /\ p \in DOMAIN pages /\ pages[p] \in PageRec
      /\ {"pc", "page", "wanted", "old", "add", "remove", "alone"} \subseteq DOMAIN pageRun[r]
      /\ pageRun[r].wanted \in SUBSET Keywords /\ pageRun[r].add \in SUBSET Keywords
      /\ DOMAIN pageRun = Requests
  <2>1. pageRun[r].pc \in KeyingPhases
    BY DEF P!ReadCurrent, P!ReadOffered, P!Link, P!Unlink, P!ReadBack, KeyingPhases
  <2> QED
    BY <2>1, PageFields DEF PageRunShape
<1>a. UNCHANGED pages => PagesOK' /\ PagesKept
  BY DEF PagesOK, PagesKept
<1>b. pageRun[r].alone => AloneOne(r, now)
  BY <1>0 DEF AloneKeeps
<1>1. CASE P!ReadCurrent(r)
  <2> DEFINE rec == [pageRun[r] EXCEPT !.pc = "offered", !.old = now]
  <2>1. pageRun' = [pageRun EXCEPT ![r] = rec] /\ UNCHANGED pages
    BY <1>1 DEF P!ReadCurrent
  <2>2. /\ rec.pc = "offered" /\ rec.old = now /\ rec.page = p
        /\ rec.wanted = pageRun[r].wanted /\ rec.alone = pageRun[r].alone
        /\ rec.add = pageRun[r].add
        /\ {"pc", "page", "wanted", "old", "add", "remove", "alone"} \subseteq DOMAIN rec
    BY <1>0
  <2>3. pageRun'[r] = rec
    BY <1>0, <2>1
  <2> HIDE DEF rec
  <2>4. AloneOne(r, now)'
    BY <2>1, <2>2, <2>3 DEF AloneOne
  <2>5. "offered" \in KeyingPhases
    BY DEF KeyingPhases
  <2> QED
    BY <1>0, <1>a, <2>1, <2>2, <2>4, <2>5, KeyerMoves DEF PagesKept
<1>2. CASE P!ReadOffered(r)
  <2> DEFINE plan == P!Plan(pageRun[r].wanted, pageRun[r].old, offered)
  <2>1. CASE plan.error # {}
    BY <1>2, <1>a, <2>1, MakerMoves DEF P!ReadOffered
  <2>2. CASE plan.error = {}
    <3> DEFINE rec == [pageRun[r] EXCEPT !.pc = "link", !.add = plan.add, !.remove = plan.remove]
    <3>1. pageRun' = [pageRun EXCEPT ![r] = rec] /\ UNCHANGED pages /\ pageRun[r].pc = "offered"
      BY <1>2, <2>2 DEF P!ReadOffered
    <3>2. /\ plan.add = pageRun[r].wanted \ pageRun[r].old
          /\ plan.remove = pageRun[r].old \ pageRun[r].wanted
          /\ plan.add \in SUBSET Keywords
      BY <1>0, <2>2 DEF P!Plan
    <3> HIDE DEF plan
    <3>3. /\ rec.pc = "link" /\ rec.old = pageRun[r].old /\ rec.page = p
          /\ rec.wanted = pageRun[r].wanted /\ rec.alone = pageRun[r].alone
          /\ rec.add = plan.add /\ rec.remove = plan.remove
          /\ {"pc", "page", "wanted", "old", "add", "remove", "alone"} \subseteq DOMAIN rec
      BY <1>0
    <3>4. pageRun'[r] = rec
      BY <1>0, <3>1
    <3> HIDE DEF rec
    <3>5. rec.alone => AloneOne(r, now)'
      BY <1>b, <3>1, <3>2, <3>3, <3>4 DEF AloneOne
    <3>6. "link" \in KeyingPhases
      BY DEF KeyingPhases
    <3> QED
      BY ZenonT(120), <1>0, <1>a, <3>1, <3>2, <3>3, <3>5, <3>6, KeyerMoves DEF PagesKept
  <2> QED
    BY <2>1, <2>2
<1>3. ASSUME NEW ks \in SUBSET Keywords, NEW next \in {"unlink", "back"},
             pages' = [pages EXCEPT ![p] = [pages[p] EXCEPT !.keywords = ks]],
             \/ pageRun' = [pageRun EXCEPT ![r] = P!Idle]
             \/ pageRun' = [pageRun EXCEPT ![r] = [pageRun[r] EXCEPT !.pc = next]],
             pageRun[r].alone => ks = IF next = "unlink" THEN pageRun[r].old \cup pageRun[r].wanted
                                      ELSE pageRun[r].wanted,
             pageRun[r].alone => /\ pageRun[r].add = pageRun[r].wanted \ pageRun[r].old
                                 /\ pageRun[r].remove = pageRun[r].old \ pageRun[r].wanted
      PROVE  PageInv'
  <2> DEFINE page == [pages[p] EXCEPT !.keywords = ks]
  <2>1. page \in PageRec /\ page.keywords = ks /\ page.files = pages[p].files
        /\ page.asked = pages[p].asked
    BY ZenonT(120), <1>0, PageFields DEF PageRec
  <2>2. pages' = [pages EXCEPT ![p] = page]
    BY <1>3
  <2> HIDE DEF page
  <2>3. /\ PagesOK' /\ DOMAIN pages' = DOMAIN pages /\ pages'[p] = page
        /\ \A q \in DOMAIN pages \ {p} : pages'[q] = pages[q]
    BY <1>0, <2>1, <2>2, PageChanged
  <2>4. \A q \in DOMAIN pages : /\ pages'[q].asked = pages[q].asked
                                /\ pages[q].files \subseteq pages'[q].files
                                /\ q = p \/ pages'[q].keywords = pages[q].keywords
    BY <2>1, <2>3
  <2>5. CASE pageRun' = [pageRun EXCEPT ![r] = P!Idle]
    <3>1. /\ DOMAIN pageRun' = Requests /\ pageRun'[r] = P!Idle
          /\ \A s \in Requests \ {r} : pageRun'[s] = pageRun[s]
      BY <1>0, <2>5
    <3>2. P!Idle.pc = "idle" /\ "pc" \in DOMAIN P!Idle
      BY DEF P!Idle
    <3>3. "idle" \notin Making \cup KeyingPhases
      BY DEF Making, KeyingPhases
    <3>4. PageRunShape'
      BY <2>3, <3>1, <3>2, <3>3 DEF PageRunShape
    <3>5. Uploaded'
      <4> SUFFICES ASSUME NEW s \in Requests, pageRun'[s].pc \in Making
          PROVE  pages'[pageRun'[s].page].asked \subseteq pages'[pageRun'[s].page].files
                                                   \cup Range(pageRun'[s].todo)
        BY DEF Uploaded
      <4>1. pageRun'[s] = pageRun[s]
        BY <3>1, <3>2, <3>3
      <4> QED
        BY <2>4, <4>1 DEF Uploaded, PageRunShape
    <3>6. AloneKeeps'
      <4> SUFFICES ASSUME NEW s \in Requests, pageRun'[s].pc \in KeyingPhases, pageRun'[s].alone
          PROVE  FALSE
        BY DEF AloneKeeps
      <4>1. s # r /\ pageRun'[s] = pageRun[s]
        BY <3>1, <3>2, <3>3
      <4> QED
        BY <1>0, <4>1 DEF AloneKeeps
    <3> QED
      BY <2>3, <3>4, <3>5, <3>6
  <2>6. CASE pageRun' = [pageRun EXCEPT ![r] = [pageRun[r] EXCEPT !.pc = next]]
    <3> DEFINE rec == [pageRun[r] EXCEPT !.pc = next]
    <3>1. /\ rec.pc = next /\ rec.old = pageRun[r].old /\ rec.page = p
          /\ rec.wanted = pageRun[r].wanted /\ rec.alone = pageRun[r].alone
          /\ rec.add = pageRun[r].add /\ rec.remove = pageRun[r].remove
          /\ {"pc", "page", "wanted", "old", "add", "remove", "alone"} \subseteq DOMAIN rec
      BY <1>0
    <3>2. pageRun' = [pageRun EXCEPT ![r] = rec] /\ pageRun'[r] = rec
      BY <1>0, <2>6
    <3> HIDE DEF rec
    <3>3. rec.alone => AloneOne(r, now)'
      BY <1>3, <2>1, <2>3, <3>1, <3>2 DEF AloneOne
    <3>4. next \in KeyingPhases
      BY DEF KeyingPhases
    <3> QED
      BY ZenonT(120), <1>0, <2>3, <2>4, <3>1, <3>2, <3>3, <3>4, KeyerMoves
  <2> QED
    BY <1>3, <2>5, <2>6
<1>4. CASE P!Link(r)
  <2>1. CASE P!OpenToWrites(p)
    <3> DEFINE ks == now \cup pageRun[r].add
    <3>1. /\ pages' = [pages EXCEPT ![p] = [pages[p] EXCEPT !.keywords = ks]]
          /\ \/ pageRun' = [pageRun EXCEPT ![r] = P!Idle]
             \/ pageRun' = [pageRun EXCEPT ![r] = [pageRun[r] EXCEPT !.pc = "unlink"]]
          /\ pageRun[r].pc = "link"
      BY <1>4, <2>1 DEF P!Link
    <3>2. ks \in SUBSET Keywords
      BY <1>0 DEF PageRec
    <3>3. pageRun[r].alone => /\ ks = pageRun[r].old \cup pageRun[r].wanted
                              /\ pageRun[r].add = pageRun[r].wanted \ pageRun[r].old
                              /\ pageRun[r].remove = pageRun[r].old \ pageRun[r].wanted
      BY <1>b, <3>1 DEF AloneOne
    <3> HIDE DEF ks
    <3> QED
      BY <1>3, <3>1, <3>2, <3>3
  <2>2. CASE ~P!OpenToWrites(p)
    BY <1>4, <1>a, <2>2, MakerMoves DEF P!Link
  <2> QED
    BY <2>1, <2>2
<1>5. CASE P!Unlink(r)
  <2>1. CASE P!OpenToWrites(p)
    <3> DEFINE ks == now \ pageRun[r].remove
    <3>1. /\ pages' = [pages EXCEPT ![p] = [pages[p] EXCEPT !.keywords = ks]]
          /\ \/ pageRun' = [pageRun EXCEPT ![r] = P!Idle]
             \/ pageRun' = [pageRun EXCEPT ![r] = [pageRun[r] EXCEPT !.pc = "back"]]
          /\ pageRun[r].pc = "unlink"
      BY <1>5, <2>1 DEF P!Unlink
    <3>2. ks \in SUBSET Keywords
      BY <1>0 DEF PageRec
    <3>3. pageRun[r].alone => /\ ks = pageRun[r].wanted
                              /\ pageRun[r].add = pageRun[r].wanted \ pageRun[r].old
                              /\ pageRun[r].remove = pageRun[r].old \ pageRun[r].wanted
      BY <1>b, <3>1 DEF AloneOne
    <3> HIDE DEF ks
    <3> QED
      BY <1>3, <3>1, <3>2, <3>3
  <2>2. CASE ~P!OpenToWrites(p)
    BY <1>5, <1>a, <2>2, MakerMoves DEF P!Unlink
  <2> QED
    BY <2>1, <2>2
<1>6. CASE P!ReadBack(r)
  BY <1>6, <1>a, MakerMoves DEF P!ReadBack
<1> QED
  BY <1>1, <1>2, <1>4, <1>5, <1>6

\* A request to set keywords, the page being there: whoever else is at it no longer runs
\* alone, and it runs alone only if nobody else is.
LEMMA KeywordsBegin ==
  ASSUME PageInv, NEW r \in Requests, NEW p \in P!There, NEW wanted \in SUBSET Keywords,
         P!cpp_keywords_set(r, p, wanted)
  PROVE  PageInv'
<1> USE DEF PageInv
<1> DEFINE rec == [pc |-> "current", page |-> p, wanted |-> wanted, old |-> {},
                   add |-> {}, remove |-> {}, alone |-> \A t \in Requests : ~P!Keying(t)]
<1>0. pageRun[r] = P!Idle /\ UNCHANGED pages /\ p \in DOMAIN pages
  BY DEF P!cpp_keywords_set, P!There
<1>1. \A s \in Requests : P!Keying(s) <=> pageRun[s].pc \in KeyingPhases
  BY DEF P!Keying, KeyingPhases
<1>2. pageRun' = [s \in Requests |->
        IF s = r THEN rec
        ELSE IF P!Keying(s) THEN [pageRun[s] EXCEPT !.alone = FALSE] ELSE pageRun[s]]
  BY DEF P!cpp_keywords_set
<1>3. /\ rec.pc = "current" /\ rec.page = p /\ rec.wanted = wanted /\ rec.add = {}
      /\ rec.alone \in BOOLEAN
      /\ {"pc", "page", "wanted", "old", "add", "remove", "alone"} \subseteq DOMAIN rec
  OBVIOUS
<1>4. rec.alone => \A t \in Requests : pageRun[t].pc \notin KeyingPhases
  BY <1>1
<1> HIDE DEF rec
<1>5. DOMAIN pageRun' = Requests /\ pageRun'[r] = rec
  BY <1>2
<1>6. ASSUME NEW s \in Requests \ {r}, pageRun[s].pc \notin KeyingPhases
      PROVE  pageRun'[s] = pageRun[s]
  BY <1>1, <1>2, <1>6
<1>7. ASSUME NEW s \in Requests \ {r}, pageRun[s].pc \in KeyingPhases
      PROVE  /\ pageRun'[s].alone = FALSE
             /\ DOMAIN pageRun'[s] = DOMAIN pageRun[s]
             /\ pageRun'[s].pc = pageRun[s].pc /\ pageRun'[s].page = pageRun[s].page
             /\ pageRun'[s].wanted = pageRun[s].wanted /\ pageRun'[s].add = pageRun[s].add
  <2>1. pageRun'[s] = [pageRun[s] EXCEPT !.alone = FALSE]
    BY <1>1, <1>2, <1>7
  <2>2. {"pc", "page", "wanted", "old", "add", "remove", "alone"} \subseteq DOMAIN pageRun[s]
    BY <1>7 DEF PageRunShape
  <2> QED
    BY <2>1, <2>2
<1>8. "current" \in KeyingPhases /\ "current" # "idle" /\ "current" \notin Making
      /\ "idle" \notin KeyingPhases /\ Making \cap KeyingPhases = {}
  BY DEF KeyingPhases, Making
<1>9. PageRunShape'
  <2> SUFFICES ASSUME NEW s \in Requests
      PROVE  (/\ "pc" \in DOMAIN pageRun[s]
              /\ pageRun[s].pc \in {"idle"} \cup Making \cup KeyingPhases
              /\ pageRun[s].pc = "idle" => pageRun[s] = P!Idle
              /\ pageRun[s].pc \in Making =>
                   /\ {"page", "todo"} \subseteq DOMAIN pageRun[s]
                   /\ pageRun[s].page \in DOMAIN pages
                   /\ pageRun[s].todo \in Seq(FileNames)
              /\ pageRun[s].pc \in KeyingPhases =>
                   /\ {"page", "wanted", "old", "add", "remove", "alone"} \subseteq DOMAIN pageRun[s]
                   /\ pageRun[s].page \in DOMAIN pages
                   /\ pageRun[s].wanted \in SUBSET Keywords /\ pageRun[s].add \in SUBSET Keywords
                   /\ pageRun[s].alone \in BOOLEAN)'
    BY <1>5 DEF PageRunShape
  <2>1. CASE s = r
    BY <1>0, <1>3, <1>5, <1>8, <2>1
  <2>2. CASE s # r /\ pageRun[s].pc \notin KeyingPhases
    BY <1>0, <1>6, <2>2 DEF PageRunShape
  <2>3. CASE s # r /\ pageRun[s].pc \in KeyingPhases
    BY ZenonT(120), <1>0, <1>7, <1>8, <2>3 DEF PageRunShape
  <2> QED
    BY <2>1, <2>2, <2>3
<1>10. Uploaded'
  <2> SUFFICES ASSUME NEW s \in Requests, pageRun'[s].pc \in Making
      PROVE  pages'[pageRun'[s].page].asked \subseteq pages'[pageRun'[s].page].files
                                               \cup Range(pageRun'[s].todo)
    BY DEF Uploaded
  <2>1. pageRun'[s] = pageRun[s]
    BY <1>3, <1>5, <1>6, <1>7, <1>8
  <2> QED
    BY <1>0, <2>1 DEF Uploaded
<1>11. AloneKeeps'
  <2> SUFFICES ASSUME NEW s \in Requests, pageRun'[s].pc \in KeyingPhases, pageRun'[s].alone
      PROVE  /\ \A x \in Requests \ {s} : pageRun'[x].pc \notin KeyingPhases
             /\ AloneOne(s, pages[pageRun[s].page].keywords)'
    BY DEF AloneKeeps
  <2>1. s = r
    BY <1>6, <1>7
  <2>2. \A x \in Requests \ {s} : pageRun'[x].pc \notin KeyingPhases
    BY <1>4, <1>5, <1>6, <2>1
  <2>3. AloneOne(s, pages[pageRun[s].page].keywords)'
    BY <1>3, <1>5, <2>1 DEF AloneOne
  <2> QED
    BY <2>2, <2>3
<1>12. PagesOK'
  BY <1>0 DEF PagesOK
<1> QED
  BY <1>9, <1>10, <1>11, <1>12

LEMMA DeathKeeps ==
  ASSUME PageInv, NEW r \in Requests, P!Dies(r) PROVE PageInv'
<1>1. /\ pageRun' = [pageRun EXCEPT ![r] = P!Idle] /\ UNCHANGED pages
  BY DEF P!Dies, P!To
<1>2. PagesOK' /\ PagesKept
  BY <1>1 DEF PagesOK, PagesKept, PageInv
<1> QED
  BY <1>1, <1>2, MakerMoves

LEMMA PagesKeep ==
  ASSUME PageSetting, PageInv, [P!Next]_(P!vars) PROVE PageInv'
<1>1. CASE UNCHANGED P!vars
  BY <1>1 DEF P!vars, PageInv, PagesOK, PageRunShape, Uploaded, AloneKeeps, AloneOne
<1>2. ASSUME NEW r \in Requests, P!create_cpp(r) \/ P!cpp_create(r) \/ P!create_cpp_from_upload(r)
      PROVE  PageInv'
  <2>1. <<>> \in Seq(FileNames)
    BY EmptySeq
  <2>2. Files \in Seq(FileNames)
    <3>1. /\ Len(Files) \in Nat /\ DOMAIN Files = 1..Len(Files)
          /\ \A i \in 1..Len(Files) : Files[i] \in FileNames
      BY LenProperties, ElementOfSeq DEF PageSetting, FileNames
    <3>2. Files = [i \in 1..Len(Files) |-> Files[i]]
      BY <3>1, LenProperties DEF PageSetting
    <3> QED
      BY <3>1, <3>2, IsASeq
  <2>3. Range(<<>>) \subseteq FileNames /\ Range(Files) \subseteq FileNames
    BY DEF Range, FileNames
  <2> QED
    BY <1>2, <2>1, <2>2, <2>3, CreateKeeps DEF P!create_cpp, P!cpp_create, P!create_cpp_from_upload
<1>3. CASE \E r \in Requests : P!SetVisible(r) \/ P!ResolveVersion(r) \/ P!UploadFile(r) \/ P!Cleanup(r)
  BY <1>3, MakingKeeps
<1>4. CASE \E r \in Requests : \E p \in P!There, wanted \in SUBSET Keywords :
             P!cpp_keywords_set(r, p, wanted)
  BY <1>4, KeywordsBegin
<1>5. CASE \E r \in Requests :
             P!ReadCurrent(r) \/ P!ReadOffered(r) \/ P!Link(r) \/ P!Unlink(r) \/ P!ReadBack(r)
  BY <1>5, KeyingKeeps
<1>6. CASE \E r \in Requests : P!Dies(r)
  BY <1>6, DeathKeeps
<1>7. CASE \E p \in P!There :
             \/ P!cpp_delete(p) \/ P!cpp_update(p) \/ P!cpp_upload_screenshot(p)
             \/ \E l \in PageLocales : P!cpp_ensure_localization(p, l)
  BY <1>7, ChangesKeep
<1>8. CASE P!Review \/ P!OfferChanges
  BY <1>8, ReviewKeeps
<1> QED
  BY <1>1, <1>2, <1>3, <1>4, <1>5, <1>6, <1>7, <1>8 DEF P!Next

\* PageInv holds of the custom product pages and the requests at them (asc/cpp.py): what an
\* upload has not put on its page is still to do, and a keyword set goes by what is there.
THEOREM PagesInductive == ASSUME PageSetting PROVE P!Spec => []PageInv
<1>1. P!Init => PageInv
  BY PagesInitially
<1>2. PageInv /\ [P!Next]_(P!vars) => PageInv'
  BY PagesKeep
<1> QED
  BY <1>1, <1>2, PTL DEF P!Spec

LEMMA AloneIsBetween == PageInv => P!KeywordsBetween
<1> SUFFICES ASSUME PageInv, NEW r \in Requests,
                    pageRun[r].pc \in {"link", "unlink", "back"}, pageRun[r].alone
             PROVE  LET now == pages[pageRun[r].page].keywords IN
                    /\ pageRun[r].old \cap pageRun[r].wanted \subseteq now
                    /\ now \subseteq pageRun[r].old \cup pageRun[r].wanted
                    /\ pageRun[r].pc = "back" => now = pageRun[r].wanted
  BY DEF P!KeywordsBetween
<1>1. AloneOne(r, pages[pageRun[r].page].keywords)
  BY DEF PageInv, AloneKeeps, KeyingPhases
<1> QED
  BY <1>1 DEF AloneOne

\* Who is at a page that lacks a file stays at it, or the page gets what it lacks, goes,
\* or is excused; and no step takes a file from a page or asks more of it.
LEMMA WholeStays ==
  ASSUME PageInv, P!NoHalfPages, DOMAIN pages' = DOMAIN pages, excused \subseteq excused',
         \A p \in DOMAIN pages : /\ pages'[p].asked = pages[p].asked
                                 /\ pages[p].files \subseteq pages'[p].files
                                 /\ pages'[p].there => pages[p].there,
         \A r \in Requests : pageRun[r].pc \in Making =>
           LET p == pageRun[r].page IN
           \/ pageRun'[r].pc \in Making /\ pageRun'[r].page = p
           \/ pages'[p].asked \subseteq pages'[p].files
           \/ ~pages'[p].there
           \/ p \in excused'
  PROVE  P!NoHalfPages'
<1> SUFFICES ASSUME NEW p \in DOMAIN pages, pages'[p].there,
                    ~(pages'[p].asked \subseteq pages'[p].files), p \notin excused'
             PROVE  \E r \in Requests : pageRun'[r].pc \in Making /\ pageRun'[r].page = p
  BY DEF P!NoHalfPages, P!There, Making
<1>1. p \in P!There /\ ~(pages[p].asked \subseteq pages[p].files) /\ p \notin excused
  BY DEF P!There
<1>2. PICK r \in Requests : pageRun[r].pc \in Making /\ pageRun[r].page = p
  BY <1>1 DEF P!NoHalfPages, Making
<1> QED
  BY <1>2

\* A step of one request: the others stay where they are.
LEMMA WholeByOne ==
  ASSUME PageInv, P!NoHalfPages, NEW r \in Requests, NEW rec,
         pageRun' = [pageRun EXCEPT ![r] = rec],
         DOMAIN pages' = DOMAIN pages, excused \subseteq excused',
         \A p \in DOMAIN pages : /\ pages'[p].asked = pages[p].asked
                                 /\ pages[p].files \subseteq pages'[p].files
                                 /\ pages'[p].there => pages[p].there,
         pageRun[r].pc \in Making =>
           LET p == pageRun[r].page IN
           \/ rec.pc \in Making /\ rec.page = p
           \/ pages'[p].asked \subseteq pages'[p].files
           \/ ~pages'[p].there
           \/ p \in excused'
  PROVE  P!NoHalfPages'
<1>1. DOMAIN pageRun = Requests
  BY DEF PageInv, PageRunShape
<1>2. pageRun'[r] = rec /\ \A s \in Requests \ {r} : pageRun'[s] = pageRun[s]
  BY <1>1
<1> QED
  BY <1>2, WholeStays

\* A new page is the work of the request that makes it, or excused.
LEMMA WholeCreates ==
  ASSUME PageInv, P!NoHalfPages, NEW r \in Requests, NEW files, P!CreatePage(r, files)
  PROVE  P!NoHalfPages'
<1> DEFINE n == Len(pages) + 1
<1>1. /\ Len(pages) \in Nat /\ DOMAIN pages = 1..Len(pages) /\ DOMAIN pages' = 1..n
      /\ \A p \in DOMAIN pages : pages'[p] = pages[p]
  <2>1. PICK page : pages' = Append(pages, page)
    BY DEF P!CreatePage
  <2>2. Len(pages) \in Nat /\ DOMAIN pages = 1..Len(pages)
    BY LenProperties DEF PageInv, PagesOK
  <2>3. pages \in Seq(Range(pages) \cup {page})
    BY <2>2, IsASeq DEF PageInv, PagesOK, Range
  <2>4. /\ pages' \in Seq(Range(pages) \cup {page}) /\ Len(pages') = n
        /\ \A i \in 1..Len(pages) : pages'[i] = pages[i]
    BY <2>1, <2>3, AppendProperties
  <2> QED
    BY <2>2, <2>4, LenProperties
<1>2. /\ DOMAIN pageRun = Requests /\ pageRun[r] = P!Idle
      /\ excused \subseteq excused'
      /\ \/ pageRun'[r].pc \in Making /\ pageRun'[r].page = n
         \/ n \in excused'
  BY DEF P!CreatePage, P!To, PageInv, PageRunShape, Making
<1>3. \A s \in Requests \ {r} : pageRun'[s] = pageRun[s]
  BY <1>2 DEF P!CreatePage, P!To
<1> SUFFICES ASSUME NEW p \in DOMAIN pages', pages'[p].there,
                    ~(pages'[p].asked \subseteq pages'[p].files), p \notin excused'
             PROVE  \E s \in Requests : pageRun'[s].pc \in Making /\ pageRun'[s].page = p
  BY DEF P!NoHalfPages, P!There, Making
<1>4. CASE p = n
  BY <1>2, <1>4
<1>5. CASE p # n
  <2>1. p \in DOMAIN pages
    BY <1>1, <1>5
  <2>2. PICK s \in Requests : pageRun[s].pc \in Making /\ pageRun[s].page = p
    BY <1>1, <1>2, <2>1 DEF P!NoHalfPages, P!There, Making
  <2>3. s # r
    BY <1>2, <2>2 DEF P!Idle, Making
  <2> QED
    BY <1>3, <2>2, <2>3
<1> QED
  BY <1>4, <1>5

\* What the steps that change a page do to it.
LEMMA PageEdited ==
  ASSUME PageInv, NEW p \in DOMAIN pages,
         \/ UNCHANGED pages
         \/ pages' = [pages EXCEPT ![p].visible = TRUE]
         \/ pages' = [pages EXCEPT ![p].there = FALSE]
         \/ \E f : pages' = [pages EXCEPT ![p].files = @ \cup {f}]
         \/ \E ks : pages' = [pages EXCEPT ![p].keywords = ks]
         \/ \E s : pages' = [pages EXCEPT ![p].state = s]
         \/ \E v : pages' = [pages EXCEPT ![p].visible = v]
         \/ \E l : pages' = [pages EXCEPT ![p].locs = l]
  PROVE  /\ DOMAIN pages' = DOMAIN pages
         /\ \A q \in DOMAIN pages : /\ pages'[q].asked = pages[q].asked
                                    /\ pages[q].files \subseteq pages'[q].files
                                    /\ pages'[q].there => pages[q].there
<1>1. pages[p] \in PageRec
  BY PageFields DEF PageInv
<1> QED
  BY <1>1 DEF PageRec

\* The steps of the request that makes a page.
LEMMA WholeMaking ==
  ASSUME PageInv, P!NoHalfPages, NEW r \in Requests,
         P!SetVisible(r) \/ P!ResolveVersion(r) \/ P!UploadFile(r) \/ P!Cleanup(r)
  PROVE  P!NoHalfPages'
<1> DEFINE p == pageRun[r].page
<1> USE DEF P!To, P!Step, P!Fails
<1>0. /\ pageRun[r].pc \in Making /\ p \in DOMAIN pages /\ pages[p] \in PageRec
      /\ {"pc", "page", "todo"} \subseteq DOMAIN pageRun[r]
      /\ pages[p].asked \subseteq pages[p].files \cup Range(pageRun[r].todo)
  <2>1. pageRun[r].pc \in Making
    BY DEF P!SetVisible, P!ResolveVersion, P!UploadFile, P!Cleanup, Making
  <2> QED
    BY <2>1, PageFields DEF PageInv, PageRunShape, Uploaded
<1>1. pageRun[r].todo = <<>> => pages[p].asked \subseteq pages[p].files
  BY <1>0 DEF Range
<1>2. \A pc \in Making : [pageRun[r] EXCEPT !.pc = pc].pc \in Making
                         /\ [pageRun[r] EXCEPT !.pc = pc].page = p
  BY <1>0
<1>3. {"version", "upload", "cleanup"} \subseteq Making
  BY DEF Making
<1>4. CASE P!SetVisible(r)
  <2>1. /\ UNCHANGED pages \/ pages' = [pages EXCEPT ![p].visible = TRUE]
        /\ UNCHANGED excused
        /\ \/ pageRun[r].todo = <<>> /\ pageRun' = [pageRun EXCEPT ![r] = P!Idle]
           \/ pageRun' = [pageRun EXCEPT ![r] = [pageRun[r] EXCEPT !.pc = "version"]]
    BY <1>4 DEF P!SetVisible
  <2>2. /\ DOMAIN pages' = DOMAIN pages
        /\ \A q \in DOMAIN pages : /\ pages'[q].asked = pages[q].asked
                                   /\ pages[q].files \subseteq pages'[q].files
                                   /\ pages'[q].there => pages[q].there
    BY <1>0, <2>1, PageEdited
  <2>3. CASE pageRun[r].todo = <<>> /\ pageRun' = [pageRun EXCEPT ![r] = P!Idle]
    BY <1>0, <1>1, <2>1, <2>2, <2>3, WholeByOne
  <2>4. CASE pageRun' = [pageRun EXCEPT ![r] = [pageRun[r] EXCEPT !.pc = "version"]]
    BY <1>2, <1>3, <2>1, <2>2, <2>4, WholeByOne
  <2> QED
    BY <2>1, <2>3, <2>4
<1>5. CASE P!ResolveVersion(r)
  <2>1. /\ UNCHANGED <<pages, excused>>
        /\ \E pc \in {"upload", "cleanup"} :
             pageRun' = [pageRun EXCEPT ![r] = [pageRun[r] EXCEPT !.pc = pc]]
    BY <1>5 DEF P!ResolveVersion
  <2> QED
    BY <1>2, <1>3, <2>1, WholeByOne
<1>6. CASE P!UploadFile(r)
  <2>1. /\ UNCHANGED pages \/ \E f : pages' = [pages EXCEPT ![p].files = @ \cup {f}]
        /\ UNCHANGED excused
        /\ \/ pageRun[r].todo = <<>> /\ pageRun' = [pageRun EXCEPT ![r] = P!Idle]
           \/ pageRun' = [pageRun EXCEPT ![r] = [pageRun[r] EXCEPT !.pc = "cleanup"]]
           \/ pageRun' = [pageRun EXCEPT ![r] = [pageRun[r] EXCEPT !.todo = Tail(@)]]
    BY <1>6 DEF P!UploadFile
  <2>2. /\ DOMAIN pages' = DOMAIN pages
        /\ \A q \in DOMAIN pages : /\ pages'[q].asked = pages[q].asked
                                   /\ pages[q].files \subseteq pages'[q].files
                                   /\ pages'[q].there => pages[q].there
    BY <1>0, <2>1, PageEdited
  <2>3. CASE pageRun[r].todo = <<>> /\ pageRun' = [pageRun EXCEPT ![r] = P!Idle]
    BY <1>0, <1>1, <2>1, <2>2, <2>3, WholeByOne
  <2>4. CASE pageRun' = [pageRun EXCEPT ![r] = [pageRun[r] EXCEPT !.pc = "cleanup"]]
    BY <1>2, <1>3, <2>1, <2>2, <2>4, WholeByOne
  <2>5. CASE pageRun' = [pageRun EXCEPT ![r] = [pageRun[r] EXCEPT !.todo = Tail(@)]]
    <3> DEFINE rec == [pageRun[r] EXCEPT !.todo = Tail(@)]
    <3>1. rec.pc \in Making /\ rec.page = p
      BY <1>0
    <3> HIDE DEF rec
    <3> QED
      BY <2>1, <2>2, <2>5, <3>1, WholeByOne DEF rec
  <2> QED
    BY <2>1, <2>3, <2>4, <2>5
<1>7. CASE P!Cleanup(r)
  <2>1. /\ \/ pages' = [pages EXCEPT ![p].there = FALSE] /\ UNCHANGED excused
           \/ UNCHANGED pages /\ excused' = excused \cup {p}
        /\ pageRun' = [pageRun EXCEPT ![r] = P!Idle]
    BY <1>7 DEF P!Cleanup
  <2>2. /\ DOMAIN pages' = DOMAIN pages
        /\ \A q \in DOMAIN pages : /\ pages'[q].asked = pages[q].asked
                                   /\ pages[q].files \subseteq pages'[q].files
                                   /\ pages'[q].there => pages[q].there
    BY <1>0, <2>1, PageEdited
  <2>3. ~pages'[p].there \/ p \in excused'
    BY <1>0, <2>1 DEF PageRec
  <2> QED
    BY <2>1, <2>2, <2>3, WholeByOne
<1> QED
  BY <1>4, <1>5, <1>6, <1>7

\* Every step keeps the pages whole.
LEMMA WholeKeeps ==
  ASSUME PageInv, P!NoHalfPages, [P!Next]_(P!vars)
  PROVE  P!NoHalfPages'
<1>0. /\ DOMAIN pageRun = Requests
      /\ \A r \in Requests : pageRun[r].pc \in KeyingPhases =>
           pageRun[r].pc \notin Making /\ pageRun[r].page \in DOMAIN pages
  BY DEF PageInv, PageRunShape, Making, KeyingPhases
<1>1. ASSUME UNCHANGED pageRun, excused \subseteq excused', DOMAIN pages' = DOMAIN pages,
             \A q \in DOMAIN pages : /\ pages'[q].asked = pages[q].asked
                                     /\ pages[q].files \subseteq pages'[q].files
                                     /\ pages'[q].there => pages[q].there
      PROVE  P!NoHalfPages'
  BY <1>1, WholeStays
<1>2. CASE UNCHANGED P!vars
  BY <1>1, <1>2 DEF P!vars
<1>3. ASSUME NEW r \in Requests, P!create_cpp(r) \/ P!cpp_create(r) \/ P!create_cpp_from_upload(r)
      PROVE  P!NoHalfPages'
  BY <1>3, WholeCreates DEF P!create_cpp, P!cpp_create, P!create_cpp_from_upload
<1>4. ASSUME NEW r \in Requests, NEW p \in P!There, NEW wanted \in SUBSET Keywords,
             P!cpp_keywords_set(r, p, wanted)
      PROVE  P!NoHalfPages'
  <2>1. /\ UNCHANGED <<pages, excused>> /\ pageRun[r] = P!Idle
        /\ \A s \in Requests \ {r} : ~P!Keying(s) => pageRun'[s] = pageRun[s]
    BY <1>0, <1>4 DEF P!cpp_keywords_set
  <2>2. \A s \in Requests : pageRun[s].pc \in Making => s # r /\ ~P!Keying(s)
    BY <2>1 DEF P!Idle, P!Keying, Making
  <2> QED
    BY <2>1, <2>2, WholeStays
<1>5. ASSUME NEW r \in Requests,
             P!ReadCurrent(r) \/ P!ReadOffered(r) \/ P!Link(r) \/ P!Unlink(r) \/ P!ReadBack(r)
      PROVE  P!NoHalfPages'
  <2> DEFINE p == pageRun[r].page
  <2>1. pageRun[r].pc \in KeyingPhases
    BY <1>5 DEF P!ReadCurrent, P!ReadOffered, P!Link, P!Unlink, P!ReadBack, KeyingPhases
  <2>2. /\ UNCHANGED excused /\ \E rec : pageRun' = [pageRun EXCEPT ![r] = rec]
        /\ UNCHANGED pages \/ \E ks : pages' = [pages EXCEPT ![p].keywords = ks]
    BY <1>5 DEF P!ReadCurrent, P!ReadOffered, P!Link, P!Unlink, P!ReadBack, P!To
  <2>3. /\ DOMAIN pages' = DOMAIN pages
        /\ \A q \in DOMAIN pages : /\ pages'[q].asked = pages[q].asked
                                   /\ pages[q].files \subseteq pages'[q].files
                                   /\ pages'[q].there => pages[q].there
    BY <1>0, <2>1, <2>2, PageEdited
  <2> QED
    BY <1>0, <2>1, <2>2, <2>3, WholeByOne
<1>6. ASSUME NEW r \in Requests, P!Dies(r) PROVE P!NoHalfPages'
  <2>1. /\ UNCHANGED pages /\ pageRun' = [pageRun EXCEPT ![r] = P!Idle]
        /\ excused \subseteq excused'
        /\ pageRun[r].pc \in Making => pageRun[r].page \in excused'
    BY <1>6 DEF P!Dies, P!To, P!Keying, Making
  <2> QED
    BY <2>1, WholeByOne
<1>7. ASSUME NEW p \in P!There,
             \/ P!cpp_delete(p) \/ P!cpp_update(p) \/ P!cpp_upload_screenshot(p)
             \/ \E l \in PageLocales : P!cpp_ensure_localization(p, l)
      PROVE  P!NoHalfPages'
  <2>1. p \in DOMAIN pages /\ UNCHANGED <<pageRun, excused>>
    BY <1>7 DEF P!There, P!cpp_delete, P!cpp_update, P!cpp_upload_screenshot, P!cpp_ensure_localization, P!Changes
  <2>2. \/ pages' = [pages EXCEPT ![p].there = FALSE]
        \/ \E f : pages' = [pages EXCEPT ![p].files = @ \cup {f}]
        \/ \E v : pages' = [pages EXCEPT ![p].visible = v]
        \/ \E l : pages' = [pages EXCEPT ![p].locs = l]
    BY <1>7, <2>1 DEF P!cpp_delete, P!cpp_update, P!cpp_upload_screenshot, P!cpp_ensure_localization, P!Changes
  <2> QED
    BY <1>1, <2>1, <2>2, PageEdited
<1>8. CASE P!Review
  <2>1. PICK p \in P!There : \E s : pages' = [pages EXCEPT ![p].state = s]
    BY <1>8 DEF P!Review
  <2> QED
    BY <1>1, <1>8, <2>1, PageEdited DEF P!Review, P!There
<1>9. CASE P!OfferChanges
  BY <1>1, <1>9 DEF P!OfferChanges
<1> QED
  BY <1>2, <1>3, <1>4, <1>5, <1>6, <1>7, <1>8, <1>9, WholeMaking DEF P!Next

-----------------------------------------------------------------------------
(***************************************************************************)
(* Experiments: submitting one, and uploading the shots of a treatment.    *)
(***************************************************************************)

SubmitPhases == {"list", "items", "create", "add", "send"}
UploadPhases == {"resolve", "make", "upload", "cleanup"}
SubRec == [open: BOOLEAN, items: SUBSET (Exps \cup {X!Other})]

ExpShape ==
  /\ DOMAIN expRun = Requests /\ \A r \in Requests : "pc" \in DOMAIN expRun[r]
  /\ DOMAIN expState = Exps /\ subs \in Seq(SubRec)

\* What a submit has found out is so, as long as nobody else is at the submission; of one
\* that runs alone, nobody is, and nothing that could refuse it comes to be.
Fits(r) ==
  LET i == expRun[r].sub
      e == expRun[r].e
  IN  /\ {"e", "sub", "alone"} \subseteq DOMAIN expRun[r]
      /\ e \in Exps /\ expRun[r].alone \in BOOLEAN
      /\ expRun[r].pc \in {"items", "add", "send"} => i \in DOMAIN subs
      /\ expRun[r].pc = "add" /\ i \notin late => subs[i].items = {}
      /\ expRun[r].pc = "send" /\ i \notin late => subs[i].items = {e}
      /\ expRun[r].alone =>
           /\ expRun[r].pc \in {"items", "add", "send"} => subs[i].open
           /\ expRun[r].pc # "send" => expState[e] \in X!Editable
           /\ expRun[r].pc = "create" => X!Open = {}
           /\ expRun[r].pc = "add" => e \notin subs[i].items

SubmitsFit == \A r \in Requests : expRun[r].pc \in SubmitPhases => Fits(r)

AloneIsAlone ==
  \A r \in Requests : expRun[r].pc \in SubmitPhases /\ expRun[r].alone =>
    \A s \in Requests \ {r} : expRun[s].pc \notin SubmitPhases

SentIsClosed ==
  \A s \in sent : /\ s[1] \in DOMAIN subs /\ ~subs[s[1]].open
                  /\ s[1] \notin late => subs[s[1]].items = {s[2]}

SubmitInv == ExpShape /\ SubmitsFit /\ AloneIsAlone /\ SentIsClosed /\ ~refused

LEMMA SubmittingIs == \A r \in Requests : X!Submitting(r) <=> expRun[r].pc \in SubmitPhases
  BY DEF X!Submitting, SubmitPhases

LEMMA SubmitInitially == X!Init => SubmitInv
<1> SUFFICES ASSUME X!Init PROVE SubmitInv
  OBVIOUS
<1>1. ExpShape
  BY EmptySeq DEF X!Init, X!Idle, ExpShape
<1>2. \A r \in Requests : expRun[r].pc \notin SubmitPhases
  BY DEF X!Init, X!Idle, SubmitPhases
<1> QED
  BY <1>1, <1>2 DEF X!Init, SubmitInv, SubmitsFit, AloneIsAlone, SentIsClosed

\* A request that takes a step which no other sees.
LEMMA SubmitMoves ==
  ASSUME SubmitInv, NEW r \in Requests, NEW rec, expRun' = [expRun EXCEPT ![r] = rec],
         "pc" \in DOMAIN rec, UNCHANGED <<expState, subs, sent, late>>, ~refused',
         rec.pc \in SubmitPhases =>
           /\ expRun[r].pc \in SubmitPhases /\ rec.alone = expRun[r].alone
           /\ Fits(r)'
  PROVE  SubmitInv'
<1> USE DEF SubmitInv
<1>1. /\ DOMAIN expRun' = Requests /\ expRun'[r] = rec
      /\ \A s \in Requests \ {r} : expRun'[s] = expRun[s]
  BY DEF ExpShape
<1>2. ExpShape'
  BY <1>1 DEF ExpShape
<1>3. SubmitsFit'
  <2> SUFFICES ASSUME NEW s \in Requests, expRun'[s].pc \in SubmitPhases PROVE Fits(s)'
    BY DEF SubmitsFit
  <2>1. CASE s = r
    BY <1>1, <2>1
  <2>2. CASE s # r
    BY <1>1, <2>2 DEF SubmitsFit, Fits, X!Open
  <2> QED
    BY <2>1, <2>2
<1>4. AloneIsAlone'
  BY <1>1 DEF AloneIsAlone
<1>5. SentIsClosed'
  BY DEF SentIsClosed
<1> QED
  BY <1>2, <1>3, <1>4, <1>5

LEMMA SubmitBegins ==
  ASSUME SubmitInv, NEW r \in Requests, NEW e \in Exps, X!Submit(r, e) PROVE SubmitInv'
<1> USE DEF SubmitInv
<1> DEFINE rec == [pc |-> "list", e |-> e, sub |-> 0,
                   alone |-> ~X!Overlap(r) /\ expState[e] \in X!Editable]
<1>1. /\ expRun' = [s \in Requests |->
           IF s = r THEN rec
           ELSE IF X!Submitting(s) THEN [expRun[s] EXCEPT !.alone = FALSE] ELSE expRun[s]]
      /\ UNCHANGED <<expState, subs, sent, late, refused>>
  BY DEF X!Submit, X!submitVars
<1>2. /\ rec.pc = "list" /\ rec.e = e /\ {"pc", "e", "sub", "alone"} \subseteq DOMAIN rec
      /\ rec.alone \in BOOLEAN
      /\ rec.alone => expState[e] \in X!Editable
      /\ rec.alone => \A s \in Requests \ {r} : expRun[s].pc \notin SubmitPhases
  BY SubmittingIs DEF X!Overlap
<1> HIDE DEF rec
<1>3. DOMAIN expRun' = Requests /\ expRun'[r] = rec
  BY <1>1
<1>4. ASSUME NEW s \in Requests \ {r}, expRun[s].pc \notin SubmitPhases
      PROVE  expRun'[s] = expRun[s]
  BY <1>1, <1>4, SubmittingIs
<1>5. ASSUME NEW s \in Requests \ {r}, expRun[s].pc \in SubmitPhases
      PROVE  /\ expRun'[s].alone = FALSE /\ DOMAIN expRun'[s] = DOMAIN expRun[s]
             /\ expRun'[s].pc = expRun[s].pc /\ expRun'[s].e = expRun[s].e
             /\ expRun'[s].sub = expRun[s].sub
  <2>1. expRun'[s] = [expRun[s] EXCEPT !.alone = FALSE]
    BY <1>1, <1>5, SubmittingIs
  <2>2. {"pc", "e", "sub", "alone"} \subseteq DOMAIN expRun[s]
    BY <1>5 DEF ExpShape, SubmitsFit, Fits
  <2> QED
    BY <2>1, <2>2
<1>6. ExpShape'
  BY <1>1, <1>2, <1>3, <1>4, <1>5 DEF ExpShape
<1>7. SubmitsFit'
  <2> SUFFICES ASSUME NEW s \in Requests, expRun'[s].pc \in SubmitPhases PROVE Fits(s)'
    BY DEF SubmitsFit
  <2>1. CASE s = r
    BY <1>1, <1>2, <1>3, <2>1 DEF Fits
  <2>2. CASE s # r
    <3>1. expRun[s].pc \in SubmitPhases
      BY <1>4, <1>5, <2>2
    <3> QED
      BY ZenonT(120), <1>1, <1>5, <2>2, <3>1 DEF SubmitsFit, Fits
  <2> QED
    BY <2>1, <2>2
<1>8. AloneIsAlone'
  BY ZenonT(120), <1>2, <1>3, <1>4, <1>5 DEF AloneIsAlone
<1>9. SentIsClosed'
  BY <1>1 DEF SentIsClosed
<1> QED
  BY <1>1, <1>6, <1>7, <1>8, <1>9

\* Somebody else steps in: no submit runs alone any more.
LEMMA DisturbedKeeps ==
  ASSUME SubmitInv, expRun' = X!Disturbed, DOMAIN expState' = Exps, subs' \in Seq(SubRec),
         UNCHANGED <<sent, refused>>, DOMAIN subs' = DOMAIN subs, late \subseteq late',
         \A i \in DOMAIN subs : i \notin late' =>
           \/ subs'[i].items = subs[i].items
           \/ subs[i].open /\ \A r \in Requests : expRun[r].pc \in {"add", "send"} => expRun[r].sub # i,
         \A i \in DOMAIN subs : subs'[i].open = subs[i].open,
         \A i \in DOMAIN subs : ~subs[i].open => subs'[i].items = subs[i].items
  PROVE  SubmitInv'
<1> USE DEF SubmitInv
<1>1. DOMAIN expRun' = Requests
  BY DEF X!Disturbed
<1>2. ASSUME NEW s \in Requests, expRun[s].pc \notin SubmitPhases
      PROVE  expRun'[s] = expRun[s]
  BY <1>2, SubmittingIs DEF X!Disturbed
<1>3. ASSUME NEW s \in Requests, expRun[s].pc \in SubmitPhases
      PROVE  /\ expRun'[s].alone = FALSE /\ DOMAIN expRun'[s] = DOMAIN expRun[s]
             /\ expRun'[s].pc = expRun[s].pc /\ expRun'[s].e = expRun[s].e
             /\ expRun'[s].sub = expRun[s].sub
  <2>1. expRun'[s] = [expRun[s] EXCEPT !.alone = FALSE]
    BY <1>3, SubmittingIs DEF X!Disturbed
  <2>2. {"pc", "e", "sub", "alone"} \subseteq DOMAIN expRun[s]
    BY <1>3 DEF ExpShape, SubmitsFit, Fits
  <2> QED
    BY <2>1, <2>2
<1>4. ExpShape'
  BY <1>1, <1>2, <1>3 DEF ExpShape
<1>5. SubmitsFit'
  <2> SUFFICES ASSUME NEW s \in Requests, expRun'[s].pc \in SubmitPhases PROVE Fits(s)'
    BY DEF SubmitsFit
  <2>1. expRun[s].pc \in SubmitPhases /\ Fits(s)
    BY <1>2, <1>3 DEF SubmitsFit
  <2>2. /\ expRun'[s].alone = FALSE /\ DOMAIN expRun'[s] = DOMAIN expRun[s]
        /\ expRun'[s].pc = expRun[s].pc /\ expRun'[s].e = expRun[s].e
        /\ expRun'[s].sub = expRun[s].sub
    BY <1>3, <2>1
  <2>3. ASSUME expRun[s].pc \in {"add", "send"}, expRun[s].sub \notin late'
        PROVE  subs'[expRun[s].sub].items = subs[expRun[s].sub].items
    BY <2>1, <2>3 DEF Fits
  <2> QED
    BY <2>1, <2>2, <2>3 DEF Fits
<1>6. AloneIsAlone'
  BY <1>2, <1>3 DEF AloneIsAlone
<1>7. SentIsClosed'
  BY DEF SentIsClosed
<1> QED
  BY <1>4, <1>5, <1>6, <1>7

LEMMA SubmitReads ==
  ASSUME SubmitInv, NEW r \in Requests, X!ListOpen(r) \/ X!ListItems(r) \/ X!SubmitDies(r)
  PROVE  SubmitInv'
<1> USE DEF SubmitInv
<1>0. /\ expRun[r].pc \in SubmitPhases /\ Fits(r) /\ UNCHANGED <<expState, subs, sent, late, refused>>
      /\ {"pc", "e", "sub", "alone"} \subseteq DOMAIN expRun[r]
  <2>1. expRun[r].pc \in SubmitPhases
    BY SubmittingIs DEF X!ListOpen, X!ListItems, X!SubmitDies, SubmitPhases
  <2>2. UNCHANGED <<expState, subs, sent, late, refused>>
    BY DEF X!ListOpen, X!ListItems, X!SubmitDies, X!submitVars
  <2> QED
    BY <2>1, <2>2 DEF ExpShape, SubmitsFit, Fits
<1>a. X!Idle.pc = "idle" /\ "pc" \in DOMAIN X!Idle /\ "idle" \notin SubmitPhases
  BY DEF X!Idle, SubmitPhases
<1>1. CASE expRun' = [expRun EXCEPT ![r] = X!Idle]
  BY <1>0, <1>a, <1>1, SubmitMoves
<1>2. ASSUME NEW pc \in {"create", "add", "send"}, expRun' = [expRun EXCEPT ![r] = [expRun[r] EXCEPT !.pc = pc]],
             \/ pc = "create" /\ X!Open = {} /\ expRun[r].pc = "list"
             \/ expRun[r].pc = "items" /\ pc = "add" /\ subs[expRun[r].sub].items = {}
             \/ expRun[r].pc = "items" /\ pc = "send" /\ subs[expRun[r].sub].items = {expRun[r].e}
      PROVE  SubmitInv'
  <2> DEFINE rec == [expRun[r] EXCEPT !.pc = pc]
  <2>1. /\ rec.pc = pc /\ rec.e = expRun[r].e /\ rec.sub = expRun[r].sub
        /\ rec.alone = expRun[r].alone /\ DOMAIN rec = DOMAIN expRun[r]
    BY <1>0
  <2> HIDE DEF rec
  <2>2. expRun' = [expRun EXCEPT ![r] = rec] /\ expRun'[r] = rec
    BY <1>2 DEF rec, ExpShape
  <2>3. Fits(r)'
    BY <1>0, <1>2, <2>1, <2>2 DEF Fits, X!Open
  <2> QED
    BY <1>0, <2>1, <2>2, <2>3, SubmitMoves
<1>3. ASSUME NEW i \in X!Open, expRun[r].pc = "list",
             expRun' = [expRun EXCEPT ![r] = [X!Step(r, "items") EXCEPT !.sub = i]]
      PROVE  SubmitInv'
  <2> DEFINE rec == [X!Step(r, "items") EXCEPT !.sub = i]
  <2>1. /\ rec.pc = "items" /\ rec.e = expRun[r].e /\ rec.sub = i
        /\ rec.alone = expRun[r].alone /\ DOMAIN rec = DOMAIN expRun[r]
    BY <1>0 DEF X!Step
  <2> HIDE DEF rec
  <2>2. expRun' = [expRun EXCEPT ![r] = rec] /\ expRun'[r] = rec
    BY <1>3 DEF rec, ExpShape
  <2>3. i \in DOMAIN subs /\ subs[i].open
    BY DEF X!Open
  <2>4. Fits(r)'
    BY <1>0, <1>3, <2>1, <2>2, <2>3 DEF Fits
  <2> QED
    BY <1>0, <2>1, <2>2, <2>4, SubmitMoves
<1>4. CASE X!ListOpen(r)
  <2>1. expRun[r].pc = "list"
    BY <1>4 DEF X!ListOpen
  <2>2. CASE X!Open = {}
    BY <1>2, <1>4, <2>1, <2>2 DEF X!ListOpen, X!To, X!Step
  <2>3. CASE X!Open # {}
    BY <1>3, <1>4, <2>1, <2>3 DEF X!ListOpen, X!To
  <2> QED
    BY <2>2, <2>3
<1>5. CASE X!ListItems(r)
  <2> DEFINE items == subs[expRun[r].sub].items
  <2>1. expRun[r].pc = "items"
    BY <1>5 DEF X!ListItems
  <2>2. CASE X!Others(items, expRun[r].e) # {}
    BY <1>1, <1>5, <2>2 DEF X!ListItems, X!To
  <2>3. CASE X!Others(items, expRun[r].e) = {} /\ X!Holds(items, expRun[r].e)
    <3>1. items = {expRun[r].e}
      BY <2>3 DEF X!Others, X!Holds
    <3> QED
      BY <1>2, <1>5, <2>1, <2>3, <3>1 DEF X!ListItems, X!To, X!Step
  <2>4. CASE X!Others(items, expRun[r].e) = {} /\ ~X!Holds(items, expRun[r].e)
    <3>1. items = {}
      BY <2>4 DEF X!Others, X!Holds
    <3> QED
      BY <1>2, <1>5, <2>1, <2>4, <3>1 DEF X!ListItems, X!To, X!Step
  <2> QED
    BY <2>2, <2>3, <2>4
<1>6. CASE X!SubmitDies(r)
  BY <1>1, <1>6 DEF X!SubmitDies, X!To
<1> QED
  BY <1>4, <1>5, <1>6

\* A submit that runs alone is not refused.
LEMMA RefusalKeeps ==
  ASSUME SubmitInv, NEW r \in Requests, X!Refused(r), ~expRun[r].alone
  PROVE  SubmitInv'
<1>1. UNCHANGED <<expState, subs, sent, late>> /\ expRun' = [expRun EXCEPT ![r] = X!Idle]
  BY DEF X!Refused, X!To
<1>3. ~refused'
  BY Zenon DEF X!Refused, SubmitInv
<1>2. X!Idle.pc \notin SubmitPhases /\ "pc" \in DOMAIN X!Idle
  BY DEF X!Idle, SubmitPhases
<1> QED
  BY <1>1, <1>2, <1>3, SubmitMoves

LEMMA SubmissionMade ==
  ASSUME SubmitInv, NEW r \in Requests, X!CreateSubmission(r) PROVE SubmitInv'
<1> USE DEF SubmitInv
<1>0. /\ expRun[r].pc = "create" /\ Fits(r) /\ "create" \in SubmitPhases
      /\ {"pc", "e", "sub", "alone"} \subseteq DOMAIN expRun[r]
  BY DEF X!CreateSubmission, SubmitPhases, ExpShape, SubmitsFit, Fits
<1>1. CASE X!Open # {}
  <2>1. ~expRun[r].alone
    BY <1>0, <1>1 DEF Fits
  <2> QED
    BY <1>1, <2>1, RefusalKeeps DEF X!CreateSubmission
<1>2. CASE X!Open = {}
  <2> DEFINE new == [open |-> TRUE, items |-> {}]
             rec == [X!Step(r, "add") EXCEPT !.sub = Len(subs) + 1]
  <2>1. /\ subs' = Append(subs, new) /\ UNCHANGED <<expState, sent, late, refused>>
        /\ expRun' = [expRun EXCEPT ![r] = rec] \/ expRun' = [expRun EXCEPT ![r] = X!Idle]
    BY <1>2 DEF X!CreateSubmission, X!Written, X!To
  <2>2. new \in SubRec /\ new.open = TRUE /\ new.items = {}
    BY DEF SubRec
  <2>3. /\ rec.pc = "add" /\ rec.e = expRun[r].e /\ rec.sub = Len(subs) + 1
        /\ rec.alone = expRun[r].alone /\ DOMAIN rec = DOMAIN expRun[r]
    BY <1>0 DEF X!Step
  <2> HIDE DEF rec, new
  <2>4. /\ subs' \in Seq(SubRec) /\ Len(subs) \in Nat /\ DOMAIN subs = 1..Len(subs)
        /\ Len(subs') = Len(subs) + 1 /\ DOMAIN subs' = 1..(Len(subs) + 1)
        /\ \A i \in 1..Len(subs) : subs'[i] = subs[i]
        /\ subs'[Len(subs) + 1] = new
    <3>1. subs' \in Seq(SubRec) /\ Len(subs') = Len(subs) + 1
          /\ (\A i \in 1..Len(subs) : subs'[i] = subs[i]) /\ subs'[Len(subs) + 1] = new
      BY <2>1, <2>2, AppendProperties DEF ExpShape
    <3>2. Len(subs) \in Nat /\ DOMAIN subs = 1..Len(subs) /\ DOMAIN subs' = 1..Len(subs')
      BY <3>1, LenProperties DEF ExpShape
    <3> QED
      BY <3>1, <3>2
  <2>5. /\ DOMAIN expRun' = Requests
        /\ \A s \in Requests \ {r} : expRun'[s] = expRun[s]
        /\ expRun'[r] = rec \/ expRun'[r] = X!Idle
    BY <2>1 DEF ExpShape
  <2>6. X!Idle.pc = "idle" /\ "pc" \in DOMAIN X!Idle /\ "idle" \notin SubmitPhases
    BY DEF X!Idle, SubmitPhases
  <2>7. ExpShape'
    BY <1>0, <2>1, <2>3, <2>4, <2>5, <2>6 DEF ExpShape
  <2>8. SubmitsFit'
    <3> SUFFICES ASSUME NEW s \in Requests, expRun'[s].pc \in SubmitPhases PROVE Fits(s)'
      BY DEF SubmitsFit
    <3>1. CASE s = r
      <4>1. expRun'[r] = rec /\ Len(subs) + 1 \in DOMAIN subs'
            /\ subs'[Len(subs) + 1].items = {} /\ subs'[Len(subs) + 1].open = TRUE
        BY SMTT(60), <2>2, <2>4, <2>5, <2>6, <3>1
      <4> QED
        BY <1>0, <2>1, <2>3, <3>1, <4>1 DEF Fits
    <3>2. CASE s # r
      <4>1. expRun'[s] = expRun[s] /\ Fits(s)
        BY <2>5, <3>2 DEF SubmitsFit
      <4>2. ~expRun[s].alone
        BY <1>0, <2>5, <3>2 DEF AloneIsAlone
      <4> QED
        BY <2>1, <2>4, <4>1, <4>2 DEF Fits
    <3> QED
      BY <3>1, <3>2
  <2>9. AloneIsAlone'
    BY <1>0, <2>3, <2>5, <2>6 DEF AloneIsAlone
  <2>10. SentIsClosed'
    BY <2>1, <2>4 DEF SentIsClosed
  <2> QED
    BY <2>1, <2>7, <2>8, <2>9, <2>10
<1> QED
  BY <1>1, <1>2

\* A submission changes in its fields.
LEMMA SubChanged ==
  ASSUME subs \in Seq(SubRec), NEW i \in DOMAIN subs, NEW sub \in SubRec,
         subs' = [subs EXCEPT ![i] = sub]
  PROVE  /\ subs' \in Seq(SubRec) /\ DOMAIN subs' = DOMAIN subs
         /\ subs'[i] = sub /\ \A j \in DOMAIN subs \ {i} : subs'[j] = subs[j]
<1>1. DOMAIN subs = 1..Len(subs)
  BY LenProperties
<1> QED
  BY <1>1, ExceptSeq

LEMMA SubFields ==
  ASSUME subs \in Seq(SubRec), NEW i \in DOMAIN subs
  PROVE  /\ subs[i] \in SubRec /\ [subs[i] EXCEPT !.open = FALSE] \in SubRec
         /\ [subs[i] EXCEPT !.open = FALSE].open = FALSE
         /\ [subs[i] EXCEPT !.open = FALSE].items = subs[i].items
         /\ \A e \in Exps \cup {X!Other} :
              /\ [subs[i] EXCEPT !.items = subs[i].items \cup {e}] \in SubRec
              /\ [subs[i] EXCEPT !.items = subs[i].items \cup {e}].items = subs[i].items \cup {e}
              /\ [subs[i] EXCEPT !.items = subs[i].items \cup {e}].open = subs[i].open
<1>1. subs[i] \in SubRec
  BY ElementOfSeq, LenProperties
<1> QED
  BY <1>1 DEF SubRec

LEMMA ItemAdded ==
  ASSUME SubmitInv, NEW r \in Requests, X!AddItem(r) PROVE SubmitInv'
<1> USE DEF SubmitInv
<1> DEFINE i == expRun[r].sub
           e == expRun[r].e
<1>0. /\ expRun[r].pc = "add" /\ Fits(r) /\ "add" \in SubmitPhases
      /\ {"pc", "e", "sub", "alone"} \subseteq DOMAIN expRun[r]
      /\ i \in DOMAIN subs /\ e \in Exps
  BY DEF X!AddItem, SubmitPhases, ExpShape, SubmitsFit, Fits
<1>1. CASE ~subs[i].open \/ e \in subs[i].items \/ expState[e] \notin X!Editable
  <2>1. ~expRun[r].alone
    BY <1>0, <1>1 DEF Fits
  <2>2. X!Refused(r)
    BY <1>1 DEF X!AddItem
  <2> QED
    BY <2>1, <2>2, RefusalKeeps
<1>2. CASE ~(~subs[i].open \/ e \in subs[i].items \/ expState[e] \notin X!Editable)
  <2> DEFINE sub == [subs[i] EXCEPT !.items = subs[i].items \cup {e}]
             rec == [expRun[r] EXCEPT !.pc = "send"]
  <2>1. /\ subs' = [subs EXCEPT ![i] = sub] /\ UNCHANGED <<expState, sent, refused>>
        /\ expRun' = [expRun EXCEPT ![r] = rec] \/ expRun' = [expRun EXCEPT ![r] = X!Idle]
        /\ late' = IF X!ListedByOther(r, i) THEN late \cup {i} ELSE late
    BY <1>2 DEF X!AddItem, X!Written, X!To, X!Step
  <2>2. sub \in SubRec /\ sub.items = subs[i].items \cup {e} /\ sub.open = subs[i].open
    BY ZenonT(120), <1>0, SubFields DEF ExpShape
  <2>3. /\ rec.pc = "send" /\ rec.e = e /\ rec.sub = i
        /\ rec.alone = expRun[r].alone /\ DOMAIN rec = DOMAIN expRun[r]
    BY <1>0
  <2> HIDE DEF rec, sub
  <2>4. /\ subs' \in Seq(SubRec) /\ DOMAIN subs' = DOMAIN subs
        /\ subs'[i] = sub /\ \A j \in DOMAIN subs \ {i} : subs'[j] = subs[j]
    BY <1>0, <2>1, <2>2, SubChanged DEF ExpShape
  <2>5. /\ DOMAIN expRun' = Requests
        /\ \A s \in Requests \ {r} : expRun'[s] = expRun[s]
        /\ expRun'[r] = rec \/ expRun'[r] = X!Idle
    BY <2>1 DEF ExpShape
  <2>6. X!Idle.pc = "idle" /\ "pc" \in DOMAIN X!Idle /\ "idle" \notin SubmitPhases
    BY DEF X!Idle, SubmitPhases
  <2>7. ExpShape'
    BY <1>0, <2>1, <2>3, <2>4, <2>5, <2>6 DEF ExpShape
  <2>8. late \subseteq late'
    BY <2>1
  <2>9. SubmitsFit'
    <3> SUFFICES ASSUME NEW s \in Requests, expRun'[s].pc \in SubmitPhases PROVE Fits(s)'
      BY DEF SubmitsFit
    <3>1. CASE s = r
      <4>1. expRun'[r] = rec
        BY <2>5, <2>6, <3>1
      <4>2. i \notin late' => subs'[i].items = {e}
        BY <1>0, <2>2, <2>4, <2>8 DEF Fits
      <4>3. subs'[i].open
        BY <1>2, <2>2, <2>4
      <4> QED
        BY <1>0, <2>3, <2>4, <3>1, <4>1, <4>2, <4>3 DEF Fits
    <3>2. CASE s # r
      <4>1. expRun'[s] = expRun[s] /\ Fits(s)
        BY <2>5, <3>2 DEF SubmitsFit
      <4>2. ~expRun[s].alone
        BY <1>0, <2>5, <3>2 DEF AloneIsAlone
      <4>3. expRun[s].pc \in {"add", "send"} /\ expRun[s].sub = i => i \in late'
        BY <2>1, <3>2 DEF X!ListedByOther
      <4> QED
        BY <2>4, <2>8, <4>1, <4>2, <4>3 DEF Fits
    <3> QED
      BY <3>1, <3>2
  <2>10. AloneIsAlone'
    BY <1>0, <2>3, <2>5, <2>6 DEF AloneIsAlone
  <2>11. SentIsClosed'
    BY <1>2, <2>1, <2>4, <2>8 DEF SentIsClosed
  <2> QED
    BY <2>1, <2>7, <2>9, <2>10, <2>11
<1> QED
  BY <1>1, <1>2

LEMMA SubmissionSent ==
  ASSUME SubmitInv, NEW r \in Requests, X!Send(r) PROVE SubmitInv'
<1> USE DEF SubmitInv
<1> DEFINE i == expRun[r].sub
           e == expRun[r].e
<1>0. /\ expRun[r].pc = "send" /\ Fits(r) /\ "send" \in SubmitPhases
      /\ {"pc", "e", "sub", "alone"} \subseteq DOMAIN expRun[r]
      /\ i \in DOMAIN subs /\ e \in Exps
  BY DEF X!Send, SubmitPhases, ExpShape, SubmitsFit, Fits
<1>1. CASE ~subs[i].open
  <2>1. ~expRun[r].alone
    BY <1>0, <1>1 DEF Fits
  <2>2. X!Refused(r)
    BY <1>1 DEF X!Send
  <2> QED
    BY <2>1, <2>2, RefusalKeeps
<1>2. CASE subs[i].open
  <2> DEFINE sub == [subs[i] EXCEPT !.open = FALSE]
  <2>1. /\ subs' = [subs EXCEPT ![i] = sub] /\ UNCHANGED <<late, refused>>
        /\ expState' = [x \in Exps |-> IF x \in subs[i].items THEN "waiting" ELSE expState[x]]
        /\ expRun' = [expRun EXCEPT ![r] = X!Idle]
        /\ sent' = sent \cup {<<i, e>>}
    BY <1>2 DEF X!Send, X!To
  <2>2. sub \in SubRec /\ sub.items = subs[i].items /\ sub.open = FALSE
    BY <1>0, SubFields DEF ExpShape
  <2> HIDE DEF sub
  <2>4. /\ subs' \in Seq(SubRec) /\ DOMAIN subs' = DOMAIN subs
        /\ subs'[i] = sub /\ \A j \in DOMAIN subs \ {i} : subs'[j] = subs[j]
    BY <1>0, <2>1, <2>2, SubChanged DEF ExpShape
  <2>5. /\ DOMAIN expRun' = Requests
        /\ \A s \in Requests \ {r} : expRun'[s] = expRun[s]
        /\ expRun'[r] = X!Idle
    BY <2>1 DEF ExpShape
  <2>6. X!Idle.pc = "idle" /\ "pc" \in DOMAIN X!Idle /\ "idle" \notin SubmitPhases
    BY DEF X!Idle, SubmitPhases
  <2>7. ExpShape'
    BY SMTT(60), <2>1, <2>4, <2>5, <2>6 DEF ExpShape
  <2>8. SubmitsFit'
    <3> SUFFICES ASSUME NEW s \in Requests, expRun'[s].pc \in SubmitPhases PROVE Fits(s)'
      BY DEF SubmitsFit
    <3>1. s # r /\ expRun'[s] = expRun[s]
      BY <2>5, <2>6
    <3>2. ~expRun[s].alone /\ Fits(s)
      BY <1>0, <3>1 DEF AloneIsAlone, SubmitsFit
    <3> QED
      BY <2>1, <2>2, <2>4, <3>1, <3>2 DEF Fits
  <2>9. AloneIsAlone'
    BY <2>5, <2>6 DEF AloneIsAlone
  <2>10. SentIsClosed'
    <3>1. <<i, e>>[1] = i /\ <<i, e>>[2] = e
      OBVIOUS
    <3>2. i \notin late => subs[i].items = {e}
      BY <1>0 DEF Fits
    <3>3. ~subs'[i].open /\ subs'[i].items = subs[i].items
      BY <2>2, <2>4
    <3>4. ASSUME NEW s \in sent PROVE /\ s[1] \in DOMAIN subs' /\ ~subs'[s[1]].open
                                      /\ s[1] \notin late' => subs'[s[1]].items = {s[2]}
      BY <1>2, <2>1, <2>4 DEF SentIsClosed
    <3> QED
      BY <1>0, <2>1, <2>4, <3>1, <3>2, <3>3, <3>4 DEF SentIsClosed
  <2> QED
    BY <2>1, <2>7, <2>8, <2>9, <2>10
<1> QED
  BY <1>1, <1>2

\* A step of an upload, or of what the submits do not look at.
LEMMA UploadIsQuiet ==
  ASSUME SubmitInv, NEW r \in Requests,
         \/ X!Populate(r) \/ X!Resolve(r) \/ X!MakeLocalization(r)
         \/ X!UploadFile(r) \/ X!Cleanup(r) \/ X!UploadDies(r)
  PROVE  SubmitInv'
<1> USE DEF SubmitInv
<1>1. UNCHANGED <<expState, subs, sent, late, refused>>
  BY DEF X!Populate, X!Resolve, X!MakeLocalization, X!UploadFile, X!Cleanup, X!UploadDies, X!submitVars
<1>2. "pc" \in DOMAIN expRun[r] /\ UploadPhases \cap SubmitPhases = {} /\ "idle" \notin SubmitPhases
  BY DEF ExpShape, UploadPhases, SubmitPhases
<1>3. X!Idle.pc = "idle" /\ "pc" \in DOMAIN X!Idle
  BY DEF X!Idle
<1>4. \A pc : [expRun[r] EXCEPT !.pc = pc].pc = pc /\ "pc" \in DOMAIN [expRun[r] EXCEPT !.pc = pc]
  BY <1>2
<1>5. \E rec : /\ expRun' = [expRun EXCEPT ![r] = rec] /\ "pc" \in DOMAIN rec
               /\ rec.pc \notin SubmitPhases
  <2>1. CASE X!Populate(r)
    <3> DEFINE rec == [pc |-> "resolve", call |-> expCalls + 1, created |-> FALSE, at |-> 0,
                       todo |-> Files]
    <3>1. rec.pc = "resolve" /\ "pc" \in DOMAIN rec
      OBVIOUS
    <3>2. expRun' = [expRun EXCEPT ![r] = rec]
      BY <2>1 DEF X!Populate, X!To
    <3> HIDE DEF rec
    <3> QED
      BY <3>1, <3>2 DEF SubmitPhases
  <2>2. CASE X!Resolve(r)
    <3> DEFINE up == [X!Step(r, "upload") EXCEPT !.at = loc.maker]
    <3>1. up.pc = "upload" /\ "pc" \in DOMAIN up
      BY <1>2 DEF X!Step
    <3>2. expRun' = [expRun EXCEPT ![r] = up]
          \/ expRun' = [expRun EXCEPT ![r] = [expRun[r] EXCEPT !.pc = "make"]]
      BY <2>2 DEF X!Resolve, X!To, X!Step
    <3> HIDE DEF up
    <3> QED
      BY <1>4, <3>1, <3>2 DEF SubmitPhases
  <2>3. CASE X!MakeLocalization(r)
    <3> DEFINE up == [X!Step(r, "upload") EXCEPT !.created = TRUE, !.at = expRun[r].call]
    <3>1. up.pc = "upload" /\ "pc" \in DOMAIN up
      BY <1>2 DEF X!Step
    <3>2. expRun' = [expRun EXCEPT ![r] = up] \/ expRun' = [expRun EXCEPT ![r] = X!Idle]
      BY <2>3 DEF X!MakeLocalization, X!To
    <3> HIDE DEF up
    <3> QED
      BY <1>2, <1>3, <3>1, <3>2 DEF SubmitPhases
  <2>4. CASE X!UploadFile(r)
    <3> DEFINE up == [expRun[r] EXCEPT !.todo = Tail(@)]
    <3>1. up.pc = "upload" /\ "pc" \in DOMAIN up
      BY <1>2, <2>4 DEF X!UploadFile
    <3>2. \/ expRun' = [expRun EXCEPT ![r] = up] \/ expRun' = [expRun EXCEPT ![r] = X!Idle]
          \/ expRun' = [expRun EXCEPT ![r] = [expRun[r] EXCEPT !.pc = "cleanup"]]
      BY <2>4 DEF X!UploadFile, X!To, X!Step
    <3> HIDE DEF up
    <3> QED
      BY <1>2, <1>3, <1>4, <3>1, <3>2 DEF SubmitPhases
  <2>5. CASE X!Cleanup(r) \/ X!UploadDies(r)
    BY <1>2, <1>3, <2>5 DEF X!Cleanup, X!UploadDies, X!To
  <2> QED
    BY <2>1, <2>2, <2>3, <2>4, <2>5
<1> QED
  BY <1>1, <1>5, SubmitMoves

LEMMA ExperimentsLive ==
  ASSUME SubmitInv, X!Review \/ X!PersonAdds \/ \E e \in Exps : \E state : X!Becomes(e, state)
  PROVE  SubmitInv'
<1> USE DEF SubmitInv
<1>1. CASE X!Review
  <2>1. PICK e \in Exps, st \in {"approved", "rejected"} :
          /\ expState[e] = "waiting" /\ expState' = [expState EXCEPT ![e] = st]
          /\ UNCHANGED <<subs, sent, late, refused, expRun>>
    BY <1>1 DEF X!Review, X!Waiting
  <2>2. DOMAIN expState' = Exps
        /\ \A x \in Exps : expState[x] \in X!Editable => expState'[x] \in X!Editable
    BY <2>1 DEF ExpShape, X!Editable
  <2>3. SubmitsFit'
    <3> SUFFICES ASSUME NEW s \in Requests, expRun[s].pc \in SubmitPhases PROVE Fits(s)'
      BY <2>1 DEF SubmitsFit
    <3>1. Fits(s)
      BY DEF SubmitsFit
    <3> QED
      BY <2>1, <2>2, <3>1 DEF Fits, X!Open
  <2> QED
    BY <2>1, <2>2, <2>3 DEF ExpShape, AloneIsAlone, SentIsClosed
<1>2. CASE X!PersonAdds
  <2>1. PICK i \in X!Open : /\ subs' = [subs EXCEPT ![i].items = @ \cup {X!Other}]
                            /\ late' = IF X!Listed(i) THEN late \cup {i} ELSE late
    BY <1>2 DEF X!PersonAdds
  <2>2. expRun' = X!Disturbed /\ UNCHANGED <<expState, sent, refused>>
    BY <1>2 DEF X!PersonAdds
  <2>3. i \in DOMAIN subs /\ subs[i].open
    BY DEF X!Open
  <2> DEFINE sub == [subs[i] EXCEPT !.items = subs[i].items \cup {X!Other}]
  <2>4. sub \in SubRec /\ sub.open = subs[i].open /\ subs' = [subs EXCEPT ![i] = sub]
    BY <2>1, <2>3, SubFields DEF ExpShape
  <2> HIDE DEF sub
  <2>5. /\ subs' \in Seq(SubRec) /\ DOMAIN subs' = DOMAIN subs
        /\ subs'[i] = sub /\ \A j \in DOMAIN subs \ {i} : subs'[j] = subs[j]
    BY <2>3, <2>4, SubChanged DEF ExpShape
  <2>6. late \subseteq late'
    BY <2>1
  <2>7. ASSUME NEW j \in DOMAIN subs, j \notin late'
        PROVE  \/ subs'[j].items = subs[j].items
               \/ subs[j].open /\ \A r \in Requests :
                     expRun[r].pc \in {"add", "send"} => expRun[r].sub # j
    <3>1. CASE j = i
      BY <2>1, <2>3, <2>7, <3>1 DEF X!Listed
    <3> QED
      BY <2>5, <3>1
  <2>8. \A j \in DOMAIN subs : subs'[j].open = subs[j].open
    BY <2>4, <2>5
  <2>9. \A j \in DOMAIN subs : ~subs[j].open => subs'[j].items = subs[j].items
    BY <2>3, <2>5
  <2>10. DOMAIN expState' = Exps
    BY <2>2 DEF ExpShape
  <2> QED
    BY <2>2, <2>5, <2>6, <2>7, <2>8, <2>9, <2>10, DisturbedKeeps
<1>3. CASE \E e \in Exps : \E state : X!Becomes(e, state)
  <2>1. expRun' = X!Disturbed /\ UNCHANGED <<subs, sent, late, refused>> /\ DOMAIN expState' = Exps
    BY <1>3 DEF X!Becomes, ExpShape
  <2> QED
    BY <2>1, DisturbedKeeps DEF ExpShape
<1> QED
  BY <1>1, <1>2, <1>3

LEMMA SubmitsKeep == ASSUME SubmitInv, [X!Next]_(X!vars) PROVE SubmitInv'
<1>1. CASE UNCHANGED <<expState, subs, expRun, sent, late, refused>>
  BY <1>1 DEF SubmitInv, ExpShape, SubmitsFit, Fits, X!Open, AloneIsAlone, SentIsClosed
<1>2. CASE UNCHANGED X!vars
  BY <1>1, <1>2 DEF X!vars
<1>3. ASSUME NEW r \in Requests, NEW e \in Exps, X!Submit(r, e) \/ X!experiment_submit_for_review(r, e)
      PROVE  SubmitInv'
  BY <1>3, SubmitBegins DEF X!experiment_submit_for_review
<1>4. ASSUME NEW r \in Requests,
             \/ X!ListOpen(r) \/ X!ListItems(r) \/ X!CreateSubmission(r) \/ X!AddItem(r)
             \/ X!Send(r) \/ X!SubmitDies(r)
      PROVE  SubmitInv'
  BY <1>4, SubmitReads, SubmissionMade, ItemAdded, SubmissionSent
<1>5. ASSUME NEW r \in Requests,
             \/ X!Populate(r) \/ X!Resolve(r) \/ X!MakeLocalization(r)
             \/ X!UploadFile(r) \/ X!Cleanup(r) \/ X!UploadDies(r)
      PROVE  SubmitInv'
  BY <1>5, UploadIsQuiet
<1>6. CASE X!PersonAdds \/ X!Review
  BY <1>6, ExperimentsLive
<1>7. CASE X!EnsureLocalization \/ X!experiment_ensure_treatment_localization \/ X!UploadOne
  BY <1>1, <1>7 DEF X!EnsureLocalization, X!experiment_ensure_treatment_localization, X!UploadOne,
                    X!submitVars
<1>8. ASSUME NEW e \in Exps,
             \/ X!CreateExperiment(e) \/ X!experiment_create(e)
             \/ X!DeleteExperiment(e) \/ X!experiment_delete(e)
             \/ X!UpdateExperiment(e) \/ X!experiment_start(e) \/ X!experiment_stop(e)
      PROVE  SubmitInv'
  <2>1. \E state : X!Becomes(e, state)
    BY <1>8 DEF X!CreateExperiment, X!experiment_create, X!DeleteExperiment, X!experiment_delete,
                X!UpdateExperiment, X!experiment_start, X!experiment_stop
  <2> QED
    BY <2>1, ExperimentsLive
<1>9. ASSUME NEW e \in Exps,
             \/ X!CreateTreatment(e) \/ X!experiment_create_treatment(e)
             \/ X!DeleteTreatment(e) \/ X!experiment_delete_treatment(e)
      PROVE  SubmitInv'
  BY <1>1, <1>9 DEF X!CreateTreatment, X!experiment_create_treatment, X!DeleteTreatment,
                    X!experiment_delete_treatment, X!submitVars
<1> QED
  BY <1>2, <1>3, <1>4, <1>5, <1>6, <1>7, <1>8, <1>9 DEF X!Next

\* SubmitInv holds of the review submissions and the submits at them (asc/experiment.py): what
\* a submit has found in a submission is there, unless a second one came to the same.
THEOREM SubmitsInductive == X!Spec => []SubmitInv
<1>1. X!Init => SubmitInv
  BY SubmitInitially
<1>2. SubmitInv /\ [X!Next]_(X!vars) => SubmitInv'
  BY SubmitsKeep
<1> QED
  BY <1>1, <1>2, PTL DEF X!Spec

LEMMA SentIsClean == SubmitInv => X!SubmitIsClean
  BY DEF SubmitInv, SentIsClosed, X!SubmitIsClean, X!NothingElseIsSent, X!RetryGoesThrough

ExpSetting == MaxCalls \in Nat

\* Which localization is whose.  Every call has a number of its own; the localization an
\* upload works on is its own only if the upload has made it.
UploadFits(r) ==
  /\ {"call", "created", "at", "todo"} \subseteq DOMAIN expRun[r]
  /\ expRun[r].call \in 1..expCalls
  /\ IF expRun[r].created THEN expRun[r].at = expRun[r].call ELSE loc.maker # expRun[r].call
  /\ expRun[r].pc \in {"resolve", "make"} => ~expRun[r].created
  /\ expRun[r].pc = "cleanup" => expRun[r].created
  /\ expRun[r].pc = "upload" => expRun[r].at # 0

UploadInv ==
  /\ DOMAIN expRun = Requests /\ \A r \in Requests : "pc" \in DOMAIN expRun[r]
  /\ expCalls \in 0..MaxCalls
  /\ DOMAIN loc = {"maker", "files"} /\ loc.maker \in 0..expCalls \cup {MaxCalls + 1}
  /\ loc.maker = 0 => loc = X!NoLoc
  /\ \A r \in Requests : expRun[r].pc \in UploadPhases =>
       /\ UploadFits(r)
       /\ \A s \in Requests \ {r} :
            expRun[s].pc \in UploadPhases => expRun[s].call # expRun[r].call

LEMMA UploadInitially == ASSUME ExpSetting, X!Init PROVE UploadInv
<1>1. \A r \in Requests : expRun[r].pc \notin UploadPhases /\ "pc" \in DOMAIN expRun[r]
  BY DEF X!Init, X!Idle, UploadPhases
<1>2. expCalls \in 0..MaxCalls
  BY DEF X!Init, ExpSetting
<1>3. /\ DOMAIN loc = {"maker", "files"} /\ loc.maker \in {0, MaxCalls + 1}
      /\ loc.maker = 0 => loc = X!NoLoc
  BY DEF X!Init, X!NoLoc, ExpSetting
<1> QED
  BY <1>1, <1>2, <1>3 DEF X!Init, ExpSetting, UploadInv

\* An upload takes a step that is not its last, on the localization as it is or with one
\* more file in it, or made by itself.
LEMMA UploadMoves ==
  ASSUME UploadInv, ExpSetting, NEW r \in Requests, NEW rec, expRun' = [expRun EXCEPT ![r] = rec],
         "pc" \in DOMAIN rec, expCalls' = expCalls,
         DOMAIN loc' = {"maker", "files"}, loc'.maker = 0 => loc' = X!NoLoc,
         loc'.maker \in {loc.maker, 0} \/ (expRun[r].pc \in UploadPhases /\ loc'.maker = expRun[r].call),
         rec.pc \in UploadPhases =>
           /\ expRun[r].pc \in UploadPhases /\ rec.call = expRun[r].call
           /\ UploadFits(r)'
  PROVE  UploadInv'
<1>1. /\ DOMAIN expRun' = Requests /\ expRun'[r] = rec
      /\ \A s \in Requests \ {r} : expRun'[s] = expRun[s]
  BY DEF UploadInv
<1>2. loc'.maker \in 0..expCalls' \cup {MaxCalls + 1}
  BY DEF UploadInv, UploadFits, ExpSetting
<1>3. ASSUME NEW s \in Requests, expRun'[s].pc \in UploadPhases PROVE UploadFits(s)'
  <2>1. CASE s = r
    BY <1>1, <1>3, <2>1
  <2>2. CASE s # r
    <3>1. /\ expRun'[s] = expRun[s] /\ UploadFits(s)
          /\ expRun[s].call \in 1..expCalls
          /\ expRun[r].pc \in UploadPhases => expRun[r].call # expRun[s].call
      BY <1>1, <1>3, <2>2 DEF UploadInv, UploadFits
    <3>2. loc.maker # expRun[s].call => loc'.maker # expRun[s].call
      BY <3>1 DEF UploadInv, ExpSetting
    <3> QED
      BY <3>1, <3>2 DEF UploadFits
  <2> QED
    BY <2>1, <2>2
<1>4. ASSUME NEW s \in Requests, expRun'[s].pc \in UploadPhases,
             NEW x \in Requests \ {s}, expRun'[x].pc \in UploadPhases
      PROVE  expRun'[x].call # expRun'[s].call
  BY <1>1, <1>4 DEF UploadInv
<1>5. expCalls' \in 0..MaxCalls
  BY DEF UploadInv
<1>6. \A s \in Requests : "pc" \in DOMAIN expRun'[s]
  BY <1>1 DEF UploadInv
<1> QED
  BY <1>1, <1>2, <1>3, <1>4, <1>5, <1>6 DEF UploadInv

\* A call that is no upload: it has the next number, and may make the localization.
LEMMA CallCounted ==
  ASSUME UploadInv, ExpSetting, X!Begin, UNCHANGED expRun,
         DOMAIN loc' = {"maker", "files"}, loc'.maker = 0 => loc' = X!NoLoc,
         loc'.maker \in {loc.maker, expCalls + 1}
  PROVE  UploadInv'
<1>1. expCalls' \in 0..MaxCalls /\ expCalls' = expCalls + 1 /\ expCalls \in Nat
      /\ loc'.maker \in 0..expCalls' \cup {MaxCalls + 1}
  BY DEF X!Begin, UploadInv, ExpSetting
<1>2. ASSUME NEW r \in Requests, expRun[r].pc \in UploadPhases PROVE UploadFits(r)'
  BY <1>1, <1>2 DEF UploadInv, UploadFits
<1> QED
  BY <1>1, <1>2 DEF UploadInv

\* Requests that are no upload move; the uploads do not.
LEMMA SubmitIsQuiet ==
  ASSUME UploadInv, ExpSetting, UNCHANGED loc, expCalls' = expCalls \/ X!Begin,
         DOMAIN expRun' = Requests,
         \A r \in Requests : /\ "pc" \in DOMAIN expRun'[r]
                             /\ expRun'[r].pc \in UploadPhases => expRun'[r] = expRun[r]
  PROVE  UploadInv'
<1>1. expCalls' \in 0..MaxCalls /\ expCalls' >= expCalls /\ expCalls \in Nat
      /\ loc'.maker \in 0..expCalls' \cup {MaxCalls + 1}
  BY DEF X!Begin, UploadInv, ExpSetting
<1>2. ASSUME NEW r \in Requests, expRun'[r].pc \in UploadPhases PROVE UploadFits(r)'
  <2>1. expRun'[r] = expRun[r] /\ UploadFits(r)
    BY <1>2 DEF UploadInv
  <2> QED
    BY <1>1, <2>1 DEF UploadFits, UploadInv
<1> QED
  BY <1>1, <1>2 DEF UploadInv

LEMMA UploadSteps ==
  ASSUME UploadInv, ExpSetting, NEW r \in Requests,
         X!Resolve(r) \/ X!MakeLocalization(r) \/ X!UploadFile(r) \/ X!Cleanup(r) \/ X!UploadDies(r)
  PROVE  UploadInv'
<1>0. /\ expRun[r].pc \in UploadPhases /\ UploadFits(r) /\ expCalls' = expCalls
      /\ {"pc", "call", "created", "at", "todo"} \subseteq DOMAIN expRun[r]
      /\ DOMAIN loc = {"maker", "files"} /\ expRun[r].call \in Nat \ {0}
      /\ loc.maker = 0 => loc = X!NoLoc
  <2>1. expRun[r].pc \in UploadPhases /\ expCalls' = expCalls
    BY DEF X!Resolve, X!MakeLocalization, X!UploadFile, X!Cleanup, X!UploadDies, X!Uploading, UploadPhases
  <2>2. UploadFits(r) /\ "pc" \in DOMAIN expRun[r]
    BY <2>1 DEF UploadInv
  <2>3. {"call", "created", "at", "todo"} \subseteq DOMAIN expRun[r]
    BY <2>2 DEF UploadFits
  <2>4. expRun[r].call \in Nat \ {0}
    BY <2>2 DEF UploadFits, UploadInv
  <2> QED
    BY <2>1, <2>2, <2>3, <2>4 DEF UploadInv
<1>a. X!Idle.pc = "idle" /\ "pc" \in DOMAIN X!Idle /\ "idle" \notin UploadPhases
  BY DEF X!Idle, UploadPhases
<1>b. DOMAIN X!NoLoc = {"maker", "files"} /\ X!NoLoc.maker = 0 /\ X!NoLoc.files = {}
  BY DEF X!NoLoc
<1>1. ASSUME expRun' = [expRun EXCEPT ![r] = X!Idle], UNCHANGED loc \/ loc' = X!NoLoc
      PROVE  UploadInv'
  BY <1>0, <1>a, <1>b, <1>1, UploadMoves
<1>2. ASSUME NEW rec, expRun' = [expRun EXCEPT ![r] = rec], UNCHANGED loc, "pc" \in DOMAIN rec,
             {"call", "created", "at", "todo"} \subseteq DOMAIN rec, rec.call = expRun[r].call,
             IF rec.created THEN rec.at = rec.call ELSE loc.maker # rec.call,
             rec.pc \in {"resolve", "make"} => ~rec.created, rec.pc = "cleanup" => rec.created,
             rec.pc = "upload" => rec.at # 0
      PROVE  UploadInv'
  <2>1. expRun'[r] = rec
    BY <1>2 DEF UploadInv
  <2>2. UploadFits(r)'
    BY <1>0, <1>2, <2>1 DEF UploadFits
  <2> QED
    BY <1>0, <1>2, <2>2, UploadMoves
<1>3. CASE X!Resolve(r)
  <2>0. ~expRun[r].created /\ expRun[r].pc = "resolve" /\ UNCHANGED loc
    BY <1>0, <1>3 DEF X!Resolve, UploadFits, X!uploadVars
  <2>1. CASE X!NoLoc = loc
    <3> DEFINE rec == [expRun[r] EXCEPT !.pc = "make"]
    <3>1. /\ rec.pc = "make" /\ rec.call = expRun[r].call /\ rec.created = expRun[r].created
          /\ DOMAIN rec = DOMAIN expRun[r]
      BY <1>0
    <3>2. expRun' = [expRun EXCEPT ![r] = rec]
      BY <1>3, <2>1 DEF X!Resolve, X!To, X!Step
    <3> HIDE DEF rec
    <3> QED
      BY <1>0, <1>2, <2>0, <3>1, <3>2 DEF UploadFits
  <2>2. CASE X!NoLoc # loc
    <3> DEFINE rec == [X!Step(r, "upload") EXCEPT !.at = loc.maker]
    <3>1. /\ rec.pc = "upload" /\ rec.call = expRun[r].call /\ rec.created = expRun[r].created
          /\ rec.at # 0 /\ DOMAIN rec = DOMAIN expRun[r]
      BY <1>0, <2>2 DEF X!Step
    <3>2. expRun' = [expRun EXCEPT ![r] = rec]
      BY <1>3, <2>2 DEF X!Resolve, X!To
    <3> HIDE DEF rec
    <3> QED
      BY <1>0, <1>2, <2>0, <3>1, <3>2 DEF UploadFits
  <2> QED
    BY <2>1, <2>2
<1>4. CASE X!MakeLocalization(r)
  <2>1. CASE loc # X!NoLoc
    BY <1>1, <1>4, <2>1 DEF X!MakeLocalization, X!To, X!uploadVars
  <2>2. CASE loc = X!NoLoc
    <3> DEFINE rec == [X!Step(r, "upload") EXCEPT !.created = TRUE, !.at = expRun[r].call]
               new == [maker |-> expRun[r].call, files |-> {}]
    <3>1. /\ rec.pc = "upload" /\ rec.call = expRun[r].call /\ rec.created = TRUE
          /\ rec.at = expRun[r].call
          /\ DOMAIN rec = DOMAIN expRun[r]
      BY <1>0 DEF X!Step
    <3>2. expRun' = [expRun EXCEPT ![r] = rec] \/ expRun' = [expRun EXCEPT ![r] = X!Idle]
      BY <1>4, <2>2 DEF X!MakeLocalization, X!To
    <3>3. loc' = new /\ DOMAIN new = {"maker", "files"} /\ new.maker = expRun[r].call /\ new.files = {}
      BY <1>4, <2>2 DEF X!MakeLocalization
    <3> HIDE DEF rec, new
    <3>4. CASE expRun' = [expRun EXCEPT ![r] = X!Idle]
      BY <1>0, <1>a, <3>3, <3>4, UploadMoves
    <3>5. CASE expRun' = [expRun EXCEPT ![r] = rec]
      <4>1. expRun'[r] = rec
        BY <3>5 DEF UploadInv
      <4>2. UploadFits(r)'
        BY <1>0, <3>1, <4>1 DEF UploadFits
      <4> QED
        BY <1>0, <3>1, <3>3, <3>5, <4>2, UploadMoves
    <3> QED
      BY <3>2, <3>4, <3>5
  <2> QED
    BY <2>1, <2>2
<1>5. CASE X!UploadFile(r)
  <2>0. expRun[r].pc = "upload"
    BY <1>5 DEF X!UploadFile
  <2>1. CASE /\ expRun[r].todo # <<>> /\ loc.maker = expRun[r].at
             /\ loc' = [loc EXCEPT !.files = @ \cup {<<expRun[r].call, Head(expRun[r].todo)>>}]
             /\ X!To(r, [expRun[r] EXCEPT !.todo = Tail(@)])
    <3> DEFINE rec == [expRun[r] EXCEPT !.todo = Tail(@)]
    <3>1. /\ rec.pc = "upload" /\ rec.call = expRun[r].call /\ rec.created = expRun[r].created
          /\ rec.at = expRun[r].at /\ DOMAIN rec = DOMAIN expRun[r]
      BY <1>0, <2>0
    <3>2. expRun' = [expRun EXCEPT ![r] = rec] /\ expRun'[r] = rec
      BY <2>1 DEF X!To, UploadInv
    <3> HIDE DEF rec
    <3>3. DOMAIN loc' = {"maker", "files"} /\ loc'.maker = loc.maker
      BY <1>0, <2>1
    <3>4. UploadFits(r)'
      BY <1>0, <2>0, <3>1, <3>2, <3>3 DEF UploadFits
    <3>5. loc'.maker # 0
      BY <1>0, <2>0, <2>1, <3>3 DEF UploadFits
    <3> QED
      BY <1>0, <3>1, <3>2, <3>3, <3>4, <3>5, UploadMoves
  <2>2. CASE X!To(r, X!Idle) /\ UNCHANGED loc
    BY <1>1, <2>2 DEF X!To
  <2>3. CASE X!To(r, X!Step(r, "cleanup")) /\ UNCHANGED loc /\ expRun[r].created
    <3> DEFINE rec == [expRun[r] EXCEPT !.pc = "cleanup"]
    <3>1. /\ rec.pc = "cleanup" /\ rec.call = expRun[r].call /\ rec.created = expRun[r].created
          /\ rec.at = expRun[r].at /\ DOMAIN rec = DOMAIN expRun[r]
      BY <1>0
    <3>2. expRun' = [expRun EXCEPT ![r] = rec]
      BY <2>3 DEF X!To, X!Step
    <3> HIDE DEF rec
    <3> QED
      BY <1>0, <1>2, <2>3, <3>1, <3>2 DEF UploadFits
  <2> QED
    BY <1>5, <2>1, <2>2, <2>3 DEF X!UploadFile, X!CleansUp
<1>6. CASE X!Cleanup(r) \/ X!UploadDies(r)
  BY <1>1, <1>6 DEF X!Cleanup, X!UploadDies, X!To
<1> QED
  BY <1>3, <1>4, <1>5, <1>6

LEMMA UploadsKeep == ASSUME ExpSetting, UploadInv, [X!Next]_(X!vars) PROVE UploadInv'
<1>0. /\ UploadPhases \cap SubmitPhases = {} /\ "idle" \notin UploadPhases
      /\ X!Idle.pc = "idle" /\ "pc" \in DOMAIN X!Idle
  BY DEF UploadPhases, SubmitPhases, X!Idle
<1>a. DOMAIN expRun = Requests /\ \A r \in Requests : "pc" \in DOMAIN expRun[r]
  BY DEF UploadInv
<1>1. CASE UNCHANGED <<expRun, loc, expCalls>>
  BY <1>1 DEF UploadInv, UploadFits
<1>2. CASE UNCHANGED X!vars
  BY <1>1, <1>2 DEF X!vars
<1>3. ASSUME NEW r \in Requests, NEW e \in Exps, X!Submit(r, e) PROVE UploadInv'
  <2> DEFINE rec == [pc |-> "list", e |-> e, sub |-> 0,
                     alone |-> ~X!Overlap(r) /\ expState[e] \in X!Editable]
  <2>1. /\ expRun' = [s \in Requests |->
             IF s = r THEN rec
             ELSE IF X!Submitting(s) THEN [expRun[s] EXCEPT !.alone = FALSE] ELSE expRun[s]]
        /\ UNCHANGED loc /\ X!Begin
    BY <1>3 DEF X!Submit, X!uploadVars
  <2>2. rec.pc = "list" /\ "pc" \in DOMAIN rec
    OBVIOUS
  <2> HIDE DEF rec
  <2>3. \A s \in Requests : X!Submitting(s) => expRun[s].pc \in SubmitPhases
    BY SubmittingIs
  <2>4. ASSUME NEW s \in Requests
        PROVE  "pc" \in DOMAIN expRun'[s] /\ (expRun'[s].pc \in UploadPhases => expRun'[s] = expRun[s])
    <3>1. CASE s = r
      BY <2>1, <2>2, <3>1 DEF UploadPhases
    <3>2. CASE s # r /\ X!Submitting(s)
      <4>1. expRun'[s] = [expRun[s] EXCEPT !.alone = FALSE]
        BY <2>1, <3>2
      <4> QED
        BY <1>0, <1>a, <2>3, <3>2, <4>1
    <3>3. CASE s # r /\ ~X!Submitting(s)
      BY <1>a, <2>1, <3>3
    <3> QED
      BY <3>1, <3>2, <3>3
  <2> QED
    BY <2>1, <2>4, SubmitIsQuiet
<1>4. ASSUME UNCHANGED <<loc, expCalls>>, expRun' = X!Disturbed PROVE UploadInv'
  <2>1. \A s \in Requests : X!Submitting(s) => expRun[s].pc \in SubmitPhases
    BY SubmittingIs
  <2>2. ASSUME NEW s \in Requests
        PROVE  "pc" \in DOMAIN expRun'[s] /\ (expRun'[s].pc \in UploadPhases => expRun'[s] = expRun[s])
    BY <1>0, <1>a, <1>4, <2>1 DEF X!Disturbed
  <2>3. DOMAIN expRun' = Requests
    BY <1>4 DEF X!Disturbed
  <2> QED
    BY <1>4, <2>2, <2>3, SubmitIsQuiet
<1>5. ASSUME NEW r \in Requests, NEW rec, expRun' = [expRun EXCEPT ![r] = rec],
             "pc" \in DOMAIN rec, rec.pc \notin UploadPhases, UNCHANGED <<loc, expCalls>>
      PROVE  UploadInv'
  <2>1. ASSUME NEW s \in Requests
        PROVE  "pc" \in DOMAIN expRun'[s] /\ (expRun'[s].pc \in UploadPhases => expRun'[s] = expRun[s])
    BY <1>a, <1>5
  <2>2. DOMAIN expRun' = Requests
    BY <1>a, <1>5
  <2> QED
    BY <1>5, <2>1, <2>2, SubmitIsQuiet
<1>6. ASSUME NEW r \in Requests,
             \/ X!ListOpen(r) \/ X!ListItems(r) \/ X!CreateSubmission(r) \/ X!AddItem(r)
             \/ X!Send(r) \/ X!SubmitDies(r)
      PROVE  UploadInv'
  <2>1. UNCHANGED <<loc, expCalls>>
    BY <1>6 DEF X!ListOpen, X!ListItems, X!CreateSubmission, X!AddItem, X!Send, X!SubmitDies, X!uploadVars
  <2>2. \A pc : [expRun[r] EXCEPT !.pc = pc].pc = pc /\ "pc" \in DOMAIN [expRun[r] EXCEPT !.pc = pc]
    BY <1>a
  <2>3. \A pc, i : /\ "pc" \in DOMAIN [X!Step(r, pc) EXCEPT !.sub = i]
                   /\ [X!Step(r, pc) EXCEPT !.sub = i].pc = pc
    BY <2>2 DEF X!Step
  <2>4. {"create", "send", "add", "items"} \cap UploadPhases = {}
    BY DEF UploadPhases
  <2>5. \E rec : /\ expRun' = [expRun EXCEPT ![r] = rec] /\ "pc" \in DOMAIN rec
                 /\ rec.pc \notin UploadPhases
    <3>1. CASE expRun' = [expRun EXCEPT ![r] = X!Idle]
      BY <1>0, <3>1
    <3>2. CASE \E pc \in {"create", "send", "add"} :
                 expRun' = [expRun EXCEPT ![r] = [expRun[r] EXCEPT !.pc = pc]]
      BY <2>2, <2>4, <3>2
    <3>3. CASE \E pc \in {"add", "items"} : \E i :
                 expRun' = [expRun EXCEPT ![r] = [X!Step(r, pc) EXCEPT !.sub = i]]
      <4>0. PICK pc \in {"add", "items"} : \E i :
              expRun' = [expRun EXCEPT ![r] = [X!Step(r, pc) EXCEPT !.sub = i]]
        BY <3>3
      <4>1. PICK i : expRun' = [expRun EXCEPT ![r] = [X!Step(r, pc) EXCEPT !.sub = i]]
        BY <4>0
      <4> DEFINE rec == [X!Step(r, pc) EXCEPT !.sub = i]
      <4>2. "pc" \in DOMAIN rec /\ rec.pc \notin UploadPhases
        BY <2>3, <2>4
      <4>3. expRun' = [expRun EXCEPT ![r] = rec]
        BY <4>1
      <4> HIDE DEF rec
      <4> QED
        BY <4>2, <4>3
    <3>4. CASE X!ListOpen(r)
      BY <3>2, <3>3, <3>4 DEF X!ListOpen, X!To, X!Step
    <3>5. CASE X!ListItems(r)
      BY <3>1, <3>2, <3>5 DEF X!ListItems, X!To, X!Step
    <3>6. CASE X!CreateSubmission(r)
      BY SMTT(60), <3>1, <3>3, <3>6 DEF X!CreateSubmission, X!To, X!Written, X!Refused
    <3>7. CASE X!AddItem(r)
      BY <3>1, <3>2, <3>7 DEF X!AddItem, X!To, X!Written, X!Refused, X!Step
    <3>8. CASE X!Send(r) \/ X!SubmitDies(r)
      BY <3>1, <3>8 DEF X!Send, X!SubmitDies, X!To, X!Refused
    <3> QED
      BY <1>6, <3>4, <3>5, <3>6, <3>7, <3>8
  <2> QED
    BY <1>5, <2>1, <2>5
<1>7. ASSUME NEW r \in Requests, X!Populate(r) PROVE UploadInv'
  <2> DEFINE rec == [pc |-> "resolve", call |-> expCalls + 1, created |-> FALSE, at |-> 0,
                     todo |-> Files]
  <2>1. expRun' = [expRun EXCEPT ![r] = rec] /\ UNCHANGED loc /\ X!Begin
    BY <1>7 DEF X!Populate, X!To, X!uploadVars
  <2>2. /\ rec.pc = "resolve" /\ rec.call = expCalls + 1 /\ rec.created = FALSE
        /\ {"pc", "call", "created", "at", "todo"} \subseteq DOMAIN rec
    OBVIOUS
  <2> HIDE DEF rec
  <2>3. /\ DOMAIN expRun' = Requests /\ expRun'[r] = rec
        /\ \A s \in Requests \ {r} : expRun'[s] = expRun[s]
    BY <1>a, <2>1
  <2>4. expCalls' \in 0..MaxCalls /\ expCalls' = expCalls + 1 /\ expCalls \in Nat
        /\ loc'.maker \in 0..expCalls' \cup {MaxCalls + 1} /\ loc'.maker # expCalls + 1
    BY <2>1 DEF X!Begin, UploadInv, ExpSetting
  <2>5. ASSUME NEW s \in Requests, expRun'[s].pc \in UploadPhases PROVE UploadFits(s)'
    <3>1. CASE s = r
      BY <2>2, <2>3, <2>4, <3>1 DEF UploadFits
    <3>2. CASE s # r
      <4>1. expRun'[s] = expRun[s] /\ UploadFits(s)
        BY <2>3, <2>5, <3>2 DEF UploadInv
      <4> QED
        BY <2>1, <2>4, <4>1 DEF UploadFits
    <3> QED
      BY <3>1, <3>2
  <2>6. ASSUME NEW s \in Requests \ {r}, expRun'[s].pc \in UploadPhases
        PROVE  expRun'[s].call # expCalls + 1
    BY <2>3, <2>4, <2>6 DEF UploadInv, UploadFits
  <2>7. ASSUME NEW s \in Requests, expRun'[s].pc \in UploadPhases,
               NEW x \in Requests \ {s}, expRun'[x].pc \in UploadPhases
        PROVE  expRun'[x].call # expRun'[s].call
    BY <2>2, <2>3, <2>6, <2>7 DEF UploadInv
  <2>8. \A s \in Requests : "pc" \in DOMAIN expRun'[s]
    BY <1>a, <2>2, <2>3
  <2>9. DOMAIN loc' = {"maker", "files"} /\ (loc'.maker = 0 => loc' = X!NoLoc)
    BY <2>1 DEF UploadInv
  <2> QED
    BY <2>3, <2>4, <2>5, <2>7, <2>8, <2>9 DEF UploadInv
<1>8. ASSUME NEW r \in Requests,
             \/ X!Resolve(r) \/ X!MakeLocalization(r) \/ X!UploadFile(r) \/ X!Cleanup(r)
             \/ X!UploadDies(r)
      PROVE  UploadInv'
  BY <1>8, UploadSteps
<1>9. CASE X!EnsureLocalization
  <2> DEFINE new == [maker |-> expCalls + 1, files |-> {}]
  <2>1. loc' = new /\ X!Begin /\ UNCHANGED expRun
    BY <1>9 DEF X!EnsureLocalization
  <2>2. DOMAIN new = {"maker", "files"} /\ new.maker = expCalls + 1 /\ expCalls + 1 # 0
    BY DEF UploadInv, ExpSetting
  <2> HIDE DEF new
  <2> QED
    BY <2>1, <2>2, CallCounted
<1>10. CASE X!UploadOne
  <2>1. /\ loc' = [loc EXCEPT !.files = @ \cup {<<expCalls + 1, Files[1]>>}]
        /\ X!Begin /\ UNCHANGED expRun /\ loc # X!NoLoc
    BY <1>10 DEF X!UploadOne
  <2>2. DOMAIN loc' = {"maker", "files"} /\ loc'.maker = loc.maker /\ loc.maker # 0
    BY <2>1 DEF UploadInv
  <2> QED
    BY <2>1, <2>2, CallCounted
<1>11. ASSUME NEW e \in Exps,
             \/ X!CreateExperiment(e) \/ X!experiment_create(e)
             \/ X!DeleteExperiment(e) \/ X!experiment_delete(e)
             \/ X!UpdateExperiment(e) \/ X!experiment_start(e) \/ X!experiment_stop(e)
      PROVE  UploadInv'
  BY <1>4, <1>11 DEF X!CreateExperiment, X!experiment_create, X!DeleteExperiment, X!experiment_delete,
                X!UpdateExperiment, X!experiment_start, X!experiment_stop, X!Becomes, X!uploadVars
<1>12. ASSUME NEW e \in Exps,
             \/ X!CreateTreatment(e) \/ X!experiment_create_treatment(e)
             \/ X!DeleteTreatment(e) \/ X!experiment_delete_treatment(e)
      PROVE  UploadInv'
  BY <1>1, <1>12 DEF X!CreateTreatment, X!experiment_create_treatment, X!DeleteTreatment,
                    X!experiment_delete_treatment, X!uploadVars
<1>13. CASE X!PersonAdds \/ X!Review
  BY <1>1, <1>4, <1>13 DEF X!PersonAdds, X!Review, X!uploadVars
<1> QED
  BY <1>2, <1>3, <1>6, <1>7, <1>8, <1>9, <1>10, <1>11, <1>12, <1>13
     DEF X!Next, X!experiment_submit_for_review, X!experiment_ensure_treatment_localization

\* Nothing but a cleanup deletes the localization, and it deletes what its request has made;
\* a request that ends short of its last file and is not excused has none of its own left.
LEMMA CleanupStep ==
  ASSUME ExpSetting, UploadInv, [X!Next]_(X!vars)
  PROVE  /\ loc # X!NoLoc /\ loc' = X!NoLoc =>
              \E r \in Requests : expRun[r].pc = "cleanup" /\ expRun[r].call = loc.maker
         /\ \A r \in Requests :
              X!Uploading(r) /\ expRun'[r] = X!Idle /\ expRun[r].pc # "make" /\ expRun[r].todo # <<>>
                /\ ~orphan' => loc'.maker # expRun[r].call
<1>0. DOMAIN expRun = Requests /\ (\A r \in Requests : "pc" \in DOMAIN expRun[r])
      /\ DOMAIN loc = {"maker", "files"} /\ (loc.maker = 0 => loc = X!NoLoc) /\ expCalls \in Nat
  BY DEF UploadInv, ExpSetting
<1>a. X!Idle.pc = "idle" /\ X!NoLoc.maker = 0 /\ X!NoLoc.files = {}
  BY DEF X!Idle, X!NoLoc
<1>1. ASSUME loc # X!NoLoc, loc' = X!NoLoc
      PROVE  \E r \in Requests : expRun[r].pc = "cleanup" /\ expRun[r].call = loc.maker
  <2>1. loc.maker # 0 /\ loc' # loc
    BY <1>0, <1>1
  <2>2. ASSUME NEW files, loc' = [loc EXCEPT !.files = files] PROVE FALSE
    <3>1. loc'.maker = loc.maker
      BY <1>0, <2>2
    <3> QED
      BY <1>1, <1>a, <2>1, <3>1
  <2>3. ASSUME NEW r \in Requests, X!Cleanup(r)
        PROVE  expRun[r].pc = "cleanup" /\ expRun[r].call = loc.maker
    <3>1. expRun[r].pc = "cleanup" /\ loc.maker = expRun[r].at
      BY <2>1, <2>3 DEF X!Cleanup
    <3>2. UploadFits(r)
      BY <3>1 DEF UploadInv, UploadPhases
    <3> QED
      BY <3>1, <3>2 DEF UploadFits
  <2>4. ASSUME NEW r \in Requests, X!UploadFile(r) PROVE FALSE
    BY <2>1, <2>2, <2>4 DEF X!UploadFile
  <2>5. ~X!UploadOne
    BY SMTT(60), <2>2 DEF X!UploadOne
  <2>6. ASSUME NEW r \in Requests,
               \/ \E e \in Exps : X!Submit(r, e) \/ X!experiment_submit_for_review(r, e)
               \/ X!ListOpen(r) \/ X!ListItems(r) \/ X!CreateSubmission(r) \/ X!AddItem(r)
               \/ X!Send(r) \/ X!SubmitDies(r)
               \/ X!Populate(r) \/ X!Resolve(r) \/ X!MakeLocalization(r) \/ X!UploadDies(r)
        PROVE  FALSE
    BY <1>1, <2>1, <2>6 DEF X!Submit, X!experiment_submit_for_review, X!ListOpen, X!ListItems,
       X!CreateSubmission, X!AddItem, X!Send, X!SubmitDies, X!Populate, X!Resolve,
       X!MakeLocalization, X!UploadDies, X!uploadVars
  <2>7. ~X!EnsureLocalization /\ ~X!experiment_ensure_treatment_localization
    BY <1>1 DEF X!EnsureLocalization, X!experiment_ensure_treatment_localization
  <2>8. ASSUME X!PersonAdds \/ X!Review PROVE FALSE
    BY <2>1, <2>8 DEF X!PersonAdds, X!Review, X!uploadVars
  <2>9. ASSUME NEW e \in Exps,
             \/ X!CreateExperiment(e) \/ X!experiment_create(e)
             \/ X!DeleteExperiment(e) \/ X!experiment_delete(e)
             \/ X!UpdateExperiment(e) \/ X!experiment_start(e) \/ X!experiment_stop(e)
             \/ X!CreateTreatment(e) \/ X!experiment_create_treatment(e)
             \/ X!DeleteTreatment(e) \/ X!experiment_delete_treatment(e)
        PROVE  FALSE
    BY <2>1, <2>9 DEF X!CreateExperiment, X!experiment_create, X!DeleteExperiment, X!experiment_delete,
       X!UpdateExperiment, X!experiment_start, X!experiment_stop, X!Becomes, X!uploadVars,
       X!CreateTreatment, X!experiment_create_treatment, X!DeleteTreatment, X!experiment_delete_treatment
  <2>10. ~UNCHANGED X!vars
    BY <2>1 DEF X!vars
  <2> QED
    BY <2>3, <2>4, <2>5, <2>6, <2>7, <2>8, <2>9, <2>10 DEF X!Next
<1>2. ASSUME NEW r \in Requests, X!Uploading(r), expRun'[r] = X!Idle, expRun[r].pc # "make",
             expRun[r].todo # <<>>, ~orphan'
      PROVE  loc'.maker # expRun[r].call
  <2>1. expRun[r].pc \in UploadPhases /\ UploadFits(r) /\ expRun[r].call # 0
    <3>1. expRun[r].pc \in UploadPhases
      BY <1>2 DEF X!Uploading, UploadPhases
    <3> QED
      BY <3>1, <1>0 DEF UploadInv, UploadFits
  <2>2. expRun'[r].pc # expRun[r].pc /\ expRun'[r] # expRun[r] /\ expRun[r].pc # "idle"
    BY <1>2, <1>a, <2>1 DEF UploadPhases
  <2>3. ASSUME NEW s \in Requests, NEW rec, expRun' = [expRun EXCEPT ![s] = rec]
        PROVE  s = r /\ rec = X!Idle
    BY <1>0, <1>2, <2>2, <2>3
  <2>4. CASE X!UploadFile(r)
    <3>1. [expRun[r] EXCEPT !.todo = Tail(@)].pc = "upload" /\ X!Step(r, "cleanup").pc = "cleanup"
      BY <1>0, <2>4 DEF X!UploadFile, X!Step
    <3>2. ~expRun[r].created /\ UNCHANGED loc
      BY <1>2, <1>a, <2>3, <2>4, <3>1 DEF X!UploadFile, X!CleansUp, X!To
    <3> QED
      BY <2>1, <3>2 DEF UploadFits
  <2>5. CASE X!Cleanup(r)
    <3>1. expRun[r].at = expRun[r].call
      BY <2>1, <2>5 DEF UploadFits, X!Cleanup
    <3> QED
      BY <1>2, <1>a, <2>1, <2>5, <3>1 DEF X!Cleanup
  <2>6. ~X!UploadDies(r)
    BY <1>2 DEF X!UploadDies
  <2>7. ~X!Resolve(r)
    <3>1. /\ X!Step(r, "make").pc = "make"
          /\ [X!Step(r, "upload") EXCEPT !.at = loc.maker].pc = "upload"
      BY <1>0 DEF X!Step
    <3> QED
      BY <1>2, <1>a, <2>3, <3>1 DEF X!Resolve, X!To
  <2>8. ~X!MakeLocalization(r)
    BY <1>2 DEF X!MakeLocalization
  <2>9. ASSUME NEW s \in Requests, s # r,
               X!Resolve(s) \/ X!MakeLocalization(s) \/ X!UploadFile(s) \/ X!Cleanup(s) \/ X!UploadDies(s)
        PROVE  FALSE
    <3>1. \E rec : expRun' = [expRun EXCEPT ![s] = rec]
      BY <2>9 DEF X!Resolve, X!MakeLocalization, X!UploadFile, X!Cleanup, X!UploadDies, X!To
    <3> QED
      BY <2>3, <2>9, <3>1
  <2>10. ASSUME NEW s \in Requests,
               \/ X!ListOpen(s) \/ X!ListItems(s) \/ X!CreateSubmission(s) \/ X!AddItem(s)
               \/ X!Send(s) \/ X!SubmitDies(s) \/ X!Populate(s)
        PROVE  FALSE
    <3>1. \E rec : expRun' = [expRun EXCEPT ![s] = rec]
      BY <2>10 DEF X!ListOpen, X!ListItems, X!CreateSubmission, X!AddItem, X!Send, X!SubmitDies,
                   X!Populate, X!To, X!Written, X!Refused
    <3>2. s = r
      BY <2>3, <3>1
    <3> QED
      BY <1>a, <2>1, <2>10, <3>2 DEF X!ListOpen, X!ListItems, X!CreateSubmission, X!AddItem,
         X!Send, X!SubmitDies, X!Submitting, X!Populate, UploadPhases
  <2>11. ASSUME NEW s \in Requests, NEW e \in Exps, X!Submit(s, e) PROVE FALSE
    <3>1. expRun'[r].pc = "list" \/ expRun'[r] = expRun[r]
      <4>1. ~X!Submitting(r)
        BY <2>1 DEF X!Submitting, UploadPhases
      <4> QED
        BY <2>11, <4>1 DEF X!Submit
    <3> QED
      BY <1>2, <1>a, <2>2, <3>1
  <2>12. expRun' # X!Disturbed
    <3>1. ~X!Submitting(r)
      BY <2>1 DEF X!Submitting, UploadPhases
    <3> QED
      BY <2>2, <3>1 DEF X!Disturbed
  <2>13. ~UNCHANGED expRun
    BY <2>2
  <2>14. ASSUME X!PersonAdds \/ X!Review \/ X!EnsureLocalization \/ X!UploadOne
                \/ X!experiment_ensure_treatment_localization
         PROVE FALSE
    BY <2>12, <2>13, <2>14 DEF X!PersonAdds, X!Review, X!EnsureLocalization, X!UploadOne,
       X!experiment_ensure_treatment_localization
  <2>15. ASSUME NEW e \in Exps,
             \/ X!CreateExperiment(e) \/ X!experiment_create(e)
             \/ X!DeleteExperiment(e) \/ X!experiment_delete(e)
             \/ X!UpdateExperiment(e) \/ X!experiment_start(e) \/ X!experiment_stop(e)
             \/ X!CreateTreatment(e) \/ X!experiment_create_treatment(e)
             \/ X!DeleteTreatment(e) \/ X!experiment_delete_treatment(e)
        PROVE  FALSE
    BY <2>12, <2>13, <2>15 DEF X!CreateExperiment, X!experiment_create, X!DeleteExperiment,
       X!experiment_delete, X!UpdateExperiment, X!experiment_start, X!experiment_stop, X!Becomes,
       X!CreateTreatment, X!experiment_create_treatment, X!DeleteTreatment, X!experiment_delete_treatment
  <2>16. ~UNCHANGED X!vars
    BY <2>2 DEF X!vars
  <2> QED
    BY <2>4, <2>5, <2>6, <2>7, <2>8, <2>9, <2>10, <2>11, <2>14, <2>15, <2>16
       DEF X!Next, X!experiment_submit_for_review
<1> QED
  BY <1>1, <1>2

-----------------------------------------------------------------------------
(***************************************************************************)
(* Metadata: the rows that mirror the texts Apple has.                     *)
(***************************************************************************)

TextSetting == BulkFields \subseteq FieldsOf("app_info") \cup FieldsOf("version")

PlanRec == [loc : Locales, value : Values, action : {"unchanged", "skip", "create", "update"}]
StatusRec == [loc : Locales, status : {"skipped", "failed", "applied"}]

\* Where a sync has the app infos.
Listed == {"versions", "live", "texts", "write"}

SyncShape ==
  /\ "pc" \in DOMAIN sync /\ sync.pc \in {"idle", "infos"} \cup Listed
  /\ sync.pc = "idle" => sync = Idle
  /\ sync.pc # "idle" => "alone" \in DOMAIN sync /\ sync.alone \in BOOLEAN
  /\ sync.pc \in Listed => {"info", "version", "state"} \subseteq DOMAIN sync

SingleShape ==
  /\ "pc" \in DOMAIN single /\ single.pc \in {"idle", "update", "delete"}
  /\ single.pc = "idle" => single = Idle
  /\ single.pc # "idle" => single.kind \in Kinds

BulkFieldNames == {"pc", "field", "force", "plan", "parent", "existing", "status", "accepted", "id"}
BulkShape ==
  /\ "pc" \in DOMAIN bulk /\ bulk.pc \in {"idle", "loop", "update", "insert"}
  /\ bulk.pc = "idle" => bulk = Idle
  /\ bulk.pc # "idle" =>
       /\ BulkFieldNames \subseteq DOMAIN bulk
       /\ bulk.field \in BulkFields
       /\ bulk.plan \in Seq(PlanRec) /\ bulk.status \in Seq(StatusRec)
  /\ bulk.pc \in {"update", "insert"} => bulk.plan # <<>>

TextShape ==
  /\ {"state", "locs"} \subseteq DOMAIN apple /\ DOMAIN apple.locs = Kinds
  /\ DOMAIN rows = Kinds /\ drift \in BOOLEAN
  /\ SyncShape /\ SingleShape /\ BulkShape

\* Every text of these localizations is one that Apple has accepted.
Sourced(kind, map, accepted) ==
  \A l \in DOMAIN map : /\ {"id", "vals"} \subseteq DOMAIN map[l]
                        /\ Texts(kind, l, map[l].vals) \subseteq accepted

AllSourced ==
  /\ \A kind \in Kinds : Sourced(kind, apple.locs[kind], had) /\ Sourced(kind, rows[kind], had)
  /\ sync.pc \in Listed => Sourced("app_info", sync.info, had)
  /\ sync.pc \in Listed => Sourced("version", sync.version, had)
  /\ single.pc = "update" => Texts(single.kind, single.loc, single.changes) \subseteq had
  /\ bulk.pc = "update" => Texts(Kind, Todo.loc, Change) \subseteq had
  /\ bulk.pc = "insert" => Texts(Kind, Todo.loc, With(Blank(Kind), Change)) \subseteq had

\* The rows as they will be when what Apple has answered is committed.
Changed(map, l, changes) == [map EXCEPT ![l].vals = With(@, changes)]
Ahead(kind) ==
  IF single.pc = "update" /\ single.kind = kind THEN Changed(rows[kind], single.loc, single.changes)
  ELSE IF single.pc = "delete" /\ single.kind = kind THEN Drop(rows[kind], single.loc)
  ELSE IF bulk.pc = "update" /\ Kind = kind THEN Changed(rows[kind], Todo.loc, Change)
  ELSE IF bulk.pc = "insert" /\ Kind = kind
       THEN Put(rows[kind], Todo.loc, [id |-> bulk.id, vals |-> With(Blank(kind), Change)])
  ELSE rows[kind]

\* A sync that runs alone has what Apple has.
SyncReads ==
  sync # Idle =>
    IF sync.alone
    THEN /\ single = Idle /\ bulk = Idle
         /\ sync.pc \in Listed => sync.info = apple.locs["app_info"]
         /\ sync.pc \in {"versions", "live"} => sync.state = None
         /\ sync.pc = "write" /\ sync.state # None => sync.version = apple.locs["version"]
    ELSE drift

\* Without a fault or an overlap, one thing happens at a time, and Apple's page is the rows
\* with what is about to be committed.
Undisturbed ==
  ~drift =>
    /\ sync = Idle \/ (single = Idle /\ bulk = Idle)
    /\ single = Idle \/ bulk = Idle
    /\ single.pc = "update" => /\ single.loc \in DOMAIN rows[single.kind]
                               /\ single.read = rows[single.kind][single.loc]
    /\ bulk # Idle => bulk.existing = rows[Kind]
    /\ sync = Idle /\ mstate # Unsynced =>
         \A kind \in Kinds : HasParent(kind, mstate.state) => apple.locs[kind] = Ahead(kind)

\* What a bulk apply has told so far.
Told ==
  bulk # Idle =>
    /\ \A i \in DOMAIN bulk.status :
         bulk.status[i].status = "applied" => bulk.status[i].loc \in bulk.accepted
    /\ bulk.pc \in {"update", "insert"} => Todo.loc \in bulk.accepted
    /\ \A l \in bulk.accepted :
         \/ bulk.pc \in {"update", "insert"} /\ l = Todo.loc
         \/ \E j \in DOMAIN bulk.status : bulk.status[j].loc = l /\ bulk.status[j].status # "skipped"

TextInv == TextShape /\ AllSourced /\ SyncReads /\ Undisturbed /\ Told

LEMMA IdlePc == Idle.pc = "idle" /\ "pc" \in DOMAIN Idle /\ Kinds = {"app_info", "version"}
  BY DEF Idle, Kinds

LEMMA KindIsKind == ASSUME TextSetting, BulkShape, bulk # Idle PROVE Kind \in Kinds
<1>1. bulk.field \in FieldsOf("app_info") \cup FieldsOf("version")
  BY DEF TextSetting, BulkShape
<1>2. \E kind \in Kinds : bulk.field \in FieldsOf(kind)
  BY <1>1 DEF Kinds
<1> QED
  BY <1>2 DEF Kind, KindOf

LEMMA WithTexts ==
  ASSUME NEW kind, NEW l, NEW vals, NEW changes
  PROVE  Texts(kind, l, With(vals, changes)) \subseteq Texts(kind, l, vals) \cup Texts(kind, l, changes)
  BY DEF Texts, With

LEMMA Posted ==
  ASSUME TextShape, AllSourced, NEW kind \in Kinds, NEW l, NEW changes, Post(kind, l, changes)
  PROVE  /\ had \subseteq had' /\ {"state", "locs"} \subseteq DOMAIN apple' /\ DOMAIN apple'.locs = Kinds
         /\ apple'.locs[kind] = Put(apple.locs[kind], l, [id |-> NewId, vals |-> With(Blank(kind), changes)])
         /\ \A k \in Kinds \ {kind} : apple'.locs[k] = apple.locs[k]
         /\ \A k \in Kinds : Sourced(k, apple'.locs[k], had')
         /\ Texts(kind, l, With(Blank(kind), changes)) \subseteq had'
<1> DEFINE new == [id |-> NewId, vals |-> With(Blank(kind), changes)]
           new_locs == Put(apple.locs[kind], l, new)
<1>1. /\ apple' = [apple EXCEPT !.locs = [apple.locs EXCEPT ![kind] = new_locs]]
      /\ had' = had \cup Texts(kind, l, new.vals)
  BY DEF Post
<1>2. {"id", "vals"} \subseteq DOMAIN new /\ new.vals = With(Blank(kind), changes)
  OBVIOUS
<1> HIDE DEF new
<1>3. Sourced(kind, new_locs, had')
  BY <1>1, <1>2 DEF Put, Sourced, AllSourced
<1> HIDE DEF new_locs
<1>4. apple'.locs = [apple.locs EXCEPT ![kind] = new_locs] /\ {"state", "locs"} \subseteq DOMAIN apple'
  BY <1>1 DEF TextShape
<1>5. apple'.locs[kind] = new_locs /\ DOMAIN apple'.locs = Kinds
      /\ \A k \in Kinds \ {kind} : apple'.locs[k] = apple.locs[k]
  BY <1>4 DEF TextShape
<1>6. \A k \in Kinds : Sourced(k, apple.locs[k], had')
  BY <1>1 DEF AllSourced, Sourced
<1>7. \A k \in Kinds : Sourced(k, apple'.locs[k], had')
  BY <1>3, <1>5, <1>6
<1> QED
  BY <1>1, <1>2, <1>4, <1>5, <1>7 DEF new_locs, new

LEMMA ChangedIsSourced ==
  ASSUME NEW kind, NEW map, NEW l \in DOMAIN map, NEW changes, NEW h, NEW g,
         Sourced(kind, map, h), h \subseteq g, Texts(kind, l, changes) \subseteq g
  PROVE  Sourced(kind, Changed(map, l, changes), g)
<1>1. {"id", "vals"} \subseteq DOMAIN map[l] /\ Texts(kind, l, map[l].vals) \subseteq h
  BY DEF Sourced
<1>2. Texts(kind, l, With(map[l].vals, changes)) \subseteq g
  BY <1>1, WithTexts
<1> DEFINE new == Changed(map, l, changes)
<1>3. /\ DOMAIN new = DOMAIN map /\ \A x \in DOMAIN map \ {l} : new[x] = map[x]
      /\ new[l].vals = With(map[l].vals, changes) /\ DOMAIN new[l] = DOMAIN map[l]
  BY <1>1 DEF Changed
<1> HIDE DEF new
<1>4. \A x \in DOMAIN map \ {l} : /\ {"id", "vals"} \subseteq DOMAIN new[x]
                                 /\ Texts(kind, x, new[x].vals) \subseteq g
  BY <1>3 DEF Sourced
<1>5. Sourced(kind, new, g)
  BY <1>1, <1>2, <1>3, <1>4 DEF Sourced
<1> QED
  BY <1>5 DEF new

LEMMA Patched ==
  ASSUME TextShape, AllSourced, NEW kind \in Kinds, NEW l, NEW id, NEW changes,
         Patch(kind, l, id, changes)
  PROVE  /\ had \subseteq had' /\ {"state", "locs"} \subseteq DOMAIN apple' /\ DOMAIN apple'.locs = Kinds
         /\ l \in DOMAIN apple.locs[kind]
         /\ apple'.locs[kind] = Changed(apple.locs[kind], l, changes)
         /\ \A k \in Kinds \ {kind} : apple'.locs[k] = apple.locs[k]
         /\ \A k \in Kinds : Sourced(k, apple'.locs[k], had')
         /\ Texts(kind, l, changes) \subseteq had'
<1> DEFINE new_locs == Changed(apple.locs[kind], l, changes)
<1>1. /\ apple' = [apple EXCEPT !.locs = [apple.locs EXCEPT ![kind] = new_locs]]
      /\ had' = had \cup Texts(kind, l, changes) /\ l \in DOMAIN apple.locs[kind]
  BY DEF Patch, Changed, Knows
<1>2. Sourced(kind, new_locs, had')
  BY <1>1, ChangedIsSourced DEF AllSourced
<1> HIDE DEF new_locs
<1>3. apple'.locs = [apple.locs EXCEPT ![kind] = new_locs] /\ {"state", "locs"} \subseteq DOMAIN apple'
  BY <1>1 DEF TextShape
<1>4. apple'.locs[kind] = new_locs /\ DOMAIN apple'.locs = Kinds
      /\ \A k \in Kinds \ {kind} : apple'.locs[k] = apple.locs[k]
  BY <1>3 DEF TextShape
<1>5. \A k \in Kinds : Sourced(k, apple.locs[k], had')
  BY <1>1 DEF AllSourced, Sourced
<1>6. \A k \in Kinds : Sourced(k, apple'.locs[k], had')
  BY <1>2, <1>4, <1>5
<1> QED
  BY <1>1, <1>3, <1>4, <1>6 DEF new_locs

LEMMA TextsInitially == Init => TextInv
<1> SUFFICES ASSUME Init PROVE TextInv
  OBVIOUS
<1>1. PICK en0 \in Locales, v \in Values :
       /\ apple = [state |-> "editable",
                   locs |-> [kind \in Kinds |->
                     [l \in {en0} |-> [id |-> <<0>>, vals |-> [f \in FieldsOf(kind) |-> v]]]]]
       /\ had = UNION {Texts(kind, en0, [f \in FieldsOf(kind) |-> v]) : kind \in Kinds}
  BY DEF Init
<1>2. sync = Idle /\ single = Idle /\ bulk = Idle
  BY DEF Init
<1>3. \/ mstate = Unsynced /\ rows = [kind \in Kinds |-> <<>>] /\ drift = TRUE
      \/ rows = apple.locs /\ drift = FALSE
  BY DEF Init
<1>4. TextShape
  BY <1>1, <1>2, <1>3, IdlePc DEF TextShape, SyncShape, SingleShape, BulkShape, Listed
<1>5. \A kind \in Kinds : Sourced(kind, apple.locs[kind], had)
  BY <1>1 DEF Sourced
<1>6. \A kind \in Kinds : Sourced(kind, rows[kind], had)
  <2>1. Sourced("app_info", <<>>, had) /\ Sourced("version", <<>>, had)
    BY DEF Sourced
  <2> QED
    BY <1>3, <1>5, <2>1, IdlePc
<1>7. AllSourced
  BY <1>2, <1>5, <1>6, IdlePc DEF AllSourced, Listed
<1>8. Undisturbed
  BY <1>2, <1>3, IdlePc DEF Undisturbed, Ahead
<1> QED
  BY <1>2, <1>4, <1>7, <1>8 DEF TextInv, SyncReads, Told

\* A step of the sync, or of the world, that changes no row, and nothing of the others.
LEMMA SyncSteps ==
  ASSUME TextInv, StartSync \/ ReadAppInfos \/ ReadVersions \/ ReadVersionTexts
           \/ SyncFails
  PROVE  TextInv'
<1> USE DEF TextInv
<1>0. UNCHANGED <<apple, rows, mstate, single, bulk, had>>
  BY DEF StartSync, ReadAppInfos, ReadVersions, ReadVersionTexts, SyncFails
<1>1. SyncShape' /\ drift' \in BOOLEAN
  <2>1. CASE StartSync
    BY <2>1, IdlePc DEF StartSync, SyncShape, TextShape, Busy, Listed
  <2>2. CASE ReadAppInfos
    BY <2>2 DEF ReadAppInfos, SyncShape, TextShape, Listed
  <2>3. CASE ReadVersions
    BY <2>3, IdlePc DEF ReadVersions, SyncShape, TextShape, Listed
  <2>4. CASE ReadVersionTexts
    BY <2>4, IdlePc DEF ReadVersionTexts, SyncShape, TextShape, Listed
  <2>5. CASE SyncFails
    BY <2>5, IdlePc DEF SyncFails, SyncShape, TextShape, Listed
  <2> QED
    BY <2>1, <2>2, <2>3, <2>4, <2>5
<1>2. TextShape'
  BY <1>0, <1>1 DEF TextShape, SingleShape, BulkShape
<1>3. AllSourced'
  <2>1. ASSUME sync'.pc \in Listed
        PROVE  Sourced("app_info", sync'.info, had) /\ Sourced("version", sync'.version, had)
    <3>1. ~StartSync /\ ~SyncFails
      BY <2>1, IdlePc DEF StartSync, SyncFails, Listed
    <3>2. CASE ReadAppInfos
      BY <3>2, IdlePc DEF AllSourced, ReadAppInfos, Sourced
    <3>3. CASE ReadVersions
      BY <3>3, IdlePc DEF AllSourced, ReadVersions, TextShape, SyncShape, Listed
    <3>4. CASE ReadVersionTexts
      BY <3>4, IdlePc DEF AllSourced, ReadVersionTexts, TextShape, SyncShape, Listed
    <3> QED
      BY <3>1, <3>2, <3>3, <3>4
  <2> QED
    BY <1>0, <2>1 DEF AllSourced, Kind, Todo, Change
<1>4. SyncReads'
  <2>1. CASE StartSync
    BY <2>1 DEF StartSync, SyncReads, Busy, TextShape, Listed
  <2>2. CASE ReadAppInfos
    BY <2>2, IdlePc DEF ReadAppInfos, SyncReads, Listed
  <2>3. CASE ReadVersions
    <3>1. /\ sync.pc \in Listed /\ {"pc", "alone", "info", "state"} \subseteq DOMAIN sync
          /\ sync # Idle /\ drift' = drift
          /\ \/ sync' = [sync EXCEPT !.pc = "texts", !.state = apple.state]
             \/ sync' = [sync EXCEPT !.pc = "live"]
             \/ sync.pc = "live" /\ sync' = [sync EXCEPT !.pc = "write"]
      BY <2>3, IdlePc DEF ReadVersions, TextShape, SyncShape, Listed
    <3>2. sync'.alone = sync.alone /\ sync'.info = sync.info /\ sync'.pc # "versions"
      BY <3>1
    <3>3. sync'.pc \in {"live", "write"} => sync.pc \in {"versions", "live"} /\ sync'.state = sync.state
      BY <2>3, <3>1 DEF ReadVersions
    <3> QED
      BY <1>0, <3>1, <3>2, <3>3 DEF SyncReads, Listed
  <2>4. CASE ReadVersionTexts
    BY <2>4, IdlePc DEF ReadVersionTexts, SyncReads, TextShape, SyncShape, Listed
  <2>5. CASE SyncFails
    BY <2>5 DEF SyncFails, SyncReads
  <2> QED
    BY <2>1, <2>2, <2>3, <2>4, <2>5
<1>5. Undisturbed'
  <2>1. CASE ~StartSync /\ ~SyncFails
    <3>1. sync # Idle /\ sync' # Idle /\ drift' = drift
      <4>1. sync # Idle /\ drift' = drift
        BY <2>1, IdlePc DEF ReadAppInfos, ReadVersions, ReadVersionTexts
      <4>2. sync'.pc # "idle"
        <5>1. "pc" \in DOMAIN sync
          BY DEF TextShape, SyncShape
        <5>2. CASE ReadAppInfos
          BY <5>2 DEF ReadAppInfos
        <5>3. CASE ReadVersions
          BY <5>1, <5>3 DEF ReadVersions
        <5>4. CASE ReadVersionTexts
          BY <5>1, <5>4 DEF ReadVersionTexts
        <5> QED
          BY <2>1, <5>2, <5>3, <5>4
      <4> QED
        BY <4>1, <4>2, IdlePc
    <3> QED
      BY <1>0, <3>1 DEF Undisturbed, Kind
  <2>2. CASE StartSync
    <3> SUFFICES ASSUME ~drift' PROVE Undisturbed'
      BY DEF Undisturbed
    <3>1. ~drift /\ single = Idle /\ bulk = Idle /\ sync' # Idle
      <4>1. ~(drift \/ Busy)
        BY <2>2, Zenon DEF StartSync
      <4>2. sync'.pc = "infos"
        BY <2>2 DEF StartSync
      <4> QED
        BY <4>1, <4>2, IdlePc DEF Busy
    <3> QED
      BY <1>0, <3>1, IdlePc DEF Undisturbed
  <2>3. CASE SyncFails
    BY <2>3 DEF SyncFails, Undisturbed
  <2> QED
    BY <2>1, <2>2, <2>3
<1>6. Told'
  BY <1>0 DEF Told, Todo
<1> QED
  BY <1>2, <1>3, <1>4, <1>5, <1>6

\* The snapshot is written: the rows are what was read.
LEMMA SnapshotWritten == ASSUME TextInv, WriteSnapshot PROVE TextInv'
<1> USE DEF TextInv
<1>0. /\ UNCHANGED <<apple, single, bulk, had>> /\ sync' = Idle /\ sync.pc = "write" /\ sync # Idle
      /\ rows' = [app_info |-> sync.info,
                  version |-> IF sync.state = None THEN rows["version"] ELSE sync.version]
      /\ mstate' = [state |-> sync.state, editable |-> EditableFields(sync.state)]
      /\ drift' = (drift /\ ~(sync.alone /\ sync.state # None))
  BY IdlePc DEF WriteSnapshot, Upsert
<1>1. /\ DOMAIN rows' = Kinds /\ rows'["app_info"] = sync.info
      /\ rows'["version"] = IF sync.state = None THEN rows["version"] ELSE sync.version
      /\ mstate'.state = sync.state
  BY <1>0, IdlePc
<1>2. drift' \in BOOLEAN
  BY <1>0 DEF TextShape, SyncShape
<1>3. TextShape'
  BY <1>0, <1>1, <1>2, IdlePc DEF TextShape, SyncShape, SingleShape, BulkShape, Listed
<1>4. Sourced("app_info", sync.info, had) /\ Sourced("version", sync.version, had)
      /\ Sourced("version", rows["version"], had)
  BY <1>0, IdlePc DEF AllSourced, Listed
<1>5. \A kind \in Kinds : Sourced(kind, rows'[kind], had)
  BY <1>1, <1>4, IdlePc
<1>6. AllSourced'
  BY <1>0, <1>5, IdlePc DEF AllSourced, Kind, Todo, Change, Listed
<1>7. SyncReads' /\ Told'
  BY <1>0 DEF SyncReads, Told, Todo
<1>8. Undisturbed'
  <2> SUFFICES ASSUME ~drift' PROVE Undisturbed'
    BY DEF Undisturbed
  <2>1. sync.alone
    <3>1. CASE drift
      BY <1>0, <3>1, Zenon
    <3>2. CASE ~drift
      BY <1>0, <3>2 DEF SyncReads
    <3> QED
      BY <3>1, <3>2
  <2>2. /\ single = Idle /\ bulk = Idle /\ sync.info = apple.locs["app_info"]
        /\ sync.state # None => sync.version = apple.locs["version"]
    BY <1>0, <2>1 DEF SyncReads, Listed
  <2>3. ASSUME NEW kind \in Kinds, HasParent(kind, sync.state)
        PROVE  rows'[kind] = apple.locs[kind]
    <3>1. CASE kind = "app_info"
      BY <1>1, <2>2, <3>1
    <3>2. CASE kind = "version"
      <4>1. sync.state # None
        BY <2>3, <3>2 DEF HasParent, None
      <4> QED
        BY <1>1, <2>2, <3>2, <4>1
    <3> QED
      BY <3>1, <3>2, IdlePc
  <2>4. \A kind \in Kinds : Ahead(kind)' = rows'[kind]
    BY <1>0, <2>2, IdlePc DEF Ahead
  <2> QED
    BY <1>0, <1>1, <2>2, <2>3, <2>4, IdlePc DEF Undisturbed
<1> QED
  BY <1>3, <1>6, <1>7, <1>8

\* A locale is made, and a sync started by the same request.
LEMMA LocaleMade ==
  ASSUME TextInv, NEW kind \in Kinds, NEW l, NEW changes, CreateLocale(kind, l, changes)
  PROVE  TextInv'
<1> USE DEF TextInv
<1>0. /\ UNCHANGED <<rows, mstate, single, bulk>> /\ sync = Idle /\ single = Idle
      /\ sync' = [pc |-> "infos", alone |-> ~Busy] /\ Post(kind, l, changes)
      /\ drift' = (drift \/ Busy)
  BY DEF CreateLocale
<1>1. /\ sync'.pc = "infos" /\ sync' # Idle /\ "pc" \in DOMAIN sync' /\ "alone" \in DOMAIN sync'
      /\ sync'.alone = ~Busy /\ sync'.alone \in BOOLEAN /\ drift' \in BOOLEAN
  BY <1>0, IdlePc DEF Busy, TextShape
<1>2. /\ had \subseteq had' /\ {"state", "locs"} \subseteq DOMAIN apple' /\ DOMAIN apple'.locs = Kinds
      /\ \A k \in Kinds : Sourced(k, apple'.locs[k], had')
  BY <1>0, Posted
<1>3. TextShape'
  BY <1>0, <1>1, <1>2 DEF TextShape, SyncShape, SingleShape, BulkShape, Listed
<1>4. AllSourced'
  BY <1>0, <1>1, <1>2 DEF AllSourced, Sourced, Kind, Todo, Change, Listed
<1>5. SyncReads'
  <2>1. CASE Busy
    BY <1>0, <1>1, <2>1 DEF SyncReads
  <2>2. CASE ~Busy
    BY <1>0, <1>1, <2>2 DEF SyncReads, Busy, Listed
  <2> QED
    BY <2>1, <2>2
<1>6. Undisturbed'
  <2> SUFFICES ASSUME ~drift' PROVE Undisturbed'
    BY DEF Undisturbed
  <2>1. ~(drift \/ Busy)
    BY <1>0, Zenon
  <2> QED
    BY <1>0, <1>1, <2>1, IdlePc DEF Undisturbed, Busy
<1>7. Told'
  BY <1>0 DEF Told, Todo
<1> QED
  BY <1>3, <1>4, <1>5, <1>6, <1>7

\* A request that starts while a sync runs: the sync is no longer alone.
LEMMA StartsBeside ==
  ASSUME TextInv, sync' = (IF sync = Idle THEN sync ELSE [sync EXCEPT !.alone = FALSE]),
         drift' = (drift \/ Busy), \A k \in Kinds : Sourced(k, apple.locs[k], had'),
         had \subseteq had'
  PROVE  /\ SyncShape' /\ drift' \in BOOLEAN /\ (sync' # Idle => ~sync'.alone /\ drift')
         /\ sync'.pc = sync.pc /\ (sync' = Idle <=> sync = Idle)
         /\ sync'.pc \in Listed => Sourced("app_info", sync'.info, had')
         /\ sync'.pc \in Listed => Sourced("version", sync'.version, had')
         /\ ~drift' => ~drift /\ sync = Idle /\ sync' = Idle /\ single = Idle /\ bulk = Idle
<1> USE DEF TextInv
<1>1. CASE sync = Idle
  <2>1. sync' = Idle /\ sync.pc = "idle"
    BY <1>1, IdlePc
  <2>2. drift' \in BOOLEAN
    BY DEF TextShape, Busy
  <2>3. ~drift' => ~drift /\ ~Busy
    BY Zenon
  <2> QED
    BY <1>1, <2>1, <2>2, <2>3, IdlePc DEF Busy, SyncShape, Listed
<1>2. CASE sync # Idle
  <2>1. sync' = [sync EXCEPT !.alone = FALSE] /\ sync.pc # "idle" /\ "pc" \in DOMAIN sync
        /\ "alone" \in DOMAIN sync
    BY <1>2 DEF TextShape, SyncShape
  <2>2. /\ sync'.pc = sync.pc /\ sync'.alone = FALSE /\ DOMAIN sync' = DOMAIN sync
        /\ "info" \in DOMAIN sync => sync'.info = sync.info
        /\ "version" \in DOMAIN sync => sync'.version = sync.version
    BY <2>1
  <2>3. drift' = TRUE
    BY <1>2, Zenon DEF Busy
  <2>4. SyncShape'
    BY <2>1, <2>2 DEF TextShape, SyncShape
  <2>5. /\ sync.pc \in Listed => Sourced("app_info", sync.info, had')
        /\ sync.pc \in Listed => Sourced("version", sync.version, had')
    BY DEF AllSourced, Sourced
  <2>6. /\ sync'.pc \in Listed => Sourced("app_info", sync'.info, had')
        /\ sync'.pc \in Listed => Sourced("version", sync'.version, had')
    BY <2>2, <2>5 DEF TextShape, SyncShape
  <2> QED
    BY <1>2, <2>1, <2>2, <2>3, <2>4, <2>6, IdlePc
<1> QED
  BY <1>1, <1>2

\* One locale is changed at Apple; the row is to follow.
LEMMA LocaleChanged ==
  ASSUME TextInv, NEW kind \in Kinds, NEW l, NEW changes, UpdateLocale(kind, l, changes)
  PROVE  TextInv'
<1> USE DEF TextInv
<1> DEFINE new == [pc |-> "update", kind |-> kind, loc |-> l, changes |-> changes,
                   read |-> rows[kind][l]]
<1>0. /\ UNCHANGED <<rows, mstate, bulk>> /\ l \in DOMAIN rows[kind] /\ single = Idle
      /\ single' = new /\ Patch(kind, l, rows[kind][l].id, changes)
      /\ sync' = (IF sync = Idle THEN sync ELSE [sync EXCEPT !.alone = FALSE])
      /\ drift' = (drift \/ Busy)
  BY DEF UpdateLocale, StartOne
<1>1. /\ new.pc = "update" /\ new.kind = kind /\ new.loc = l /\ new.changes = changes
      /\ new.read = rows[kind][l] /\ "pc" \in DOMAIN new /\ new # Idle
  BY IdlePc
<1> HIDE DEF new
<1>2. /\ had \subseteq had' /\ {"state", "locs"} \subseteq DOMAIN apple' /\ DOMAIN apple'.locs = Kinds
      /\ apple'.locs[kind] = Changed(apple.locs[kind], l, changes)
      /\ \A k \in Kinds \ {kind} : apple'.locs[k] = apple.locs[k]
      /\ \A k \in Kinds : Sourced(k, apple'.locs[k], had')
      /\ Texts(kind, l, changes) \subseteq had'
  BY <1>0, Patched
<1>3. \A k \in Kinds : Sourced(k, apple.locs[k], had') /\ Sourced(k, rows[k], had')
  BY <1>2 DEF AllSourced, Sourced
<1>4. /\ SyncShape' /\ drift' \in BOOLEAN /\ (sync' # Idle => ~sync'.alone /\ drift')
      /\ sync'.pc = sync.pc /\ (sync' = Idle <=> sync = Idle)
      /\ sync'.pc \in Listed => Sourced("app_info", sync'.info, had')
      /\ sync'.pc \in Listed => Sourced("version", sync'.version, had')
      /\ ~drift' => ~drift /\ sync = Idle /\ sync' = Idle /\ single = Idle /\ bulk = Idle
  BY <1>0, <1>2, <1>3, StartsBeside
<1>5. TextShape'
  BY <1>0, <1>1, <1>2, <1>4, IdlePc DEF TextShape, SingleShape, BulkShape
<1>6. AllSourced'
  BY <1>0, <1>1, <1>2, <1>3, <1>4 DEF AllSourced, Kind, Todo, Change
<1>7. SyncReads' /\ Told'
  BY <1>0, <1>4 DEF SyncReads, Told, Todo
<1>8. Undisturbed'
  <2> SUFFICES ASSUME ~drift' PROVE Undisturbed'
    BY DEF Undisturbed
  <2>1. ~drift /\ sync = Idle /\ sync' = Idle /\ single = Idle /\ bulk = Idle /\ bulk' = Idle
    BY <1>0, <1>4
  <2>2. ASSUME mstate # Unsynced, NEW k \in Kinds, HasParent(k, mstate.state)
        PROVE  apple'.locs[k] = Ahead(k)'
    <3>1. apple.locs[k] = rows[k]
      BY <2>1, <2>2, IdlePc DEF Undisturbed, Ahead
    <3>2. Ahead(k)' = IF kind = k THEN Changed(rows[k], l, changes) ELSE rows[k]
      BY <1>0, <1>1, <2>1, IdlePc DEF Ahead, Changed
    <3> QED
      BY <1>2, <3>1, <3>2
  <2> QED
    BY <1>0, <1>1, <2>1, <2>2, IdlePc DEF Undisturbed
<1> QED
  BY <1>5, <1>6, <1>7, <1>8

LEMMA LocaleDeleted ==
  ASSUME TextInv, NEW kind \in Kinds, NEW l, DeleteLocale(kind, l) PROVE TextInv'
<1> USE DEF TextInv
<1> DEFINE new == [pc |-> "delete", kind |-> kind, loc |-> l, read |-> rows[kind][l]]
           left == Drop(apple.locs[kind], l)
<1>0. /\ UNCHANGED <<rows, mstate, bulk, had>> /\ l \in DOMAIN rows[kind] /\ single = Idle
      /\ single' = new
      /\ apple' = [apple EXCEPT !.locs = [apple.locs EXCEPT ![kind] = left]]
      /\ sync' = (IF sync = Idle THEN sync ELSE [sync EXCEPT !.alone = FALSE])
      /\ drift' = (drift \/ Busy)
  BY DEF DeleteLocale, StartOne
<1>1. /\ new.pc = "delete" /\ new.kind = kind /\ new.loc = l
      /\ new.read = rows[kind][l] /\ "pc" \in DOMAIN new /\ new # Idle
  BY IdlePc
<1>a. Sourced(kind, left, had)
  BY DEF AllSourced, Sourced, Drop
<1> HIDE DEF new, left
<1>b. apple'.locs = [apple.locs EXCEPT ![kind] = left] /\ {"state", "locs"} \subseteq DOMAIN apple'
  BY <1>0 DEF TextShape
<1>2. /\ DOMAIN apple'.locs = Kinds /\ apple'.locs[kind] = left
      /\ \A k \in Kinds \ {kind} : apple'.locs[k] = apple.locs[k]
  BY <1>b DEF TextShape
<1>3. \A k \in Kinds : Sourced(k, apple'.locs[k], had)
  BY <1>a, <1>2 DEF AllSourced
<1>4. /\ SyncShape' /\ drift' \in BOOLEAN /\ (sync' # Idle => ~sync'.alone /\ drift')
      /\ sync'.pc = sync.pc /\ (sync' = Idle <=> sync = Idle)
      /\ sync'.pc \in Listed => Sourced("app_info", sync'.info, had')
      /\ sync'.pc \in Listed => Sourced("version", sync'.version, had')
      /\ ~drift' => ~drift /\ sync = Idle /\ sync' = Idle /\ single = Idle /\ bulk = Idle
  <2>1. \A k \in Kinds : Sourced(k, apple.locs[k], had')
    BY <1>0 DEF AllSourced
  <2>2. had \subseteq had'
    BY <1>0
  <2> QED
    BY <1>0, <2>1, <2>2, StartsBeside
<1>5. TextShape'
  BY <1>0, <1>1, <1>b, <1>2, <1>4, IdlePc DEF TextShape, SingleShape, BulkShape
<1>6. AllSourced'
  BY <1>0, <1>1, <1>3, <1>4 DEF AllSourced, Kind, Todo, Change
<1>7. SyncReads' /\ Told'
  BY <1>0, <1>4 DEF SyncReads, Told, Todo
<1>8. Undisturbed'
  <2> SUFFICES ASSUME ~drift' PROVE Undisturbed'
    BY DEF Undisturbed
  <2>1. ~drift /\ sync = Idle /\ sync' = Idle /\ single = Idle /\ bulk = Idle /\ bulk' = Idle
    BY <1>0, <1>4
  <2>2. ASSUME mstate # Unsynced, NEW k \in Kinds, HasParent(k, mstate.state)
        PROVE  apple'.locs[k] = Ahead(k)'
    <3>1. apple.locs[k] = rows[k]
      BY <2>1, <2>2, IdlePc DEF Undisturbed, Ahead
    <3>2. Ahead(k)' = IF kind = k THEN Drop(rows[k], l) ELSE rows[k]
      BY <1>0, <1>1, <2>1, IdlePc DEF Ahead
    <3> QED
      BY <1>2, <3>1, <3>2 DEF left
  <2> QED
    BY <1>0, <1>1, <2>1, <2>2, IdlePc DEF Undisturbed
<1> QED
  BY <1>5, <1>6, <1>7, <1>8

LEMMA WithRestricted ==
  ASSUME NEW vals, NEW changes, NEW differ, differ = {f \in DOMAIN changes : changes[f] # vals[f]}
  PROVE  /\ With(vals, Restrict(changes, differ)) = With(vals, changes)
         /\ \A kind, l : Texts(kind, l, Restrict(changes, differ)) \subseteq Texts(kind, l, changes)
<1>1. DOMAIN Restrict(changes, differ) = differ /\ \A f \in differ : Restrict(changes, differ)[f] = changes[f]
  BY DEF Restrict
<1> QED
  BY <1>1 DEF With, Texts

\* What a commit of one locale makes of the rows.
LEMMA MirroredIs ==
  ASSUME TextShape, AllSourced, NEW kind \in Kinds, NEW l, NEW read, NEW changes,
         Texts(kind, l, changes) \subseteq had, rows' = Mirrored(kind, l, read, changes),
         had' = had
  PROVE  /\ DOMAIN rows' = Kinds /\ \A k \in Kinds \ {kind} : rows'[k] = rows[k]
         /\ \A k \in Kinds : Sourced(k, rows'[k], had)
         /\ l \in DOMAIN rows[kind] /\ read = rows[kind][l] =>
              rows'[kind] = Changed(rows[kind], l, changes)
<1> DEFINE differ == {f \in DOMAIN changes : changes[f] # read.vals[f]}
           some == Restrict(changes, differ)
<1>1. CASE l \notin DOMAIN rows[kind]
  BY <1>1 DEF Mirrored, TextShape, AllSourced
<1>2. CASE l \in DOMAIN rows[kind]
  <2>1. rows' = [rows EXCEPT ![kind] = Changed(rows[kind], l, some)]
    BY <1>2 DEF Mirrored, Changed
  <2>2. Texts(kind, l, some) \subseteq had
    BY ZenonT(120), WithRestricted
  <2>3. With(read.vals, some) = With(read.vals, changes)
    BY WithRestricted
  <2> HIDE DEF some
  <2>4. /\ DOMAIN rows' = Kinds /\ rows'[kind] = Changed(rows[kind], l, some)
        /\ \A k \in Kinds \ {kind} : rows'[k] = rows[k]
    BY <2>1 DEF TextShape
  <2>5. Sourced(kind, Changed(rows[kind], l, some), had)
    BY <1>2, <2>2, ChangedIsSourced DEF AllSourced
  <2>6. \A k \in Kinds : Sourced(k, rows'[k], had)
    BY <2>4, <2>5 DEF AllSourced
  <2>7. read = rows[kind][l] => Changed(rows[kind], l, some) = Changed(rows[kind], l, changes)
    BY <2>3 DEF Changed
  <2> QED
    BY <2>4, <2>6, <2>7
<1> QED
  BY <1>1, <1>2

LEMMA OneCommitted == ASSUME TextInv, CommitOne PROVE TextInv'
<1> USE DEF TextInv
<1> DEFINE k0 == single.kind
           l == single.loc
<1>0. /\ UNCHANGED <<apple, mstate, sync, bulk, had, drift>> /\ single' = Idle
      /\ single # Idle /\ single.pc \in {"update", "delete"} /\ k0 \in Kinds
  BY DEF CommitOne, TextShape, SingleShape
<1>1. /\ DOMAIN rows' = Kinds /\ \A k \in Kinds \ {k0} : rows'[k] = rows[k]
      /\ \A k \in Kinds : Sourced(k, rows'[k], had)
      /\ single.pc = "update" /\ l \in DOMAIN rows[k0] /\ single.read = rows[k0][l] =>
           rows'[k0] = Changed(rows[k0], l, single.changes)
      /\ single.pc = "delete" => rows'[k0] = Drop(rows[k0], l)
  <2>1. CASE single.pc = "update"
    <3>1. rows' = Mirrored(k0, l, single.read, single.changes)
      BY <2>1 DEF CommitOne
    <3>2. Texts(k0, l, single.changes) \subseteq had
      BY <2>1 DEF AllSourced
    <3> QED
      BY <1>0, <2>1, <3>1, <3>2, MirroredIs
  <2>2. CASE single.pc = "delete"
    <3>1. rows' = [rows EXCEPT ![k0] = Drop(rows[k0], l)]
      BY <2>2 DEF CommitOne, Gone
    <3>2. Sourced(k0, Drop(rows[k0], l), had)
      BY <1>0 DEF AllSourced, Sourced, Drop
    <3>3. /\ DOMAIN rows' = Kinds /\ rows'[k0] = Drop(rows[k0], l)
          /\ \A k \in Kinds \ {k0} : rows'[k] = rows[k]
      BY <1>0, <3>1 DEF TextShape
    <3>4. \A k \in Kinds : Sourced(k, rows'[k], had)
      BY <3>2, <3>3 DEF AllSourced
    <3> QED
      BY <2>2, <3>3, <3>4
  <2> QED
    BY <1>0, <2>1, <2>2
<1>2. TextShape'
  BY <1>0, <1>1, IdlePc DEF TextShape, SyncShape, SingleShape, BulkShape
<1>3. AllSourced'
  BY <1>0, <1>1, IdlePc DEF AllSourced, Kind, Todo, Change
<1>4. SyncReads' /\ Told'
  BY <1>0 DEF SyncReads, Told, Todo
<1>5. Undisturbed'
  <2> SUFFICES ASSUME ~drift PROVE Undisturbed'
    BY <1>0 DEF Undisturbed
  <2>1. sync = Idle /\ bulk = Idle
    BY <1>0 DEF Undisturbed
  <2>2. ASSUME mstate # Unsynced, NEW k \in Kinds, HasParent(k, mstate.state)
        PROVE  apple'.locs[k] = Ahead(k)'
    <3>1. apple.locs[k] = Ahead(k)
      BY <2>1, <2>2 DEF Undisturbed
    <3>2. Ahead(k)' = rows'[k]
      BY <1>0, <2>1, IdlePc DEF Ahead
    <3>3. CASE k # k0
      BY <1>0, <1>1, <2>1, <3>1, <3>2, <3>3, IdlePc DEF Ahead
    <3>4. CASE k = k0 /\ single.pc = "update"
      <4>1. single.loc \in DOMAIN rows[k0] /\ single.read = rows[k0][l]
        BY <3>4 DEF Undisturbed
      <4> QED
        BY <1>0, <1>1, <3>1, <3>2, <3>4, <4>1 DEF Ahead
    <3>5. CASE k = k0 /\ single.pc = "delete"
      BY <1>0, <1>1, <3>1, <3>2, <3>5 DEF Ahead
    <3> QED
      BY <1>0, <3>3, <3>4, <3>5
  <2> QED
    BY <1>0, <2>1, <2>2, IdlePc DEF Undisturbed
<1> QED
  BY <1>2, <1>3, <1>4, <1>5

LEMMA PlanTyped ==
  ASSUME NEW targets \in Targets, NEW plan, DOMAIN plan = DOMAIN targets,
         plan = [i \in DOMAIN plan |-> plan[i]], \A i \in DOMAIN targets : plan[i] \in PlanRec
  PROVE  plan \in Seq(PlanRec)
<1>1. DOMAIN targets = 1..2
  BY DEF Targets
<1> QED
  BY <1>1, IsASeq

LEMMA BulkStarted ==
  ASSUME TextInv, NEW field \in BulkFields, NEW values \in [Locales -> Values],
         NEW targets \in Targets, NEW force, NEW create, StartBulk(field, values, targets, force, create)
  PROVE  TextInv'
<1> USE DEF TextInv
<1> DEFINE plan == [i \in DOMAIN targets |-> Item(field, values[targets[i]], targets[i], create)]
           made == IF AssertEditable({field}) THEN plan
                   ELSE [i \in DOMAIN plan |-> [plan[i] EXCEPT !.action = "skip"]]
           par == mstate # Unsynced /\ HasParent(KindOf(field), mstate.state)
           new == [pc |-> "loop", field |-> field, force |-> force, plan |-> made,
                  parent |-> par,
                  existing |-> rows[KindOf(field)], status |-> <<>>, accepted |-> {}, id |-> <<0>>]
<1>1. made \in Seq(PlanRec)
  <2> DEFINE skip == [i \in DOMAIN plan |-> [plan[i] EXCEPT !.action = "skip"]]
  <2>1. \A i \in DOMAIN targets : targets[i] \in Locales
    BY DEF Targets
  <2>2. ASSUME NEW l \in Locales PROVE Item(field, values[l], l, create) \in PlanRec
    BY DEF Item, PlanRec
  <2>3. /\ DOMAIN plan = DOMAIN targets /\ plan = [i \in DOMAIN plan |-> plan[i]]
        /\ \A i \in DOMAIN targets : plan[i] \in PlanRec
    BY <2>1, <2>2
  <2> HIDE DEF plan
  <2>4. /\ DOMAIN skip = DOMAIN targets /\ skip = [i \in DOMAIN skip |-> skip[i]]
        /\ \A i \in DOMAIN targets : skip[i] \in PlanRec
    BY <2>3 DEF PlanRec
  <2>5. plan \in Seq(PlanRec)
    BY <2>3, PlanTyped
  <2>6. made = plan \/ made = skip
    OBVIOUS
  <2> HIDE DEF skip
  <2>7. skip \in Seq(PlanRec)
    BY <2>4, PlanTyped
  <2> QED
    BY <2>5, <2>6, <2>7
<1>0. /\ UNCHANGED <<apple, rows, mstate, single, had>> /\ bulk = Idle
      /\ bulk' = new
      /\ sync' = (IF sync = Idle THEN sync ELSE [sync EXCEPT !.alone = FALSE])
      /\ drift' = (drift \/ Busy)
  BY DEF StartBulk
<1> HIDE DEF plan, made, par
<1>2. /\ new.pc = "loop" /\ new.field = field /\ new.plan = made /\ new.status = <<>>
      /\ new.existing = rows[KindOf(field)] /\ new.accepted = {}
      /\ BulkFieldNames \subseteq DOMAIN new
  BY DEF BulkFieldNames
<1> HIDE DEF new
<1>3. "pc" \in DOMAIN new /\ new # Idle
  BY <1>2, IdlePc DEF BulkFieldNames
<1>4. /\ SyncShape' /\ drift' \in BOOLEAN /\ (sync' # Idle => ~sync'.alone /\ drift')
      /\ sync'.pc = sync.pc /\ (sync' = Idle <=> sync = Idle)
      /\ sync'.pc \in Listed => Sourced("app_info", sync'.info, had')
      /\ sync'.pc \in Listed => Sourced("version", sync'.version, had')
      /\ ~drift' => ~drift /\ sync = Idle /\ sync' = Idle /\ single = Idle /\ bulk = Idle
  <2>1. \A k \in Kinds : Sourced(k, apple.locs[k], had')
    BY <1>0 DEF AllSourced
  <2>2. had \subseteq had'
    BY <1>0
  <2> QED
    BY <1>0, <2>1, <2>2, StartsBeside
<1>5. TextShape'
  <2>1. <<>> \in Seq(StatusRec)
    BY EmptySeq
  <2>2. BulkShape'
    BY <1>0, <1>1, <1>2, <1>3, <2>1 DEF BulkShape
  <2> QED
    BY <1>0, <1>4, <2>2 DEF TextShape, SingleShape
<1>6. AllSourced'
  BY <1>0, <1>2, <1>4 DEF AllSourced
<1>7. SyncReads'
  BY <1>0, <1>4 DEF SyncReads
<1>8. Told'
  BY <1>0, <1>2 DEF Told
<1>9. Undisturbed'
  <2> SUFFICES ASSUME ~drift' PROVE Undisturbed'
    BY DEF Undisturbed
  <2>1. ~drift /\ sync = Idle /\ sync' = Idle /\ single = Idle /\ bulk = Idle /\ single' = Idle
    BY <1>0, <1>4
  <2>2. Kind' = KindOf(field)
    BY <1>0, <1>2 DEF Kind
  <2>3. \A k \in Kinds : Ahead(k) = rows[k] /\ Ahead(k)' = rows[k]
    BY <1>0, <1>2, <2>1, IdlePc DEF Ahead
  <2> QED
    BY <1>0, <1>2, <2>1, <2>2, <2>3, IdlePc DEF Undisturbed
<1> QED
  BY <1>5, <1>6, <1>7, <1>8, <1>9

\* A line of the report, and the next of the plan.
LEMMA Advanced ==
  ASSUME NEW was, BulkFieldNames \subseteq DOMAIN was, was.plan \in Seq(PlanRec), was.plan # <<>>,
         was.plan = bulk.plan, was.status \in Seq(StatusRec), NEW st \in {"skipped", "failed", "applied"}
  PROVE  LET c == Advance(st, was) IN
         /\ DOMAIN c = DOMAIN was /\ c.pc = was.pc /\ c.field = was.field
         /\ c.existing = was.existing /\ c.accepted = was.accepted
         /\ c.plan \in Seq(PlanRec) /\ c.status \in Seq(StatusRec)
         /\ c.status = Append(was.status, [loc |-> Todo.loc, status |-> st])
<1> DEFINE line == [loc |-> Todo.loc, status |-> st]
           c == Advance(st, was)
<1>1. bulk.plan[1] \in PlanRec /\ Tail(was.plan) \in Seq(PlanRec)
  BY ElementOfSeq, EmptySeq, HeadTailProperties, LenProperties
<1>2. line \in StatusRec
  BY <1>1 DEF PlanRec, StatusRec, Todo
<1> HIDE DEF line
<1>3. Append(was.status, line) \in Seq(StatusRec)
  BY <1>2, AppendProperties
<1>4. c = [was EXCEPT !.plan = Tail(was.plan), !.status = Append(was.status, line)]
  BY DEF Advance, line
<1> HIDE DEF c
<1>5. /\ DOMAIN c = DOMAIN was /\ c.pc = was.pc /\ c.field = was.field
      /\ c.existing = was.existing /\ c.accepted = was.accepted
      /\ c.plan = Tail(was.plan) /\ c.status = Append(was.status, line)
  BY <1>4 DEF BulkFieldNames
<1> QED
  BY <1>1, <1>3, <1>5 DEF c, line

LEMMA TellsOn ==
  ASSUME TextShape, Told, bulk # Idle, NEW st \in {"skipped", "failed", "applied"},
         NEW l, l = Todo.loc, [loc |-> l, status |-> st] \in StatusRec,
         bulk'.status = Append(bulk.status, [loc |-> l, status |-> st]),
         bulk'.pc = "loop", bulk.accepted \subseteq bulk'.accepted,
         bulk'.accepted \subseteq bulk.accepted \cup {l},
         st = "applied" => l \in bulk'.accepted,
         st = "skipped" => bulk.pc = "loop" /\ bulk'.accepted = bulk.accepted
  PROVE  Told'
<1> DEFINE line == [loc |-> l, status |-> st]
           n == Len(bulk.status)
<1>0. bulk.status \in Seq(StatusRec) /\ bulk.pc # "idle"
  BY DEF TextShape, BulkShape
<1>1. line.loc = l /\ line.status = st
  OBVIOUS
<1> HIDE DEF line
<1>2. bulk'.status = Append(bulk.status, line) /\ line \in StatusRec
  BY DEF line
<1>3. bulk'.status \in Seq(StatusRec) /\ Len(bulk'.status) = n + 1
      /\ (\A i \in 1..n : bulk'.status[i] = bulk.status[i]) /\ bulk'.status[n + 1] = line
  BY <1>0, <1>2, AppendProperties
<1>4. n \in Nat /\ DOMAIN bulk.status = 1..n /\ DOMAIN bulk'.status = 1..(n + 1)
  BY <1>0, <1>3, LenProperties
<1>5. ASSUME NEW i \in 1..(n + 1), bulk'.status[i].status = "applied"
      PROVE  bulk'.status[i].loc \in bulk'.accepted
  <2>1. CASE i = n + 1
    BY <1>1, <1>3, <1>5, <2>1
  <2>2. CASE i # n + 1
    <3>1. i \in 1..n /\ bulk'.status[i] = bulk.status[i]
      BY <1>3, <1>4, <2>2
    <3> QED
      BY <1>4, <1>5, <3>1 DEF Told
  <2> QED
    BY <2>1, <2>2
<1>6. ASSUME NEW x \in bulk'.accepted
      PROVE  \E j \in 1..(n + 1) : bulk'.status[j].loc = x /\ bulk'.status[j].status # "skipped"
  <2>1. CASE x = l /\ st # "skipped"
    BY <1>1, <1>3, <1>4, <2>1
  <2>2. CASE x # l \/ st = "skipped"
    <3>1. x \in bulk.accepted /\ ~(bulk.pc \in {"update", "insert"} /\ x = l)
      BY <2>2
    <3>2. PICK j \in 1..n : bulk.status[j].loc = x /\ bulk.status[j].status # "skipped"
      BY <1>4, <3>1 DEF Told
    <3>3. j \in 1..(n + 1) /\ bulk'.status[j] = bulk.status[j]
      BY <1>3, <1>4
    <3> QED
      BY <3>2, <3>3
  <2> QED
    BY <2>1, <2>2
<1> QED
  BY <1>4, <1>5, <1>6 DEF Told

\* What every step of a bulk apply starts from.
LEMMA BulkAtWork ==
  ASSUME TextSetting, TextInv, bulk # Idle
  PROVE  /\ BulkFieldNames \subseteq DOMAIN bulk /\ bulk.field \in BulkFields /\ Kind \in Kinds
         /\ bulk.plan \in Seq(PlanRec) /\ bulk.status \in Seq(StatusRec)
         /\ bulk.pc \in {"loop", "update", "insert"} /\ "pc" \in DOMAIN bulk
         /\ bulk.plan # <<>> =>
              /\ Todo \in PlanRec
              /\ \A st \in {"skipped", "failed", "applied"} :
                   [loc |-> Todo.loc, status |-> st] \in StatusRec
<1>1. BulkShape
  BY DEF TextInv, TextShape
<1>2. bulk.plan # <<>> => Todo \in PlanRec
  BY <1>1, ElementOfSeq, EmptySeq, LenProperties DEF BulkShape, Todo
<1>3. bulk.plan # <<>> => \A st \in {"skipped", "failed", "applied"} :
                   [loc |-> Todo.loc, status |-> st] \in StatusRec
  BY <1>2 DEF PlanRec, StatusRec
<1> QED
  BY <1>1, <1>2, <1>3, KindIsKind DEF BulkShape

\* The bulk apply goes to its next locale, and neither Apple nor the rows have moved since
\* it last did.
LEMMA BulkPasses ==
  ASSUME TextSetting, TextInv, bulk.pc = "loop", bulk.plan # <<>>,
         NEW st \in {"skipped", "failed"}, bulk' = Advance(st, bulk),
         UNCHANGED <<apple, rows, mstate, sync, single, had, drift>>
  PROVE  TextInv'
<1> USE DEF TextInv
<1>0. bulk # Idle
  BY IdlePc
<1>1. /\ BulkFieldNames \subseteq DOMAIN bulk /\ bulk.field \in BulkFields
      /\ bulk.plan \in Seq(PlanRec) /\ bulk.status \in Seq(StatusRec)
      /\ [loc |-> Todo.loc, status |-> st] \in StatusRec
  BY <1>0, BulkAtWork
<1>2. /\ DOMAIN bulk' = DOMAIN bulk /\ bulk'.pc = "loop" /\ bulk'.field = bulk.field
      /\ bulk'.existing = bulk.existing /\ bulk'.accepted = bulk.accepted
      /\ bulk'.plan \in Seq(PlanRec) /\ bulk'.status \in Seq(StatusRec)
      /\ bulk'.status = Append(bulk.status, [loc |-> Todo.loc, status |-> st])
  BY SMTT(60), <1>1, Advanced
<1>3. BulkShape' /\ bulk' # Idle
  BY <1>1, <1>2, IdlePc DEF BulkShape, BulkFieldNames
<1>4. TextShape'
  BY <1>3 DEF TextShape, SyncShape, SingleShape
<1>5. AllSourced'
  BY <1>2 DEF AllSourced
<1>6. SyncReads'
  BY <1>0 DEF SyncReads
<1>7. Told'
  BY <1>0, <1>1, <1>2, TellsOn
<1>8. Undisturbed'
  <2>1. Kind' = Kind
    BY <1>2 DEF Kind
  <2>2. \A k \in Kinds : Ahead(k)' = Ahead(k)
    BY <1>2 DEF Ahead
  <2> QED
    BY <1>0, <1>2, <1>3, <2>1, <2>2 DEF Undisturbed
<1> QED
  BY <1>4, <1>5, <1>6, <1>7, <1>8

\* What a write of the bulk apply makes of Apple's page.
LEMMA Written ==
  ASSUME TextSetting, TextInv, bulk # Idle, Write
  PROVE  /\ had \subseteq had' /\ {"state", "locs"} \subseteq DOMAIN apple' /\ DOMAIN apple'.locs = Kinds
         /\ \A k \in Kinds : Sourced(k, apple'.locs[k], had') /\ Sourced(k, rows[k], had')
         /\ \A k \in Kinds \ {Kind} : apple'.locs[k] = apple.locs[k]
         /\ HasRow => /\ apple'.locs[Kind] = Changed(apple.locs[Kind], Todo.loc, Change)
                      /\ Texts(Kind, Todo.loc, Change) \subseteq had'
         /\ ~HasRow => /\ apple'.locs[Kind] = Put(apple.locs[Kind], Todo.loc,
                                 [id |-> NewId, vals |-> With(Blank(Kind), Change)])
                       /\ Texts(Kind, Todo.loc, With(Blank(Kind), Change)) \subseteq had'
<1>0. Kind \in Kinds /\ TextShape /\ AllSourced
  BY BulkAtWork DEF TextInv
<1>1. had \subseteq had' => \A k \in Kinds : Sourced(k, rows[k], had')
  BY <1>0 DEF AllSourced, Sourced
<1>2. CASE HasRow
  BY <1>0, <1>1, <1>2, Patched DEF Write
<1>3. CASE ~HasRow
  BY <1>0, <1>1, <1>3, Posted DEF Write
<1> QED
  BY <1>2, <1>3

LEMMA BulkAnswered == ASSUME TextSetting, TextInv, BulkWrites PROVE TextInv'
<1> USE DEF TextInv
<1> DEFINE next == IF HasRow THEN "update" ELSE "insert"
<1>0. /\ bulk.pc = "loop" /\ bulk # Idle /\ bulk.plan # <<>> /\ Write
      /\ bulk' = [bulk EXCEPT !.pc = next, !.accepted = @ \cup {Todo.loc}, !.id = NewId]
      /\ UNCHANGED <<rows, mstate, sync, single, drift>>
  BY IdlePc DEF BulkWrites
<1>1. /\ BulkFieldNames \subseteq DOMAIN bulk /\ bulk.field \in BulkFields /\ Kind \in Kinds
      /\ bulk.plan \in Seq(PlanRec) /\ bulk.status \in Seq(StatusRec)
  BY <1>0, BulkAtWork
<1>2. /\ DOMAIN bulk' = DOMAIN bulk /\ bulk'.pc = next /\ bulk'.field = bulk.field
      /\ bulk'.existing = bulk.existing /\ bulk'.accepted = bulk.accepted \cup {Todo.loc}
      /\ bulk'.plan = bulk.plan /\ bulk'.status = bulk.status /\ bulk'.id = NewId
      /\ next \in {"update", "insert"} /\ (next = "update" <=> HasRow)
  BY <1>0, <1>1 DEF BulkFieldNames
<1> HIDE DEF next
<1>3. Kind' = Kind /\ Todo' = Todo /\ Change' = Change
  BY <1>2 DEF Kind, Todo, Change
<1>4. BulkShape' /\ bulk' # Idle
  BY <1>0, <1>1, <1>2, IdlePc DEF BulkShape, BulkFieldNames
<1>5. /\ had \subseteq had' /\ {"state", "locs"} \subseteq DOMAIN apple' /\ DOMAIN apple'.locs = Kinds
      /\ \A k \in Kinds : Sourced(k, apple'.locs[k], had') /\ Sourced(k, rows[k], had')
      /\ \A k \in Kinds \ {Kind} : apple'.locs[k] = apple.locs[k]
      /\ HasRow => /\ apple'.locs[Kind] = Changed(apple.locs[Kind], Todo.loc, Change)
                   /\ Texts(Kind, Todo.loc, Change) \subseteq had'
      /\ ~HasRow => /\ apple'.locs[Kind] = Put(apple.locs[Kind], Todo.loc,
                              [id |-> NewId, vals |-> With(Blank(Kind), Change)])
                    /\ Texts(Kind, Todo.loc, With(Blank(Kind), Change)) \subseteq had'
  BY <1>0, Written
<1>6. TextShape'
  BY <1>0, <1>4, <1>5 DEF TextShape, SyncShape, SingleShape
<1>7. AllSourced'
  <2>1. Blank(Kind)' = Blank(Kind)
    BY <1>3 DEF Blank
  <2>2. bulk'.pc = "update" => Texts(Kind, Todo.loc, Change)' \subseteq had'
    BY <1>2, <1>3, <1>5 DEF Texts
  <2>3. bulk'.pc = "insert" => Texts(Kind, Todo.loc, With(Blank(Kind), Change))' \subseteq had'
    BY <1>2, <1>3, <1>5, <2>1 DEF Texts, With
  <2>4. /\ sync.pc \in Listed => Sourced("app_info", sync.info, had')
        /\ sync.pc \in Listed => Sourced("version", sync.version, had')
        /\ single.pc = "update" => Texts(single.kind, single.loc, single.changes) \subseteq had'
    BY <1>5 DEF AllSourced, Sourced
  <2> QED
    BY <1>0, <1>5, <2>2, <2>3, <2>4 DEF AllSourced
<1>8. SyncReads'
  BY <1>0 DEF SyncReads
<1>9. Told'
  BY <1>0, <1>2, <1>3 DEF Told
<1>10. Undisturbed'
  <2> SUFFICES ASSUME ~drift PROVE Undisturbed'
    BY <1>0 DEF Undisturbed
  <2>1. sync = Idle /\ single = Idle /\ bulk.existing = rows[Kind]
    BY <1>0 DEF Undisturbed
  <2>2. ASSUME mstate # Unsynced, NEW k \in Kinds, HasParent(k, mstate.state)
        PROVE  apple'.locs[k] = Ahead(k)'
    <3>1. apple.locs[k] = rows[k]
      BY <1>0, <2>1, <2>2, IdlePc DEF Undisturbed, Ahead
    <3>2. CASE k # Kind
      BY <1>0, <1>3, <1>5, <2>1, <3>1, <3>2, IdlePc DEF Ahead
    <3>3. CASE k = Kind /\ HasRow
      <4>1. Ahead(k)' = Changed(rows[k], Todo.loc, Change)
        BY <1>0, <1>2, <1>3, <2>1, <3>3, IdlePc DEF Ahead, Changed
      <4> QED
        BY <1>5, <3>1, <3>3, <4>1
    <3>4. CASE k = Kind /\ ~HasRow
      <4>1. Ahead(k)' = Put(rows[k], Todo.loc, [id |-> NewId, vals |-> With(Blank(k), Change)])
        BY <1>0, <1>2, <1>3, <2>1, <3>4, IdlePc DEF Ahead, Put, With, Blank
      <4> QED
        BY <1>5, <3>1, <3>4, <4>1
    <3> QED
      BY <3>2, <3>3, <3>4
  <2> QED
    BY <1>0, <1>2, <1>3, <2>1, <2>2, IdlePc DEF Undisturbed
<1> QED
  BY <1>6, <1>7, <1>8, <1>9, <1>10

\* The answer of a write is lost: it is reported as failed, and Apple may have done it.
LEMMA BulkUnanswered == ASSUME TextSetting, TextInv, BulkLosesAnswer PROVE TextInv'
<1> USE DEF TextInv
<1> DEFINE was == [bulk EXCEPT !.accepted = @ \cup {Todo.loc}]
<1>0. /\ bulk.pc = "loop" /\ bulk # Idle /\ bulk.plan # <<>> /\ Write
      /\ bulk' = Advance("failed", was) /\ drift' = TRUE
      /\ UNCHANGED <<rows, mstate, sync, single>>
  BY IdlePc DEF BulkLosesAnswer, Unanswered
<1>1. /\ BulkFieldNames \subseteq DOMAIN bulk /\ bulk.field \in BulkFields
      /\ bulk.plan \in Seq(PlanRec) /\ bulk.status \in Seq(StatusRec)
      /\ [loc |-> Todo.loc, status |-> "failed"] \in StatusRec
  BY <1>0, BulkAtWork
<1>2. /\ DOMAIN was = DOMAIN bulk /\ was.pc = "loop" /\ was.field = bulk.field
      /\ was.existing = bulk.existing /\ was.accepted = bulk.accepted \cup {Todo.loc}
      /\ was.plan = bulk.plan /\ was.status = bulk.status
  BY <1>0, <1>1 DEF BulkFieldNames
<1> HIDE DEF was
<1>3. /\ DOMAIN bulk' = DOMAIN bulk /\ bulk'.pc = "loop" /\ bulk'.field = bulk.field
      /\ bulk'.accepted = bulk.accepted \cup {Todo.loc}
      /\ bulk'.plan \in Seq(PlanRec) /\ bulk'.status \in Seq(StatusRec)
      /\ bulk'.status = Append(bulk.status, [loc |-> Todo.loc, status |-> "failed"])
  <2>1. /\ BulkFieldNames \subseteq DOMAIN was /\ was.plan \in Seq(PlanRec) /\ was.plan # <<>>
        /\ was.plan = bulk.plan /\ was.status \in Seq(StatusRec)
    BY <1>0, <1>1, <1>2
  <2> QED
    BY SMTT(60), <1>0, <1>2, <2>1, Advanced
<1>4. BulkShape' /\ bulk' # Idle
  BY <1>1, <1>3, IdlePc DEF BulkShape, BulkFieldNames
<1>5. /\ had \subseteq had' /\ {"state", "locs"} \subseteq DOMAIN apple' /\ DOMAIN apple'.locs = Kinds
      /\ \A k \in Kinds : Sourced(k, apple'.locs[k], had') /\ Sourced(k, rows[k], had')
  BY <1>0, Written
<1>6. TextShape'
  BY <1>0, <1>4, <1>5 DEF TextShape, SyncShape, SingleShape
<1>7. AllSourced'
  <2>1. /\ sync.pc \in Listed => Sourced("app_info", sync.info, had')
        /\ sync.pc \in Listed => Sourced("version", sync.version, had')
        /\ single.pc = "update" => Texts(single.kind, single.loc, single.changes) \subseteq had'
    BY <1>5 DEF AllSourced, Sourced
  <2> QED
    BY <1>0, <1>3, <1>5, <2>1 DEF AllSourced
<1>8. SyncReads'
  BY <1>0 DEF SyncReads
<1>9. Told'
  BY <1>0, <1>1, <1>3, TellsOn
<1>10. Undisturbed'
  BY <1>0 DEF Undisturbed
<1> QED
  BY <1>6, <1>7, <1>8, <1>9, <1>10

\* A request that ends, or died: nothing is left of it.
LEMMA BulkOver ==
  ASSUME TextInv, bulk # Idle, bulk' = Idle,
         UNCHANGED <<apple, rows, mstate, sync, single, had>>,
         drift' = TRUE \/ (drift' = drift /\ bulk.pc = "loop")
  PROVE  TextInv'
<1> USE DEF TextInv
<1>1. TextShape'
  BY IdlePc DEF TextShape, SyncShape, SingleShape, BulkShape
<1>2. AllSourced'
  BY IdlePc DEF AllSourced
<1>3. SyncReads' /\ Told'
  BY DEF SyncReads, Told
<1>4. Undisturbed'
  <2> SUFFICES ASSUME ~drift' PROVE Undisturbed'
    BY DEF Undisturbed
  <2>1. ~drift /\ bulk.pc = "loop" /\ single = Idle
    BY DEF Undisturbed
  <2>2. \A k \in Kinds : Ahead(k)' = Ahead(k)
    BY <2>1, IdlePc DEF Ahead
  <2> QED
    BY <2>1, <2>2, IdlePc DEF Undisturbed
<1> QED
  BY <1>1, <1>2, <1>3, <1>4

LEMMA BulkCommitted == ASSUME TextSetting, TextInv, BulkCommits PROVE TextInv'
<1> USE DEF TextInv
<1> DEFINE l == Todo.loc
           new == [id |-> bulk.id, vals |-> With(Blank(Kind), Change)]
           taken == l \in DOMAIN rows[Kind]
           kept == Put(bulk.existing, l, rows'[Kind][l])
           was == [bulk EXCEPT !.pc = "loop", !.existing = kept]
<1>0. bulk.pc \in {"update", "insert"} /\ bulk # Idle /\ bulk.plan # <<>>
      /\ UNCHANGED <<apple, mstate, sync, single, had>>
  BY IdlePc DEF BulkCommits, TextShape, BulkShape
<1>1. /\ BulkFieldNames \subseteq DOMAIN bulk /\ bulk.field \in BulkFields /\ Kind \in Kinds
      /\ bulk.plan \in Seq(PlanRec) /\ bulk.status \in Seq(StatusRec)
      /\ [loc |-> Todo.loc, status |-> "applied"] \in StatusRec
  BY <1>0, BulkAtWork
<1>2. CASE (bulk.pc = "insert") = taken
  <2>1. bulk' = Idle /\ drift' = TRUE /\ UNCHANGED rows
    BY <1>2 DEF BulkCommits
  <2> QED
    BY <1>0, <2>1, BulkOver
<1>3. CASE (bulk.pc = "insert") # taken
  <2>1. /\ rows' = IF bulk.pc = "insert" THEN [rows EXCEPT ![Kind] = Put(@, l, new)]
                   ELSE Mirrored(Kind, l, bulk.existing[l], Change)
        /\ bulk' = Advance("applied", was) /\ UNCHANGED drift
    BY <1>3 DEF BulkCommits
  <2>2. /\ DOMAIN was = DOMAIN bulk /\ was.pc = "loop" /\ was.field = bulk.field
        /\ was.existing = kept /\ was.accepted = bulk.accepted
        /\ was.plan = bulk.plan /\ was.status = bulk.status
    BY <1>1 DEF BulkFieldNames
  <2> HIDE DEF was, kept
  <2>3. /\ DOMAIN bulk' = DOMAIN bulk /\ bulk'.pc = "loop" /\ bulk'.field = bulk.field
        /\ bulk'.existing = kept /\ bulk'.accepted = bulk.accepted
        /\ bulk'.plan \in Seq(PlanRec) /\ bulk'.status \in Seq(StatusRec)
        /\ bulk'.status = Append(bulk.status, [loc |-> Todo.loc, status |-> "applied"])
    <3>1. /\ BulkFieldNames \subseteq DOMAIN was /\ was.plan \in Seq(PlanRec) /\ was.plan # <<>>
          /\ was.plan = bulk.plan /\ was.status \in Seq(StatusRec)
      BY <1>0, <1>1, <2>2
    <3> QED
      BY ZenonT(120), <2>1, <2>2, <3>1, Advanced
  <2>4. BulkShape' /\ bulk' # Idle
    BY <1>1, <2>3, IdlePc DEF BulkShape, BulkFieldNames
  <2>5. /\ DOMAIN rows' = Kinds /\ \A k \in Kinds \ {Kind} : rows'[k] = rows[k]
        /\ \A k \in Kinds : Sourced(k, rows'[k], had)
        /\ bulk.pc = "insert" => rows'[Kind] = Put(rows[Kind], l, new)
        /\ bulk.pc = "update" /\ bulk.existing[l] = rows[Kind][l] =>
             rows'[Kind] = Changed(rows[Kind], l, Change)
    <3>1. CASE bulk.pc = "insert"
      <4>1. rows' = [rows EXCEPT ![Kind] = Put(rows[Kind], l, new)]
        BY <2>1, <3>1
      <4>2. {"id", "vals"} \subseteq DOMAIN new /\ Texts(Kind, l, new.vals) \subseteq had
        BY <3>1 DEF AllSourced
      <4> HIDE DEF new
      <4>3. Sourced(Kind, Put(rows[Kind], l, new), had)
        BY <1>1, <4>2 DEF AllSourced, Sourced, Put
      <4>4. /\ DOMAIN rows' = Kinds /\ rows'[Kind] = Put(rows[Kind], l, new)
            /\ \A k \in Kinds \ {Kind} : rows'[k] = rows[k]
        BY <1>1, <4>1 DEF TextShape
      <4>5. \A k \in Kinds : Sourced(k, rows'[k], had)
        BY <4>3, <4>4 DEF AllSourced
      <4> QED
        BY <3>1, <4>4, <4>5
    <3>2. CASE bulk.pc = "update"
      <4>1. rows' = Mirrored(Kind, l, bulk.existing[l], Change) /\ l \in DOMAIN rows[Kind]
        BY <1>3, <2>1, <3>2
      <4>2. Texts(Kind, l, Change) \subseteq had
        BY <3>2 DEF AllSourced
      <4>3. TextShape /\ AllSourced /\ had' = had
        BY <1>0
      <4> QED
        BY <1>1, <3>2, <4>1, <4>2, <4>3, MirroredIs
    <3> QED
      BY <1>0, <3>1, <3>2
  <2>6. TextShape'
    BY <1>0, <2>1, <2>4, <2>5 DEF TextShape, SyncShape, SingleShape
  <2>7. AllSourced'
    BY <1>0, <2>3, <2>5 DEF AllSourced
  <2>8. SyncReads'
    BY <1>0, <2>1, <2>4 DEF SyncReads
  <2>9. Told'
    <3>1. l \in bulk.accepted
      BY <1>0 DEF Told
    <3> QED
      BY <1>0, <1>1, <2>3, <3>1, TellsOn
  <2>10. Undisturbed'
    <3> SUFFICES ASSUME ~drift PROVE Undisturbed'
      BY <2>1 DEF Undisturbed
    <3>1. sync = Idle /\ single = Idle /\ bulk.existing = rows[Kind]
      BY <1>0 DEF Undisturbed
    <3>2. Kind' = Kind
      BY <2>3 DEF Kind
    <3>3. bulk'.existing = rows'[Kind]
      <4>1. CASE bulk.pc = "insert"
        <5>1. rows'[Kind] = Put(rows[Kind], l, new)
          BY <2>5, <4>1
        <5> HIDE DEF new
        <5>2. rows'[Kind][l] = new
          BY <5>1 DEF Put
        <5> QED
          BY <2>3, <3>1, <5>1, <5>2 DEF kept
      <4>2. CASE bulk.pc = "update"
        <5>1. rows'[Kind] = Changed(rows[Kind], l, Change) /\ l \in DOMAIN rows[Kind]
          BY <1>3, <2>5, <3>1, <4>2
        <5>2. Put(rows[Kind], l, Changed(rows[Kind], l, Change)[l]) = Changed(rows[Kind], l, Change)
          BY <5>1 DEF Put, Changed
        <5> QED
          BY <2>3, <3>1, <5>1, <5>2 DEF kept
      <4> QED
        BY <1>0, <4>1, <4>2
    <3>4. ASSUME mstate # Unsynced, NEW k \in Kinds, HasParent(k, mstate.state)
          PROVE  apple'.locs[k] = Ahead(k)'
      <4>1. apple.locs[k] = Ahead(k)
        BY <3>1, <3>4 DEF Undisturbed
      <4>2. Ahead(k)' = rows'[k]
        BY <1>0, <2>3, <3>1, IdlePc DEF Ahead
      <4>3. CASE k # Kind
        BY <1>0, <2>5, <3>1, <4>1, <4>2, <4>3, IdlePc DEF Ahead
      <4>4. CASE k = Kind /\ bulk.pc = "insert"
        BY SMTT(60), <1>0, <2>5, <3>1, <4>1, <4>2, <4>4, IdlePc DEF Ahead
      <4>5. CASE k = Kind /\ bulk.pc = "update"
        <5>1. bulk.existing[l] = rows[Kind][l]
          BY <3>1
        <5> QED
          BY <1>0, <2>5, <3>1, <4>1, <4>2, <4>5, <5>1, IdlePc DEF Ahead
      <4> QED
        BY <1>0, <4>3, <4>4, <4>5
    <3> QED
      BY SMTT(60), <1>0, <2>3, <2>4, <3>1, <3>2, <3>3, <3>4, IdlePc DEF Undisturbed
  <2> QED
    BY <2>6, <2>7, <2>8, <2>9, <2>10
<1> QED
  BY <1>2, <1>3

LEMMA WorldMoves == ASSUME TextInv, VersionMoves \/ Crash PROVE TextInv'
<1> USE DEF TextInv
<1>1. CASE VersionMoves
  <2>1. /\ UNCHANGED <<rows, mstate, sync, single, bulk, had, drift>>
        /\ \E st : apple' = [apple EXCEPT !.state = st]
    BY <1>1 DEF VersionMoves
  <2>2. apple'.locs = apple.locs /\ {"state", "locs"} \subseteq DOMAIN apple'
    BY <2>1 DEF TextShape
  <2>3. TextShape'
    BY <2>1, <2>2 DEF TextShape, SyncShape, SingleShape, BulkShape
  <2>4. AllSourced'
    BY <2>1, <2>2 DEF AllSourced, Kind, Todo, Change
  <2>5. SyncReads' /\ Told'
    BY <2>1, <2>2 DEF SyncReads, Told, Todo
  <2>6. Undisturbed'
    <3>1. \A k \in Kinds : Ahead(k)' = Ahead(k)
      BY <2>1 DEF Ahead, Kind, Todo, Change
    <3> QED
      BY <2>1, <2>2, <3>1 DEF Undisturbed, Kind
  <2> QED
    BY <2>3, <2>4, <2>5, <2>6
<1>2. CASE Crash
  <2>1. /\ UNCHANGED <<apple, rows, mstate, had>> /\ drift' = TRUE
        /\ sync' = Idle /\ single' = Idle /\ bulk' = Idle
    BY <1>2 DEF Crash
  <2>2. TextShape' /\ AllSourced'
    BY <2>1, IdlePc DEF TextShape, SyncShape, SingleShape, BulkShape, AllSourced, Listed
  <2>3. SyncReads' /\ Told' /\ Undisturbed'
    BY <2>1 DEF SyncReads, Told, Undisturbed
  <2> QED
    BY <2>2, <2>3
<1> QED
  BY <1>1, <1>2

LEMMA TextsKeep == ASSUME TextSetting, TextInv, [Next]_vars PROVE TextInv'
<1>1. CASE UNCHANGED vars
  <2>1. UNCHANGED <<apple, rows, mstate, sync, single, bulk, had, drift>>
    BY <1>1 DEF vars
  <2>2. TextShape' /\ AllSourced'
    BY <2>1 DEF TextInv, TextShape, SyncShape, SingleShape, BulkShape, AllSourced, Kind, Todo, Change
  <2>3. SyncReads' /\ Told'
    BY <2>1 DEF TextInv, SyncReads, Told, Todo
  <2>4. Undisturbed'
    BY <2>1 DEF TextInv, Undisturbed, Ahead, Kind, Todo, Change
  <2> QED
    BY <2>2, <2>3, <2>4 DEF TextInv
<1>2. CASE StartSync \/ metadata_sync \/ ReadAppInfos \/ ReadVersions \/ ReadVersionTexts
            \/ WriteSnapshot \/ SyncFails
  BY <1>2, SyncSteps, SnapshotWritten DEF metadata_sync
<1>3. ASSUME NEW kind \in Kinds, NEW l \in Locales, NEW c \in Changes(kind),
             \/ CreateLocale(kind, l, c) \/ UpdateLocale(kind, l, c)
             \/ metadata_create_locale(kind, l, c) \/ metadata_update_locale(kind, l, c)
      PROVE  TextInv'
  BY <1>3, LocaleMade, LocaleChanged DEF metadata_create_locale, metadata_update_locale
<1>4. ASSUME NEW kind \in Kinds, NEW l \in Locales,
             DeleteLocale(kind, l) \/ metadata_delete_locale(kind, l)
      PROVE  TextInv'
  BY <1>4, LocaleDeleted DEF metadata_delete_locale
<1>5. CASE CommitOne
  BY <1>5, OneCommitted
<1>6. ASSUME NEW f \in BulkFields, NEW vs \in [Locales -> Values], NEW t \in Targets,
             NEW force \in BOOLEAN, NEW create \in BOOLEAN,
             StartBulk(f, vs, t, force, create) \/ metadata_bulk_apply(f, vs, t, force, create)
      PROVE  TextInv'
  BY <1>6, BulkStarted DEF metadata_bulk_apply
<1>7. CASE BulkSkips \/ BulkRefused
  <2>1. /\ bulk.pc = "loop" /\ bulk.plan # <<>>
        /\ UNCHANGED <<apple, rows, mstate, sync, single, had, drift>>
        /\ bulk' = Advance("skipped", bulk) \/ bulk' = Advance("failed", bulk)
    BY <1>7 DEF BulkSkips, BulkRefused, Same
  <2> QED
    BY <2>1, BulkPasses
<1>8. CASE BulkWrites \/ BulkLosesAnswer \/ BulkCommits
  BY <1>8, BulkAnswered, BulkUnanswered, BulkCommitted
<1>9. CASE EndBulk
  BY <1>9, BulkOver, IdlePc DEF EndBulk
<1>10. CASE VersionMoves \/ Crash
  BY <1>10, WorldMoves
<1> QED
  BY <1>1, <1>2, <1>3, <1>4, <1>5, <1>6, <1>7, <1>8, <1>9, <1>10 DEF Next

\* TextInv holds of the page at Apple, its rows and the requests at them (metadata.py): the
\* rows are Apple's page but for what the request at work is about to commit.
THEOREM TextsInductive == ASSUME TextSetting PROVE Spec => []TextInv
<1>1. Init => TextInv
  BY TextsInitially
<1>2. TextInv /\ [Next]_vars => TextInv'
  BY TextsKeep
<1> QED
  BY <1>1, <1>2, PTL DEF Spec

LEMMA InvIsTrue == TextInv => MirrorIsTrue /\ ReportsTheTruth
<1> SUFFICES ASSUME TextInv PROVE MirrorIsTrue /\ ReportsTheTruth
  OBVIOUS
<1>1. NeverAhead
  <2> SUFFICES ASSUME NEW kind \in Kinds, NEW l \in DOMAIN rows[kind]
      PROVE  Texts(kind, l, rows[kind][l].vals) \subseteq had
    BY DEF NeverAhead
  <2> QED
    BY DEF TextInv, AllSourced, Sourced
<1>2. Follows
  <2> SUFFICES ASSUME ~Busy, ~drift, mstate # Unsynced, NEW kind \in Kinds,
                      HasParent(kind, mstate.state)
      PROVE  rows[kind] = apple.locs[kind]
    BY DEF Follows
  <2>1. sync = Idle /\ single = Idle /\ bulk = Idle
    BY DEF Busy
  <2> QED
    BY <2>1, IdlePc DEF TextInv, Undisturbed, Ahead
<1>3. ReportsTheTruth
  <2> SUFFICES ASSUME bulk.pc = "loop", NEW i \in DOMAIN bulk.status
      PROVE  LET s == bulk.status[i] IN
             /\ s.status = "applied" => s.loc \in bulk.accepted
             /\ s.status = "skipped" =>
                 \/ s.loc \notin bulk.accepted
                 \/ \E j \in DOMAIN bulk.status : bulk.status[j].loc = s.loc
                                             /\ bulk.status[j].status # "skipped"
    BY DEF ReportsTheTruth
  <2>1. bulk # Idle
    BY IdlePc
  <2> QED
    BY <2>1 DEF TextInv, Told
<1> QED
  BY <1>1, <1>2, <1>3 DEF MirrorIsTrue

-----------------------------------------------------------------------------
(***************************************************************************)
(* Single screenshots: a set, and what the requests listed of it.          *)
(***************************************************************************)

\* No file is named like the screenshots that are there at first.
AssetSetting == Names # {} /\ 0 \notin Names /\ MAX_SCREENSHOT_FILES \in Nat /\ MaxEdits \in Nat

Shot == [id : Nat, name : Names \cup {0}]
DistinctShots(shots) == \A i, j \in DOMAIN shots : shots[i].id = shots[j].id => i = j

\* What a sequence of screenshots is made of.
LEMMA Shots ==
  ASSUME NEW l \in Seq(Shot)
  PROVE  /\ Len(l) \in Nat /\ DOMAIN l = 1..Len(l)
         /\ \A i \in DOMAIN l : l[i] \in Shot /\ l[i].id \in Nat /\ l[i].name \in Names \cup {0}
<1>1. Len(l) \in Nat /\ DOMAIN l = 1..Len(l) /\ \A i \in DOMAIN l : l[i] \in Shot
  BY LenProperties, ElementOfSeq
<1> QED BY <1>1 DEF Shot

\* A sequence with an element more, at a place.
WithAt(w, l, at, e) ==
  /\ w \in Seq(Shot) /\ Len(w) = Len(l) + 1 /\ at \in DOMAIN w
  /\ \A i \in DOMAIN w : w[i] = IF i < at THEN l[i] ELSE IF i = at THEN e ELSE l[i - 1]
\* A sequence with one less.
LessAt(w, l, at) ==
  /\ w \in Seq(Shot) /\ Len(w) = Len(l) - 1
  /\ \A i \in DOMAIN w : w[i] = IF i < at THEN l[i] ELSE l[i + 1]

\* Inserting at a place puts it there and nowhere else.
LEMMA Inserts ==
  ASSUME NEW l \in Seq(Shot), NEW e \in Shot, NEW at \in 1..Len(l) + 1
  PROVE  WithAt(A!InsertAt(l, at, e), l, at, e)
<1> DEFINE x == SubSeq(l, 1, at - 1)  y == SubSeq(l, at, Len(l))  m == <<e>>
<1>1. Len(l) \in Nat /\ at \in Nat /\ 1 <= at /\ at <= Len(l) + 1
  BY LenProperties
<1>2. x \in Seq(Shot) /\ Len(x) = at - 1 /\ \A i \in 1..(at - 1) : x[i] = l[i]
  BY <1>1, SubSeqProperties
<1>3. y \in Seq(Shot) /\ Len(y) = Len(l) + 1 - at /\ \A i \in 1..(Len(l) + 1 - at) : y[i] = l[at + i - 1]
  BY <1>1, SubSeqProperties
<1>4. m \in Seq(Shot) /\ Len(m) = 1 /\ m[1] = e
  OBVIOUS
<1> HIDE DEF x, y, m
<1> DEFINE z == x \o m
<1>5. z \in Seq(Shot) /\ Len(z) = at /\ \A i \in 1..at : z[i] = IF i < at THEN l[i] ELSE e
  <2>1. /\ z \in Seq(Shot) /\ Len(z) = Len(x) + Len(m)
        /\ \A i \in 1..(Len(x) + Len(m)) : z[i] = IF i <= Len(x) THEN x[i] ELSE m[i - Len(x)]
    BY <1>2, <1>4, ConcatProperties
  <2>2. Len(x) + Len(m) = at
    BY <1>1, <1>2, <1>4
  <2> HIDE DEF z
  <2>3. ASSUME NEW i \in 1..at PROVE z[i] = IF i < at THEN l[i] ELSE e
    <3>1. CASE i < at
      BY SMTT(60), <1>1, <1>2, <2>1, <2>2, <3>1
    <3>2. CASE i = at
      BY <1>1, <1>2, <1>4, <2>1, <2>2, <3>2
    <3> QED BY <1>1, <3>1, <3>2
  <2> QED BY <2>1, <2>2, <2>3
<1> HIDE DEF z
<1> DEFINE w == z \o y
<1>6. /\ w \in Seq(Shot) /\ Len(w) = Len(z) + Len(y)
      /\ \A i \in 1..(Len(z) + Len(y)) : w[i] = IF i <= Len(z) THEN z[i] ELSE y[i - Len(z)]
  BY <1>3, <1>5, ConcatProperties
<1> HIDE DEF w
<1>7. Len(w) = Len(l) + 1 /\ DOMAIN w = 1..Len(w) /\ Len(z) + Len(y) = Len(l) + 1
  BY <1>1, <1>3, <1>5, <1>6, LenProperties
<1>8. ASSUME NEW i \in DOMAIN w
      PROVE  w[i] = IF i < at THEN l[i] ELSE IF i = at THEN e ELSE l[i - 1]
  <2>1. i \in 1..(Len(z) + Len(y)) /\ i \in Nat
    BY <1>1, <1>7
  <2>2. CASE i <= at
    <3>1. w[i] = z[i] /\ i \in 1..at
      BY <1>1, <1>5, <1>6, <2>1, <2>2
    <3> QED BY <1>1, <1>5, <2>2, <3>1
  <2>3. CASE i > at
    <3>1. w[i] = y[i - at]
      BY <1>1, <1>5, <1>6, <2>1, <2>3
    <3>2. i - at \in 1..(Len(l) + 1 - at) /\ at + (i - at) - 1 = i - 1
      BY <1>1, <1>7, <2>1, <2>3
    <3>3. y[i - at] = l[i - 1]
      BY <1>3, <3>2
    <3> QED BY <1>1, <2>1, <2>3, <3>1, <3>3
  <2> QED BY <1>1, <2>1, <2>2, <2>3
<1>9. w = A!InsertAt(l, at, e)
  BY DEF w, z, x, y, m, A!InsertAt
<1> QED
  <2>1. at \in DOMAIN w
    BY <1>1, <1>7
  <2> QED BY <1>6, <1>7, <1>8, <1>9, <2>1 DEF WithAt

\* Removing at a place takes out that one and no other.
LEMMA Removes ==
  ASSUME NEW l \in Seq(Shot), NEW k \in 1..Len(l)
  PROVE  LessAt(A!RemoveAt(l, k), l, k)
<1> DEFINE x == SubSeq(l, 1, k - 1)  y == SubSeq(l, k + 1, Len(l))
<1>1. k \in Nat /\ Len(l) \in Nat /\ k <= Len(l) /\ 1 <= k
  BY LenProperties
<1>2. x \in Seq(Shot) /\ Len(x) = k - 1 /\ \A i \in 1..(k - 1) : x[i] = l[i]
  BY <1>1, SubSeqProperties
<1>3. y \in Seq(Shot) /\ Len(y) = Len(l) - k /\ \A i \in 1..(Len(l) - k) : y[i] = l[k + i]
  BY <1>1, SubSeqProperties
<1> HIDE DEF x, y
<1> DEFINE w == x \o y
<1>4. /\ w \in Seq(Shot) /\ Len(w) = Len(x) + Len(y)
      /\ \A i \in 1..(Len(x) + Len(y)) : w[i] = IF i <= Len(x) THEN x[i] ELSE y[i - Len(x)]
  BY <1>2, <1>3, ConcatProperties
<1> HIDE DEF w
<1>5. Len(w) = Len(l) - 1 /\ DOMAIN w = 1..Len(w)
  BY <1>1, <1>2, <1>3, <1>4, LenProperties
<1>6. ASSUME NEW i \in DOMAIN w PROVE w[i] = IF i < k THEN l[i] ELSE l[i + 1]
  <2>1. i \in 1..(Len(x) + Len(y)) /\ i \in Nat
    BY <1>1, <1>4, <1>5
  <2>2. CASE i < k
    <3>1. w[i] = x[i] /\ i \in 1..(k - 1)
      BY SMTT(60), <1>1, <1>2, <1>4, <2>1, <2>2
    <3> QED BY <1>2, <2>2, <3>1
  <2>3. CASE ~(i < k)
    <3>1. w[i] = y[i - (k - 1)]
      BY SMTT(60), <1>1, <1>2, <1>4, <2>1, <2>3
    <3>2. i - (k - 1) \in 1..(Len(l) - k) /\ k + (i - (k - 1)) = i + 1
      BY <1>1, <1>2, <1>3, <2>1, <2>3
    <3>3. y[i - (k - 1)] = l[i + 1]
      BY <1>3, <3>2
    <3> QED BY <2>3, <3>1, <3>3
  <2> QED BY <2>2, <2>3
<1>7. w = A!RemoveAt(l, k)
  BY DEF w, x, y, A!RemoveAt
<1> QED BY <1>4, <1>5, <1>6, <1>7 DEF LessAt

\* Without an id that is there, the others stay what and in the order they were.
LEMMA WithoutOne ==
  ASSUME NEW l \in Seq(Shot), DistinctShots(l), NEW k \in DOMAIN l
  PROVE  LessAt(A!Without(l, l[k].id), l, k)
<1>1. l[k].id \in A!Ids(l)
  BY DEF A!Ids
<1>2. \A i \in DOMAIN l : l[i].id = l[k].id <=> i = k
  BY DEF DistinctShots
<1>3. (CHOOSE i \in DOMAIN l : l[i].id = l[k].id) = k
  BY <1>2
<1>4. k \in 1..Len(l)
  BY Shots
<1> QED BY <1>1, <1>3, <1>4, Removes DEF A!Without

\* What is taken out of a sequence of distinct ids.
LEMMA LessFacts ==
  ASSUME NEW l \in Seq(Shot), DistinctShots(l), NEW k \in DOMAIN l, NEW w, LessAt(w, l, k)
  PROVE  /\ w \in Seq(Shot) /\ DistinctShots(w) /\ Len(w) = Len(l) - 1
         /\ A!Ids(w) = A!Ids(l) \ {l[k].id}
         /\ \A i \in DOMAIN w : \E j \in DOMAIN l : j # k /\ w[i] = l[j] /\ (i < k => j = i) /\ (~(i < k) => j = i + 1)
<1>1. /\ Len(l) \in Nat /\ DOMAIN l = 1..Len(l) /\ k \in 1..Len(l)
      /\ w \in Seq(Shot) /\ Len(w) = Len(l) - 1 /\ DOMAIN w = 1..Len(w)
      /\ \A i \in DOMAIN w : w[i] = IF i < k THEN l[i] ELSE l[i + 1]
  BY Shots DEF LessAt
<1>2. ASSUME NEW i \in DOMAIN w
      PROVE  \E j \in DOMAIN l : j # k /\ w[i] = l[j] /\ (i < k => j = i) /\ (~(i < k) => j = i + 1)
  <2>1. CASE i < k
    BY <1>1, <2>1
  <2>2. CASE ~(i < k)
    BY <1>1, <2>2
  <2> QED BY <2>1, <2>2
<1>3. ASSUME NEW j \in DOMAIN l, j # k PROVE \E i \in DOMAIN w : w[i] = l[j]
  <2>1. CASE j < k
    BY <1>1, <2>1
  <2>2. CASE ~(j < k)
    <3>1. j - 1 \in 1..Len(w) /\ ~(j - 1 < k) /\ (j - 1) + 1 = j
      BY <1>1, <1>3, <2>2
    <3> QED BY <1>1, <3>1
  <2> QED BY <2>1, <2>2
<1>4. DistinctShots(w)
  <2> SUFFICES ASSUME NEW i \in DOMAIN w, NEW j \in DOMAIN w, w[i].id = w[j].id PROVE i = j
    BY DEF DistinctShots
  <2>1. PICK p \in DOMAIN l : w[i] = l[p] /\ (i < k => p = i) /\ (~(i < k) => p = i + 1)
    BY <1>2
  <2>2. PICK q \in DOMAIN l : w[j] = l[q] /\ (j < k => q = j) /\ (~(j < k) => q = j + 1)
    BY <1>2
  <2>3. p = q
    BY <2>1, <2>2 DEF DistinctShots
  <2> QED BY <1>1, <2>1, <2>2, <2>3
<1>5. A!Ids(w) = A!Ids(l) \ {l[k].id}
  <2>1. ASSUME NEW x \in A!Ids(w) PROVE x \in A!Ids(l) /\ x # l[k].id
    BY <1>2, <2>1 DEF A!Ids, DistinctShots
  <2>2. ASSUME NEW x \in A!Ids(l), x # l[k].id PROVE x \in A!Ids(w)
    BY <1>3, <2>2 DEF A!Ids
  <2> QED BY <2>1, <2>2
<1> QED BY <1>1, <1>2, <1>4, <1>5

\* Without an id that is not there nothing changes.
LEMMA WithoutNone == ASSUME NEW l, NEW id, id \notin A!Ids(l) PROVE A!Without(l, id) = l
  BY DEF A!Without

\* In both cases.
LEMMA WithoutIs ==
  ASSUME NEW l \in Seq(Shot), DistinctShots(l), NEW id
  PROVE  /\ A!Without(l, id) \in Seq(Shot) /\ DistinctShots(A!Without(l, id))
         /\ A!Ids(A!Without(l, id)) = A!Ids(l) \ {id}
         /\ \A i \in DOMAIN A!Without(l, id) : \E j \in DOMAIN l : A!Without(l, id)[i] = l[j]
<1>1. CASE id \in A!Ids(l)
  <2>1. PICK k \in DOMAIN l : l[k].id = id
    BY <1>1 DEF A!Ids
  <2>2. LessAt(A!Without(l, id), l, k)
    BY <2>1, WithoutOne
  <2> QED BY <2>1, <2>2, LessFacts
<1>2. CASE id \notin A!Ids(l)
  BY <1>2, WithoutNone
<1> QED BY <1>1, <1>2

\* What is put in.
LEMMA MoreFacts ==
  ASSUME NEW l \in Seq(Shot), DistinctShots(l), NEW e \in Shot, e.id \notin A!Ids(l),
         NEW at, NEW w, WithAt(w, l, at, e)
  PROVE  /\ DistinctShots(w) /\ A!Ids(w) = A!Ids(l) \cup {e.id} /\ w[at] = e
         /\ \A i \in DOMAIN w : i # at => \E j \in DOMAIN l : w[i] = l[j] /\ (i < at => j = i) /\ (~(i < at) => j = i - 1)
         /\ A!Without(w, e.id) = l
<1>1. /\ Len(l) \in Nat /\ DOMAIN l = 1..Len(l) /\ at \in 1..Len(w)
      /\ w \in Seq(Shot) /\ Len(w) = Len(l) + 1 /\ DOMAIN w = 1..Len(w)
      /\ \A i \in DOMAIN w : w[i] = IF i < at THEN l[i] ELSE IF i = at THEN e ELSE l[i - 1]
  BY Shots DEF WithAt
<1>2. ASSUME NEW i \in DOMAIN w, i # at
      PROVE  \E j \in DOMAIN l : w[i] = l[j] /\ (i < at => j = i) /\ (~(i < at) => j = i - 1)
  <2>1. CASE i < at
    BY <1>1, <2>1
  <2>2. CASE ~(i < at)
    <3>1. i - 1 \in DOMAIN l
      BY <1>1, <1>2, <2>2
    <3> QED BY <1>1, <1>2, <2>2, <3>1
  <2> QED BY <2>1, <2>2
<1>3. ASSUME NEW j \in DOMAIN l PROVE \E i \in DOMAIN w : w[i] = l[j]
  <2>1. CASE j < at
    BY <1>1, <2>1
  <2>2. CASE ~(j < at)
    <3>1. j + 1 \in DOMAIN w /\ ~(j + 1 < at) /\ j + 1 # at /\ (j + 1) - 1 = j
      BY <1>1, <2>2
    <3> QED BY <1>1, <3>1
  <2> QED BY <2>1, <2>2
<1>4. w[at] = e /\ \A i \in DOMAIN w : i # at => w[i].id # e.id
  <2>1. w[at] = e
    BY <1>1
  <2>2. ASSUME NEW i \in DOMAIN w, i # at PROVE w[i].id # e.id
    BY <1>2, <2>2 DEF A!Ids
  <2> QED BY <2>1, <2>2
<1>5. DistinctShots(w)
  <2> SUFFICES ASSUME NEW i \in DOMAIN w, NEW j \in DOMAIN w, w[i].id = w[j].id PROVE i = j
    BY DEF DistinctShots
  <2>1. CASE i = at \/ j = at
    BY <1>4, <2>1
  <2>2. CASE i # at /\ j # at
    <3>1. PICK p \in DOMAIN l : w[i] = l[p] /\ (i < at => p = i) /\ (~(i < at) => p = i - 1)
      BY <1>2, <2>2
    <3>2. PICK q \in DOMAIN l : w[j] = l[q] /\ (j < at => q = j) /\ (~(j < at) => q = j - 1)
      BY <1>2, <2>2
    <3>3. p = q
      BY <3>1, <3>2 DEF DistinctShots
    <3> QED BY <1>1, <2>2, <3>1, <3>2, <3>3
  <2> QED BY <2>1, <2>2
<1>6. A!Ids(w) = A!Ids(l) \cup {e.id}
  <2>1. ASSUME NEW x \in A!Ids(w) PROVE x \in A!Ids(l) \cup {e.id}
    <3>1. PICK i \in DOMAIN w : x = w[i].id
      BY <2>1 DEF A!Ids
    <3>2. CASE i = at
      BY <1>4, <3>1, <3>2
    <3>3. CASE i # at
      BY <1>2, <3>1, <3>3 DEF A!Ids
    <3> QED BY <3>2, <3>3
  <2>2. ASSUME NEW x \in A!Ids(l) PROVE x \in A!Ids(w)
    BY <1>3, <2>2 DEF A!Ids
  <2>3. e.id \in A!Ids(w)
    BY <1>1, <1>4 DEF A!Ids
  <2> QED BY <2>1, <2>2, <2>3
<1>7. A!Without(w, e.id) = l
  <2> DEFINE v == A!Without(w, e.id)
  <2>1. LessAt(v, w, at)
    BY <1>1, <1>4, <1>5, WithoutOne
  <2> HIDE DEF v
  <2>2. v \in Seq(Shot) /\ Len(v) = Len(l)
    BY <1>1, <2>1 DEF LessAt
  <2>3. DOMAIN v = 1..Len(l)
    BY <2>2, Shots
  <2>4. ASSUME NEW i \in 1..Len(l) PROVE v[i] = l[i]
    <3>1. CASE i < at
      BY SMTT(60), <1>1, <2>1, <2>3, <3>1 DEF LessAt
    <3>2. CASE ~(i < at)
      <4>1. i + 1 \in DOMAIN w /\ ~(i + 1 < at) /\ i + 1 # at /\ (i + 1) - 1 = i
        BY <1>1, <3>2
      <4>2. w[i + 1] = l[i]
        BY SMTT(60), <1>1, <4>1
      <4>3. v[i] = w[i + 1]
        BY <2>1, <2>3, <3>2 DEF LessAt
      <4> QED BY <4>2, <4>3
    <3> QED BY <3>1, <3>2
  <2>5. v = l
    BY <2>2, <2>3, <2>4, SeqEqual
  <2> QED BY <2>5 DEF v
<1> QED BY <1>2, <1>4, <1>5, <1>6, <1>7

Editing(r) == edit[r] # A!Idle
EditRec ==
  [pc : {"find", "replace", "post", "order", "verify", "delete"}, do : {"upload", "delete"},
   by : A!Selectors \cup {"name"}, id : Nat, name : Names, at : Nat, listed : Seq(Shot),
   todo : Seq(Shot), prune : BOOLEAN, alone : BOOLEAN]
EditType ==
  /\ set \in [there : BOOLEAN, shots : Seq(Shot)]
  /\ DOMAIN edit = Requests /\ \A r \in Requests : Editing(r) => edit[r] \in EditRec
  /\ mixed \in BOOLEAN /\ edits \in Nat /\ edits <= MaxEdits

\* Ids are given once: the set has no id twice, and none that is yet to be given.
FreshIds ==
  /\ DistinctShots(set.shots)
  /\ \A x \in A!Ids(set.shots) : x <= edits \/ x > MaxEdits
  /\ \A r, s \in Requests : Editing(r) /\ Editing(s) /\ edit[r].id = edit[s].id => r = s

\* What a request has is alone only while there is no other.
Solitude == \A r, s \in Requests : Editing(r) /\ Editing(s) /\ edit[r].alone => r = s

\* Its own screenshot is not in its list, nor in the set before it is made.
OwnIsNew(r) ==
  /\ edit[r].id \in 1..edits
  /\ DistinctShots(edit[r].listed) /\ edit[r].id \notin A!Ids(edit[r].listed)
  /\ edit[r].pc \in {"find", "replace", "post"} => edit[r].id \notin A!Ids(set.shots)
  /\ edit[r].pc \in {"replace", "post", "order", "verify"} =>
       edit[r].do = "upload" /\ edit[r].at \in 1..Len(edit[r].listed) + 1
  /\ edit[r].pc = "delete" => edit[r].do = "delete"
  /\ edit[r].do = "upload" /\ edit[r].by # "name" => edit[r].at >= 1

\* What the set is to a request that runs alone.
OwnShot(r) == [id |-> edit[r].id, name |-> edit[r].name]
ListIsSet(r) ==
  edit[r].alone =>
    /\ edit[r].pc \in {"replace", "post", "delete"} => set.shots = edit[r].listed
    /\ edit[r].pc = "order" => WithAt(set.shots, edit[r].listed, Len(edit[r].listed) + 1, OwnShot(r))
    /\ edit[r].pc = "verify" => WithAt(set.shots, edit[r].listed, edit[r].at, OwnShot(r))

\* While no two requests overlapped and no upload went by position, no name is
\* doubled, and the one that is uploaded is not in the list.
OnceNamed(shots) ==
  \A i, j \in DOMAIN shots : shots[i].name = shots[j].name /\ shots[i].name \in Names => i = j
NameIsFree(r) ==
  /\ edit[r].alone /\ (edit[r].do = "upload" => edit[r].by = "name")
  /\ edit[r].pc = "replace" =>
       \A i \in DOMAIN edit[r].listed : i # edit[r].at => edit[r].listed[i].name # edit[r].name
  /\ edit[r].pc \in {"post", "order"} =>
       \A i \in DOMAIN edit[r].listed : edit[r].listed[i].name # edit[r].name

EditOk(r) == OwnIsNew(r) /\ ListIsSet(r) /\ (~mixed => NameIsFree(r))

\* The inductive invariant.
ShotInv ==
  /\ EditType /\ FreshIds /\ Solitude /\ (~mixed => OnceNamed(set.shots))
  /\ \A r \in Requests : Editing(r) => EditOk(r)

\* At first nothing is at work and the set is what it happens to be.
LEMMA ShotsInitially == ASSUME AssetSetting, A!Init PROVE ShotInv
<1>1. PICK n \in 0..MAX_SCREENSHOT_FILES :
           set = [there |-> TRUE, shots |-> [i \in 1..n |-> [id |-> MaxEdits + i, name |-> 0]]]
  BY DEF A!Init
<1> DEFINE shots == [i \in 1..n |-> [id |-> MaxEdits + i, name |-> 0]]
<1>2. /\ edits = 0 /\ mixed = FALSE /\ edit = [r \in Requests |-> A!Idle]
      /\ MaxEdits \in Nat /\ 0 \notin Names /\ n \in Nat
  BY DEF A!Init, AssetSetting
<1>3. /\ DOMAIN shots = 1..n
      /\ \A i \in 1..n : /\ shots[i].id = MaxEdits + i /\ shots[i].name = 0
                         /\ shots[i] = [id |-> MaxEdits + i, name |-> 0]
  OBVIOUS
<1>4. \A i \in 1..n : MaxEdits + i \in Nat /\ MaxEdits + i > MaxEdits
  BY <1>2
<1>5. \A i \in 1..n : shots[i] \in Shot
  BY <1>3, <1>4 DEF Shot
<1>6. shots \in Seq(Shot)
  <2>1. shots \in [1..n -> Shot]
    BY <1>5
  <2> QED BY <1>2, <2>1
<1>7. set = [there |-> TRUE, shots |-> shots]
  BY <1>1
<1> HIDE DEF shots
<1>8. set \in [there : BOOLEAN, shots : Seq(Shot)] /\ set.shots = shots
  BY <1>6, <1>7
<1>9. \A r \in Requests : ~Editing(r)
  BY <1>2 DEF Editing
<1>10. EditType
  <2>1. mixed \in BOOLEAN /\ DOMAIN edit = Requests
    BY <1>2
  <2>2. edits \in Nat /\ edits <= MaxEdits
    BY <1>2
  <2> QED BY <1>8, <1>9, <2>1, <2>2 DEF EditType
<1>11. FreshIds /\ Solitude /\ OnceNamed(set.shots)
  <2>1. DistinctShots(shots)
    BY <1>2, <1>3 DEF DistinctShots
  <2>2. OnceNamed(shots)
    BY <1>2, <1>3 DEF OnceNamed
  <2>3. \A x \in A!Ids(shots) : x > MaxEdits
    BY <1>3, <1>4 DEF A!Ids
  <2> QED BY <1>8, <1>9, <2>1, <2>2, <2>3 DEF FreshIds, Solitude
<1> QED BY <1>9, <1>10, <1>11 DEF ShotInv

\* What a request has, by name.
LEMMA Fields ==
  ASSUME ShotInv, NEW r \in Requests, edit[r].pc # "idle"
  PROVE  /\ Editing(r) /\ edit[r] \in EditRec /\ EditOk(r)
         /\ edit[r].listed \in Seq(Shot) /\ edit[r].todo \in Seq(Shot)
         /\ edit[r].id \in Nat /\ edit[r].name \in Names /\ edit[r].at \in Nat /\ edit[r].alone \in BOOLEAN
         /\ OwnShot(r) \in Shot
<1>1. Editing(r)
  BY DEF Editing, A!Idle
<1>2. edit[r] \in EditRec /\ EditOk(r)
  BY <1>1 DEF ShotInv, EditType
<1> QED BY <1>1, <1>2 DEF EditRec, OwnShot, Shot

\* A set that a step has made keeps its own rules.
SetOk(r, shots) ==
  /\ shots \in Seq(Shot) /\ DistinctShots(shots)
  /\ A!Ids(shots) \subseteq A!Ids(set.shots) \cup {edit[r].id}
  /\ ~mixed => OnceNamed(shots)

\* A request moves on, and the others do not.
LEMMA EditMoves ==
  ASSUME ShotInv, NEW r \in Requests, Editing(r), NEW rec,
         edit' = [edit EXCEPT ![r] = rec], UNCHANGED <<mixed, edits>>,
         set' \in [there : BOOLEAN, shots : Seq(Shot)], SetOk(r, set'.shots),
         \/ rec = A!Idle
         \/ rec \in EditRec /\ rec.id = edit[r].id /\ rec.alone = edit[r].alone /\ EditOk(r)'
  PROVE  ShotInv'
<1>1. /\ DOMAIN edit = Requests /\ edit'[r] = rec /\ DOMAIN edit' = Requests
      /\ \A s \in Requests : s # r => edit'[s] = edit[s]
  BY DEF ShotInv, EditType
<1>2. EditType'
  BY <1>1 DEF ShotInv, EditType, Editing
<1>3. edit[r].id \in 1..edits /\ edit[r] \in EditRec
  BY DEF ShotInv, EditOk, OwnIsNew, EditType
<1>4. FreshIds'
  <2>1. \A x \in A!Ids(set'.shots) : x <= edits \/ x > MaxEdits
    BY <1>3 DEF SetOk, ShotInv, FreshIds
  <2>2. \A s, t \in Requests : Editing(s)' /\ Editing(t)' /\ edit'[s].id = edit'[t].id => s = t
    BY <1>1 DEF ShotInv, FreshIds, Editing
  <2>3. DistinctShots(set'.shots)
    BY DEF SetOk
  <2> QED BY <2>1, <2>2, <2>3 DEF FreshIds, A!Ids, DistinctShots
<1>5. Solitude'
  BY <1>1 DEF ShotInv, Solitude, Editing
<1>6. (~mixed => OnceNamed(set.shots))'
  BY DEF SetOk, OnceNamed
<1>7. ASSUME NEW s \in Requests, Editing(s)' PROVE EditOk(s)'
  <2>1. CASE s = r
    BY <1>1, <1>7, <2>1 DEF Editing
  <2>2. CASE s # r
    <3>1. Editing(s) /\ EditOk(s) /\ edit'[s] = edit[s]
      BY <1>1, <1>7, <2>2 DEF ShotInv, Editing
    <3>2. ~edit[s].alone
      BY <2>2, <3>1 DEF ShotInv, Solitude
    <3>3. mixed
      BY <3>1, <3>2 DEF EditOk, NameIsFree
    <3>4. edit[s].id # edit[r].id
      BY <2>2, <3>1 DEF ShotInv, FreshIds
    <3>5. edit[s].id \notin A!Ids(set.shots) => edit[s].id \notin A!Ids(set'.shots)
      BY SMTT(60), <3>4 DEF SetOk
    <3>6. OwnIsNew(s)'
      BY <3>1, <3>5 DEF EditOk, OwnIsNew, DistinctShots, A!Ids
    <3> QED BY <3>1, <3>2, <3>3, <3>6 DEF EditOk, ListIsSet
  <2> QED BY <2>1, <2>2
<1> QED BY <1>2, <1>4, <1>5, <1>6, <1>7 DEF ShotInv

\* The set as it was keeps them.
LEMMA SameSet == ASSUME ShotInv, NEW r \in Requests PROVE SetOk(r, set.shots)
  BY DEF ShotInv, EditType, FreshIds, SetOk

\* The set without one keeps its rules.
LEMMA LessSet ==
  ASSUME ShotInv, NEW r \in Requests, NEW id
  PROVE  SetOk(r, A!Without(set.shots, id))
<1> DEFINE w == A!Without(set.shots, id)
<1>1. set.shots \in Seq(Shot) /\ DistinctShots(set.shots)
  BY DEF ShotInv, EditType, FreshIds
<1>2. /\ w \in Seq(Shot) /\ DistinctShots(w) /\ A!Ids(w) = A!Ids(set.shots) \ {id}
      /\ \A i \in DOMAIN w : \E j \in DOMAIN set.shots : w[i] = set.shots[j]
  BY <1>1, WithoutIs
<1> HIDE DEF w
<1>3. ASSUME ~mixed PROVE OnceNamed(w)
  <2> SUFFICES ASSUME NEW i \in DOMAIN w, NEW j \in DOMAIN w, w[i].name = w[j].name, w[i].name \in Names
               PROVE  i = j
    BY DEF OnceNamed
  <2>1. PICK p \in DOMAIN set.shots, q \in DOMAIN set.shots : w[i] = set.shots[p] /\ w[j] = set.shots[q]
    BY <1>2
  <2>2. p = q
    BY <1>3, <2>1 DEF ShotInv, OnceNamed
  <2> QED BY <1>2, <2>1, <2>2 DEF DistinctShots
<1>4. SetOk(r, w)
  BY <1>2, <1>3 DEF SetOk
<1> QED BY <1>4 DEF w

\* A request comes: it is alone if there is none at work, and those that are, are not.
LEMMA Comes ==
  ASSUME ShotInv, AssetSetting, NEW r \in Requests, NEW rec, A!Start(r, rec),
         rec \in EditRec, rec.pc = "find", rec.id = edits + 1, rec.listed = <<>>,
         rec.do = "upload" => rec.by = "name" \/ (rec.by = "position" /\ rec.at >= 1)
  PROVE  ShotInv'
<1> DEFINE alone == \A s \in Requests : edit[s] = A!Idle
<1>1. /\ ~Editing(r) /\ edits < MaxEdits /\ edits' = edits + 1 /\ set' = set
      /\ mixed' = (mixed \/ ~alone \/ (rec.by = "position" /\ rec.do = "upload"))
      /\ edit' = [s \in Requests |->
           IF s = r THEN [rec EXCEPT !.alone = alone]
           ELSE IF edit[s] = A!Idle THEN A!Idle ELSE [edit[s] EXCEPT !.alone = FALSE]]
  BY DEF A!Start, Editing
<1>2. alone \in BOOLEAN /\ (alone <=> \A s \in Requests : ~Editing(s))
  BY DEF Editing
<1> HIDE DEF alone
<1>3. edits \in Nat /\ MaxEdits \in Nat /\ edits' <= MaxEdits
  BY <1>1 DEF ShotInv, EditType, AssetSetting
<1>4. /\ edit'[r] \in EditRec /\ edit'[r].pc = "find" /\ edit'[r].id = edits + 1 /\ edit'[r].listed = <<>>
      /\ edit'[r].do = rec.do /\ edit'[r].by = rec.by /\ edit'[r].at = rec.at /\ edit'[r].alone = alone
  BY <1>1, <1>2 DEF EditRec
<1>5. ASSUME NEW s \in Requests, s # r, Editing(s)'
      PROVE  /\ Editing(s) /\ EditOk(s) /\ edit[s] \in EditRec /\ edit'[s] \in EditRec /\ ~edit'[s].alone
             /\ edit'[s].pc = edit[s].pc /\ edit'[s].id = edit[s].id /\ edit'[s].listed = edit[s].listed
             /\ edit'[s].do = edit[s].do /\ edit'[s].by = edit[s].by /\ edit'[s].at = edit[s].at
  <2>1. Editing(s)
    BY <1>1, <1>5 DEF Editing
  <2>2. edit[s] \in EditRec /\ EditOk(s)
    BY <2>1 DEF ShotInv, EditType
  <2>3. edit'[s] = [edit[s] EXCEPT !.alone = FALSE]
    BY <1>1, <1>5, <2>1 DEF Editing
  <2> QED BY <2>1, <2>2, <2>3 DEF EditRec
<1>6. Editing(r)'
  BY <1>4 DEF Editing, A!Idle
<1>7. EditType'
  <2>1. mixed' \in BOOLEAN
    BY <1>1, <1>2 DEF ShotInv, EditType
  <2>2. \A s \in Requests : Editing(s)' => edit'[s] \in EditRec
    BY <1>4, <1>5
  <2> QED BY SMTT(60), <1>1, <1>3, <2>1, <2>2 DEF ShotInv, EditType
<1>8. FreshIds'
  <2>1. \A x \in A!Ids(set.shots) : x <= edits + 1 \/ x > MaxEdits
    <3>1. \A x \in A!Ids(set.shots) : x \in Nat /\ (x <= edits \/ x > MaxEdits)
      BY Shots DEF ShotInv, FreshIds, EditType, A!Ids
    <3> QED BY <1>3, <3>1
  <2>2. ASSUME NEW s \in Requests, s # r, Editing(s)' PROVE edit'[s].id <= edits /\ edit'[s].id \in Nat
    BY SMTT(60), <1>3, <1>5, <2>2 DEF EditOk, OwnIsNew, EditRec
  <2>3. ASSUME NEW s \in Requests, NEW t \in Requests, Editing(s)', Editing(t)', edit'[s].id = edit'[t].id
        PROVE  s = t
    <3>1. CASE s # r /\ t # r
      BY <1>5, <2>3, <3>1 DEF ShotInv, FreshIds
    <3>2. CASE s = r \/ t = r
      BY <1>3, <1>4, <2>2, <2>3, <3>2
    <3> QED BY <3>1, <3>2
  <2> QED BY <1>1, <2>1, <2>3 DEF ShotInv, FreshIds, A!Ids, DistinctShots
<1>9. Solitude'
  <2> SUFFICES ASSUME NEW s \in Requests, NEW t \in Requests, Editing(s)', Editing(t)', edit'[s].alone
               PROVE  s = t
    BY DEF Solitude
  <2>1. s = r /\ alone
    BY <1>4, <1>5
  <2> QED BY <1>2, <1>5, <2>1
<1>10. (~mixed => OnceNamed(set.shots))'
  BY <1>1 DEF ShotInv, OnceNamed
<1>11. EditOk(r)'
  <2>1. edits + 1 \notin A!Ids(set.shots)
    BY <1>1, <1>3 DEF ShotInv, FreshIds
  <2>2. A!Ids(<<>>) = {} /\ DistinctShots(<<>>)
    BY DEF A!Ids, DistinctShots
  <2>3. OwnIsNew(r)'
    <3>1. edit'[r].id \in 1..edits' /\ edit'[r].id \notin A!Ids(set'.shots)
      BY <1>1, <1>3, <1>4, <2>1 DEF A!Ids
    <3>2. DistinctShots(edit'[r].listed) /\ edit'[r].id \notin A!Ids(edit'[r].listed)
      BY <1>4, <2>2
    <3> QED BY <1>1, <1>4, <3>1, <3>2 DEF OwnIsNew, A!Ids, DistinctShots
  <2>4. ListIsSet(r)'
    BY <1>4 DEF ListIsSet
  <2>5. (~mixed => NameIsFree(r))'
    BY <1>1, <1>4 DEF NameIsFree, EditRec
  <2> QED BY <2>3, <2>4, <2>5 DEF EditOk
<1>12. ASSUME NEW s \in Requests, s # r, Editing(s)' PROVE EditOk(s)'
  <2>1. mixed'
    BY <1>1, <1>2, <1>5, <1>12
  <2>2. edit[s].id \in 1..edits + 1
    BY SMTT(60), <1>3, <1>5, <1>12 DEF EditOk, OwnIsNew
  <2>3. OwnIsNew(s)'
    <3>1. OwnIsNew(s)
      BY <1>5, <1>12 DEF EditOk
    <3>2. edit'[s].id \in 1..edits'
      BY <1>1, <1>5, <1>12, <2>2
    <3>3. edit'[s].pc \in {"find", "replace", "post"} => edit'[s].id \notin A!Ids(set'.shots)
      BY <1>1, <1>5, <1>12, <3>1 DEF OwnIsNew
    <3>4. DistinctShots(edit'[s].listed) /\ edit'[s].id \notin A!Ids(edit'[s].listed)
      BY <1>5, <1>12, <3>1 DEF OwnIsNew
    <3> QED BY <1>5, <1>12, <3>1, <3>2, <3>3, <3>4 DEF OwnIsNew, A!Ids, DistinctShots
  <2>4. ListIsSet(s)'
    BY <1>5, <1>12 DEF ListIsSet
  <2> QED BY <2>1, <2>3, <2>4 DEF EditOk
<1> QED BY <1>7, <1>8, <1>9, <1>10, <1>11, <1>12 DEF ShotInv

\* Every request that comes.
LEMMA ComesIn ==
  ASSUME ShotInv, AssetSetting, NEW r \in Requests,
         \/ \E n \in Names : \/ A!upload_version_screenshot(r, n, "name", 0)
                             \/ \E at \in 1..MAX_SCREENSHOT_FILES + 1 :
                                  A!upload_version_screenshot(r, n, "position", at)
         \/ \E by \in A!Selectors, at \in 1..MAX_SCREENSHOT_FILES, prune \in BOOLEAN :
              A!Delete(r, by, at, prune)
  PROVE  ShotInv'
<1>1. edits \in Nat /\ (CHOOSE n \in Names : TRUE) \in Names /\ <<>> \in Seq(Shot)
      /\ MAX_SCREENSHOT_FILES \in Nat
  BY DEF ShotInv, EditType, AssetSetting
<1>2. A!Blank \in EditRec
  BY <1>1 DEF A!Blank, EditRec, A!Selectors
<1>3. ASSUME NEW n \in Names, NEW by \in {"name", "position"}, NEW at \in Nat,
             by = "position" => at >= 1, A!upload_version_screenshot(r, n, by, at)
      PROVE  ShotInv'
  <2> DEFINE rec == [A!Blank EXCEPT !.name = n, !.by = by, !.at = at]
  <2>1. rec \in EditRec /\ rec.pc = "find" /\ rec.id = edits + 1 /\ rec.listed = <<>>
        /\ rec.by = by /\ rec.at = at
    BY <1>2 DEF A!Blank, EditRec, A!Selectors
  <2>2. A!Start(r, rec)
    BY <1>3 DEF A!upload_version_screenshot
  <2> HIDE DEF rec
  <2> QED BY <1>3, <2>1, <2>2, Comes
<1>4. ASSUME NEW by \in A!Selectors, NEW at \in Nat, NEW prune \in BOOLEAN, A!Delete(r, by, at, prune)
      PROVE  ShotInv'
  <2> DEFINE rec == [A!Blank EXCEPT !.do = "delete", !.by = by, !.at = at, !.prune = prune]
  <2>1. rec \in EditRec /\ rec.pc = "find" /\ rec.id = edits + 1 /\ rec.listed = <<>> /\ rec.do = "delete"
    BY <1>2 DEF A!Blank, EditRec
  <2>2. A!Start(r, rec)
    BY <1>4 DEF A!Delete
  <2> HIDE DEF rec
  <2> QED BY <2>1, <2>2, Comes
<1> QED BY <1>1, <1>3, <1>4

\* A request that ends, or moves on without the set, or with one screenshot less.
LEMMA EditEnds ==
  ASSUME ShotInv, NEW r \in Requests, Editing(r), edit' = [edit EXCEPT ![r] = A!Idle],
         UNCHANGED <<mixed, edits>>,
         \/ set' = set
         \/ set' = A!NoSet
         \/ \E id : set' = [set EXCEPT !.shots = A!Without(@, id)]
  PROVE  ShotInv'
<1>1. CASE set' = set
  <2>1. SetOk(r, set'.shots) /\ set' \in [there : BOOLEAN, shots : Seq(Shot)]
    BY <1>1, SameSet DEF ShotInv, EditType
  <2> QED BY <2>1, EditMoves
<1>2. CASE set' = A!NoSet
  <2>1. set'.shots = <<>> /\ set' \in [there : BOOLEAN, shots : Seq(Shot)]
    BY <1>2 DEF A!NoSet
  <2>2. SetOk(r, <<>>)
    BY DEF SetOk, DistinctShots, OnceNamed, A!Ids
  <2> QED BY <2>1, <2>2, EditMoves
<1>3. ASSUME NEW id, set' = [set EXCEPT !.shots = A!Without(@, id)] PROVE ShotInv'
  <2>1. SetOk(r, A!Without(set.shots, id))
    BY LessSet
  <2>2. set'.shots = A!Without(set.shots, id) /\ set' \in [there : BOOLEAN, shots : Seq(Shot)]
    BY <1>3, <2>1 DEF SetOk, ShotInv, EditType
  <2> QED BY <2>1, <2>2, EditMoves
<1> QED BY <1>1, <1>2, <1>3

\* The slot of a name is a place of the list, or the one after its end.
LEMMA SlotInRange == ASSUME NEW l \in Seq(Shot), NEW name PROVE A!SlotOf(l, name) \in 1..Len(l) + 1
<1> DEFINE same == {i \in DOMAIN l : l[i].name = name}
           R == OpToRel(<, Nat)
<1>1. DOMAIN l = 1..Len(l) /\ Len(l) \in Nat
  BY Shots
<1>2. CASE same = {}
  BY <1>1, <1>2 DEF A!SlotOf
<1>3. CASE same # {}
  <2>1. IsWellFoundedOn(R, Nat)
    BY NatLessThanWellFounded
  <2>2. \A x, y \in Nat : <<x, y>> \in R <=> x < y
    BY DEF OpToRel
  <2> HIDE DEF R
  <2>3. same \subseteq Nat
    BY <1>1
  <2>4. PICK k \in same : \A j \in same : ~(<<j, k>> \in R)
    BY <1>3, <2>1, <2>3, WFMin
  <2>5. A!SlotOf(l, name) = CHOOSE i \in same : \A j \in same : i <= j
    BY <1>3 DEF A!SlotOf
  <2> HIDE DEF same
  <2>6. ASSUME NEW j \in same PROVE k <= j
    <3>1. j \in Nat /\ k \in Nat
      BY <2>3
    <3>2. ~(j < k)
      BY <2>2, <2>4, <3>1, Zenon
    <3> QED BY <3>1, <3>2
  <2>7. A!SlotOf(l, name) \in same
    BY <2>5, <2>6
  <2>8. same \subseteq DOMAIN l
    BY DEF same
  <2> QED BY <1>1, <2>7, <2>8
<1> QED BY <1>2, <1>3

\* The slot of a name: every other place has another.
LEMMA SlotIs ==
  ASSUME NEW l \in Seq(Shot), NEW name \in Names, OnceNamed(l)
  PROVE  /\ A!SlotOf(l, name) \in 1..Len(l) + 1
         /\ \A i \in DOMAIN l : i # A!SlotOf(l, name) => l[i].name # name
<1> DEFINE same == {i \in DOMAIN l : l[i].name = name}
<1>1. DOMAIN l = 1..Len(l) /\ Len(l) \in Nat
  BY Shots
<1>2. CASE same = {}
  BY <1>1, <1>2 DEF A!SlotOf
<1>3. CASE same # {}
  <2>1. PICK k \in same : TRUE
    BY <1>3
  <2>2. same = {k}
    BY <2>1 DEF OnceNamed
  <2>3. k \in DOMAIN l /\ k <= k
    BY <1>1, <2>1
  <2>4. (CHOOSE i \in same : \A j \in same : i <= j) = k
    BY <2>2, <2>3
  <2>5. A!SlotOf(l, name) = k
    BY <1>3, <2>4 DEF A!SlotOf
  <2> QED BY <1>1, <2>2, <2>3, <2>5
<1> QED BY <1>2, <1>3

\* It lists the set: what it lists is the set.
LEMMA ListsForUpload == ASSUME ShotInv, NEW r \in Requests, A!ListForUpload(r) PROVE ShotInv'
<1> DEFINE at == IF edit[r].by = "name" THEN A!SlotOf(set.shots, edit[r].name) ELSE edit[r].at
           rec == [A!Step(r, "replace") EXCEPT !.at = at, !.listed = set.shots]
<1>1. /\ edit[r].pc = "find" /\ edit[r].do = "upload" /\ UNCHANGED <<mixed, edits>>
      /\ set' = [set EXCEPT !.there = TRUE]
      /\ edit' = [edit EXCEPT ![r] = IF at > Len(set.shots) + 1 THEN A!Idle ELSE rec]
  BY DEF A!ListForUpload, A!To
<1>2. /\ Editing(r) /\ edit[r] \in EditRec /\ EditOk(r) /\ OwnIsNew(r) /\ edit[r].name \in Names
      /\ edit[r].at \in Nat /\ DOMAIN edit = Requests
      /\ set.shots \in Seq(Shot) /\ Len(set.shots) \in Nat /\ DistinctShots(set.shots)
  BY <1>1, Fields, Shots DEF EditOk, ShotInv, EditType, FreshIds
<1>3. set'.shots = set.shots /\ set' \in [there : BOOLEAN, shots : Seq(Shot)] /\ SetOk(r, set'.shots)
  BY <1>1, SameSet DEF ShotInv, EditType
<1> HIDE DEF at
<1>4. CASE at > Len(set.shots) + 1
  BY <1>1, <1>2, <1>3, <1>4, EditMoves
<1>5. CASE ~(at > Len(set.shots) + 1)
  <2>1. at \in 1..Len(set.shots) + 1
    <3>1. CASE edit[r].by = "name"
      <4>1. A!SlotOf(set.shots, edit[r].name) \in 1..Len(set.shots) + 1
        BY <1>2, SlotInRange
      <4> QED BY <3>1, <4>1 DEF at
    <3>2. CASE edit[r].by # "name"
      BY <1>1, <1>2, <1>5, <3>2 DEF at, OwnIsNew
    <3> QED BY <3>1, <3>2
  <2>2. /\ rec \in EditRec /\ rec.id = edit[r].id /\ rec.alone = edit[r].alone /\ rec.name = edit[r].name
        /\ rec.pc = "replace" /\ rec.listed = set.shots /\ rec.at = at
        /\ rec.do = "upload" /\ rec.by = edit[r].by
    <3>1. at \in Nat
      BY <1>2, <2>1
    <3> QED BY <1>1, <1>2, <3>1 DEF A!Step, EditRec
  <2> HIDE DEF rec
  <2>3. edit'[r] = rec /\ edit' = [edit EXCEPT ![r] = rec]
    BY <1>1, <1>2, <1>5
  <2>4. OwnIsNew(r)'
    <3>1. edit[r].id \notin A!Ids(set.shots) /\ edit[r].id \in 1..edits
      BY <1>1, <1>2 DEF OwnIsNew
    <3> QED BY SMTT(60), <1>1, <1>2, <1>3, <2>1, <2>2, <2>3, <3>1 DEF OwnIsNew, A!Ids, DistinctShots
  <2>5. ListIsSet(r)'
    BY <1>3, <2>2, <2>3 DEF ListIsSet
  <2>6. (~mixed => NameIsFree(r))'
    <3> SUFFICES ASSUME ~mixed PROVE NameIsFree(r)'
      BY <1>1
    <3>1. NameIsFree(r) /\ OnceNamed(set.shots)
      BY <1>2 DEF EditOk, ShotInv
    <3>2. edit[r].by = "name" /\ edit[r].alone
      BY <1>1, <3>1 DEF NameIsFree
    <3>3. at = A!SlotOf(set.shots, edit[r].name)
      BY <3>2 DEF at
    <3>4. \A i \in DOMAIN set.shots : i # at => set.shots[i].name # edit[r].name
      BY <1>2, <3>1, <3>3, SlotIs
    <3> QED BY ZenonT(120), <2>2, <2>3, <3>2, <3>4 DEF NameIsFree
  <2>7. EditOk(r)'
    BY <2>4, <2>5, <2>6 DEF EditOk
  <2> QED BY <1>1, <1>2, <1>3, <2>2, <2>3, <2>7, EditMoves
<1> QED BY <1>4, <1>5

\* The old one is taken out, of the list as well.
LEMMA Replaces == ASSUME ShotInv, NEW r \in Requests, A!Replace(r) PROVE ShotInv'
<1> DEFINE l == edit[r].listed
           at == edit[r].at
           id == edit[r].listed[edit[r].at].id
<1>1. edit[r].pc = "replace" /\ UNCHANGED <<mixed, edits>> /\ DOMAIN edit = Requests
  BY DEF A!Replace, ShotInv, EditType
<1>2. /\ Editing(r) /\ edit[r] \in EditRec /\ EditOk(r) /\ OwnIsNew(r) /\ ListIsSet(r)
      /\ l \in Seq(Shot) /\ DistinctShots(l) /\ at \in 1..Len(l) + 1
      /\ Len(l) \in Nat /\ DOMAIN l = 1..Len(l)
  <2>1. /\ Editing(r) /\ edit[r] \in EditRec /\ EditOk(r) /\ OwnIsNew(r) /\ ListIsSet(r) /\ l \in Seq(Shot)
    BY <1>1, Fields DEF EditOk
  <2> QED BY <1>1, <2>1, Shots DEF OwnIsNew
<1>3. set \in [there : BOOLEAN, shots : Seq(Shot)] /\ SetOk(r, set.shots)
  BY SameSet DEF ShotInv, EditType
<1> DEFINE rec == A!Step(r, "post")
<1>4. CASE edit' = [edit EXCEPT ![r] = A!Idle]
           /\ (set' = set \/ \E x : set' = [set EXCEPT !.shots = A!Without(@, x)])
  BY <1>1, <1>2, <1>4, EditEnds
<1>5. CASE at \notin DOMAIN l /\ edit' = [edit EXCEPT ![r] = rec] /\ set' = set
  <2>1. /\ rec \in EditRec /\ rec.id = edit[r].id /\ rec.alone = edit[r].alone /\ rec.name = edit[r].name
        /\ rec.pc = "post" /\ rec.listed = l /\ rec.at = at
        /\ rec.do = edit[r].do /\ rec.by = edit[r].by
    BY SMTT(60), <1>2 DEF A!Step, EditRec
  <2> HIDE DEF rec
  <2>2. edit'[r] = rec
    BY <1>1, <1>5
  <2>3. OwnIsNew(r)'
    <3>1. /\ edit[r].id \in 1..edits /\ edit[r].id \notin A!Ids(l)
          /\ edit[r].id \notin A!Ids(set.shots)
          /\ edit[r].do = "upload" /\ (edit[r].by # "name" => at >= 1)
      BY <1>1, <1>2 DEF OwnIsNew
    <3>2. edit'[r].listed = l /\ edit'[r].at = at /\ edit'[r].pc = "post" /\ edit'[r].id = edit[r].id
          /\ edit'[r].do = edit[r].do /\ edit'[r].by = edit[r].by /\ set' = set /\ edits' = edits
      BY <1>1, <1>5, <2>1, <2>2
    <3>3. at \in 1..Len(l) + 1 /\ DistinctShots(l)
      BY <1>2
    <3>4. DistinctShots(edit'[r].listed) /\ edit'[r].id \notin A!Ids(edit'[r].listed)
          /\ edit'[r].id \notin A!Ids(set'.shots)
      BY <3>1, <3>2, <3>3
    <3> HIDE DEF l, at
    <3> QED BY <3>1, <3>2, <3>3, <3>4 DEF OwnIsNew, A!Ids, DistinctShots
  <2>4. ListIsSet(r)'
    BY <1>1, <1>2, <1>5, <2>1, <2>2 DEF ListIsSet
  <2>5. (~mixed => NameIsFree(r))'
    BY <1>1, <1>2, <1>5, <2>1, <2>2 DEF EditOk, NameIsFree
  <2>6. EditOk(r)'
    BY <2>3, <2>4, <2>5 DEF EditOk
  <2> QED BY <1>1, <1>2, <1>3, <1>5, <2>1, <2>6, EditMoves
<1>6. CASE /\ at \in DOMAIN l /\ set' = [set EXCEPT !.shots = A!Without(@, id)]
           /\ edit' = [edit EXCEPT ![r] = [rec EXCEPT !.listed = A!Without(@, id)]]
  <2> DEFINE w == A!Without(l, id)
             new == [rec EXCEPT !.listed = A!Without(@, id)]
  <2>1. LessAt(w, l, at)
    <3>1. l \in Seq(Shot) /\ DistinctShots(l) /\ at \in DOMAIN l /\ w = A!Without(l, l[at].id)
      BY <1>2, <1>6
    <3> HIDE DEF at, l, w
    <3> QED BY <3>1, WithoutOne
  <2> HIDE DEF w
  <2>2. /\ w \in Seq(Shot) /\ DistinctShots(w) /\ Len(w) = Len(l) - 1
        /\ A!Ids(w) = A!Ids(l) \ {l[at].id}
        /\ \A i \in DOMAIN w : \E j \in DOMAIN l : j # at /\ w[i] = l[j]
    <3>1. l \in Seq(Shot) /\ DistinctShots(l) /\ at \in DOMAIN l
      BY <1>2, <1>6
    <3> HIDE DEF at, l
    <3>2. /\ w \in Seq(Shot) /\ DistinctShots(w) /\ Len(w) = Len(l) - 1
          /\ A!Ids(w) = A!Ids(l) \ {l[at].id}
      BY <2>1, <3>1, LessFacts
    <3>3. ASSUME NEW i \in DOMAIN w PROVE \E j \in DOMAIN l : j # at /\ w[i] = l[j]
      BY SMTT(60), <2>1, <3>1, LessFacts
    <3> QED BY <3>2, <3>3
  <2>3. /\ new \in EditRec /\ new.id = edit[r].id /\ new.alone = edit[r].alone /\ new.name = edit[r].name
        /\ new.pc = "post" /\ new.listed = w /\ new.at = at
        /\ new.do = edit[r].do /\ new.by = edit[r].by
    BY <1>2, <2>2 DEF A!Step, EditRec, w
  <2> HIDE DEF new
  <2>4. edit'[r] = new /\ edit' = [edit EXCEPT ![r] = new]
    BY <1>1, <1>6 DEF new
  <2>5. SetOk(r, A!Without(set.shots, id))
    BY LessSet
  <2>6. set'.shots = A!Without(set.shots, id) /\ set' \in [there : BOOLEAN, shots : Seq(Shot)]
    BY SMTT(60), <1>3, <1>6, <2>5 DEF SetOk
  <2>7. A!Ids(A!Without(set.shots, id)) \subseteq A!Ids(set.shots)
    BY WithoutIs DEF ShotInv, EditType, FreshIds
  <2>8. OwnIsNew(r)'
    <3>1. edit[r].id \notin A!Ids(set.shots) /\ edit[r].id \notin A!Ids(l) /\ edit[r].do = "upload"
          /\ edit[r].id \in 1..edits
      BY <1>1, <1>2 DEF OwnIsNew
    <3>2. edit[r].id \notin A!Ids(set'.shots) /\ edit[r].id \notin A!Ids(w)
      BY <2>2, <2>6, <2>7, <3>1
    <3>3. at \in 1..Len(w) + 1
      BY <1>2, <1>6, <2>2
    <3> QED BY SMTT(60), <1>1, <1>2, <2>2, <2>3, <2>4, <3>1, <3>2, <3>3 DEF OwnIsNew, A!Ids, DistinctShots
  <2>9. ListIsSet(r)'
    BY <1>1, <1>2, <2>3, <2>4, <2>6 DEF ListIsSet, w
  <2>10. (~mixed => NameIsFree(r))'
    <3> SUFFICES ASSUME ~mixed PROVE NameIsFree(r)'
      BY <1>1
    <3>1. NameIsFree(r)
      BY <1>2 DEF EditOk
    <3>2. \A j \in DOMAIN l : j # at => l[j].name # edit[r].name
      BY <1>1, <3>1 DEF NameIsFree
    <3>3. \A i \in DOMAIN w : w[i].name # edit[r].name
      BY <2>2, <3>2
    <3> QED BY ZenonT(120), <2>3, <2>4, <3>1, <3>3 DEF NameIsFree
  <2>11. EditOk(r)'
    BY <2>8, <2>9, <2>10 DEF EditOk
  <2> QED BY ZenonT(120), <1>1, <1>2, <2>3, <2>4, <2>5, <2>6, <2>11, EditMoves
<1> QED
  <2>1. CASE at \notin DOMAIN l
    BY <1>4, <1>5, <2>1 DEF A!Replace, A!To
  <2>2. CASE at \in DOMAIN l
    BY <1>4, <1>6, <2>2 DEF A!Replace, A!To
  <2> QED BY <2>1, <2>2

\* An end of a list is a place of it.
LEMMA Appended ==
  ASSUME NEW l \in Seq(Shot), NEW e \in Shot
  PROVE  WithAt(Append(l, e), l, Len(l) + 1, e)
<1>1. /\ Append(l, e) \in Seq(Shot) /\ Len(Append(l, e)) = Len(l) + 1
      /\ \A i \in 1..Len(l) : Append(l, e)[i] = l[i]
      /\ Append(l, e)[Len(l) + 1] = e
  BY AppendProperties
<1>2. Len(l) \in Nat /\ DOMAIN Append(l, e) = 1..Len(l) + 1
  BY <1>1, LenProperties
<1> QED BY <1>1, <1>2 DEF WithAt

\* A name that is not there, put in, is there once; and what is left of a set
\* without the last one has no name twice.
LEMMA NamedOnce ==
  ASSUME NEW l \in Seq(Shot), DistinctShots(l), NEW e \in Shot, e.id \notin A!Ids(l),
         NEW at, NEW w, WithAt(w, l, at, e)
  PROVE  /\ OnceNamed(l) /\ (\A i \in DOMAIN l : l[i].name # e.name) => OnceNamed(w)
         /\ OnceNamed(w) => OnceNamed(l)
<1>1. /\ Len(l) \in Nat /\ DOMAIN l = 1..Len(l) /\ DOMAIN w = 1..Len(l) + 1 /\ at \in 1..Len(l) + 1
      /\ w \in Seq(Shot) /\ w[at] = e
      /\ \A i \in DOMAIN w : w[i] = IF i < at THEN l[i] ELSE IF i = at THEN e ELSE l[i - 1]
  BY Shots DEF WithAt
<1>2. ASSUME OnceNamed(l), \A i \in DOMAIN l : l[i].name # e.name PROVE OnceNamed(w)
  <2> SUFFICES ASSUME NEW i \in DOMAIN w, NEW j \in DOMAIN w, w[i].name = w[j].name, w[i].name \in Names
               PROVE  i = j
    BY DEF OnceNamed
  <2>1. \A k \in DOMAIN w : k # at => \E p \in DOMAIN l : w[k] = l[p] /\ (k < at => p = k) /\ (~(k < at) => p = k - 1)
    BY MoreFacts
  <2>2. CASE i = at /\ j # at
    BY <1>1, <1>2, <2>1, <2>2
  <2>3. CASE i # at /\ j = at
    BY <1>1, <1>2, <2>1, <2>3
  <2>4. CASE i # at /\ j # at
    <3>1. PICK p \in DOMAIN l : w[i] = l[p] /\ (i < at => p = i) /\ (~(i < at) => p = i - 1)
      BY <2>1, <2>4
    <3>2. PICK q \in DOMAIN l : w[j] = l[q] /\ (j < at => q = j) /\ (~(j < at) => q = j - 1)
      BY <2>1, <2>4
    <3>3. p = q
      BY <1>2, <3>1, <3>2 DEF OnceNamed
    <3> QED BY <1>1, <2>4, <3>1, <3>2, <3>3
  <2> QED BY <2>2, <2>3, <2>4
<1>3. ASSUME OnceNamed(w) PROVE OnceNamed(l)
  <2> SUFFICES ASSUME NEW i \in DOMAIN l, NEW j \in DOMAIN l, l[i].name = l[j].name, l[i].name \in Names
               PROVE  i = j
    BY DEF OnceNamed
  <2>1. \A k \in DOMAIN l : \E p \in DOMAIN w : w[p] = l[k] /\ (k < at => p = k) /\ (~(k < at) => p = k + 1)
    <3> SUFFICES ASSUME NEW k \in DOMAIN l
                 PROVE  \E p \in DOMAIN w : w[p] = l[k] /\ (k < at => p = k) /\ (~(k < at) => p = k + 1)
      OBVIOUS
    <3>1. CASE k < at
      BY <1>1, <3>1
    <3>2. CASE ~(k < at)
      <4>1. k + 1 \in DOMAIN w /\ ~(k + 1 < at) /\ k + 1 # at /\ (k + 1) - 1 = k
        BY <1>1, <3>2
      <4> QED BY <1>1, <3>2, <4>1
    <3> QED BY <3>1, <3>2
  <2>2. PICK p \in DOMAIN w : w[p] = l[i] /\ (i < at => p = i) /\ (~(i < at) => p = i + 1)
    BY <2>1
  <2>3. PICK q \in DOMAIN w : w[q] = l[j] /\ (j < at => q = j) /\ (~(j < at) => q = j + 1)
    BY <2>1
  <2>4. p = q
    BY <1>3, <2>2, <2>3 DEF OnceNamed
  <2> QED BY <1>1, <2>2, <2>3, <2>4
<1> QED BY <1>2, <1>3

\* What a step of a request at work starts from.
LEMMA AtWork ==
  ASSUME ShotInv, NEW r \in Requests, edit[r].pc # "idle"
  PROVE  /\ Editing(r) /\ edit[r] \in EditRec /\ DOMAIN edit = Requests
         /\ OwnIsNew(r) /\ ListIsSet(r) /\ (~mixed => NameIsFree(r) /\ OnceNamed(set.shots))
         /\ edit[r].listed \in Seq(Shot) /\ DistinctShots(edit[r].listed)
         /\ set \in [there : BOOLEAN, shots : Seq(Shot)] /\ set.shots \in Seq(Shot)
         /\ DistinctShots(set.shots) /\ OwnShot(r) \in Shot /\ OwnShot(r).id = edit[r].id /\ OwnShot(r).name = edit[r].name
         /\ Len(edit[r].listed) \in Nat /\ edit[r].todo \in Seq(Shot)
<1>1. OwnShot(r).id = edit[r].id /\ OwnShot(r).name = edit[r].name
  BY DEF OwnShot
<1>2. DOMAIN edit = Requests /\ set \in [there : BOOLEAN, shots : Seq(Shot)] /\ DistinctShots(set.shots)
      /\ (~mixed => OnceNamed(set.shots))
  BY DEF ShotInv, EditType, FreshIds
<1>3. /\ Editing(r) /\ edit[r] \in EditRec /\ EditOk(r) /\ edit[r].listed \in Seq(Shot)
      /\ edit[r].todo \in Seq(Shot) /\ OwnShot(r) \in Shot
  BY Fields
<1> QED BY <1>1, <1>2, <1>3, Shots DEF EditOk, OwnIsNew

\* The reservation is the set's last one.
LEMMA Posts == ASSUME ShotInv, NEW r \in Requests, A!Post(r) PROVE ShotInv'
<1> DEFINE l == edit[r].listed
           rec == A!Step(r, "order")
           w == Append(set.shots, OwnShot(r))
<1>1. edit[r].pc = "post" /\ UNCHANGED <<mixed, edits>>
  BY DEF A!Post
<1>2. CASE edit' = [edit EXCEPT ![r] = A!Idle] /\ set' = set
  BY <1>1, <1>2, AtWork, EditEnds
<1>3. CASE set' = [set EXCEPT !.shots = w] /\ edit' \in {[edit EXCEPT ![r] = A!Idle], [edit EXCEPT ![r] = rec]}
  <2>1. WithAt(w, set.shots, Len(set.shots) + 1, OwnShot(r)) /\ w \in Seq(Shot)
    BY <1>1, AtWork, Appended DEF WithAt
  <2> HIDE DEF w
  <2>2. edit[r].id \notin A!Ids(set.shots) /\ edit[r].do = "upload" /\ edit[r].id \in 1..edits
        /\ edit[r].id \notin A!Ids(l) /\ edit[r].at \in 1..Len(l) + 1
    BY <1>1, AtWork DEF OwnIsNew
  <2>3. DistinctShots(w) /\ A!Ids(w) = A!Ids(set.shots) \cup {edit[r].id}
    BY <1>1, <2>1, <2>2, AtWork, MoreFacts
  <2>4. ASSUME ~mixed PROVE OnceNamed(w)
    <3>1. NameIsFree(r) /\ OnceNamed(set.shots) /\ ListIsSet(r)
      BY <1>1, <2>4, AtWork
    <3>2. \A i \in DOMAIN set.shots : set.shots[i].name # OwnShot(r).name
      BY <1>1, <3>1, AtWork DEF NameIsFree, ListIsSet
    <3> QED BY SMTT(60), <1>1, <2>1, <2>2, <3>1, <3>2, AtWork, NamedOnce
  <2>5. SetOk(r, w)
    BY <2>1, <2>3, <2>4 DEF SetOk
  <2>6. set'.shots = w /\ set' \in [there : BOOLEAN, shots : Seq(Shot)]
    BY <1>1, <1>3, <2>1, AtWork
  <2>7. CASE edit' = [edit EXCEPT ![r] = A!Idle]
    BY <1>1, <2>5, <2>6, <2>7, AtWork, EditMoves
  <2>8. CASE edit' = [edit EXCEPT ![r] = rec]
    <3>1. /\ rec \in EditRec /\ rec.id = edit[r].id /\ rec.alone = edit[r].alone /\ rec.name = edit[r].name
          /\ rec.pc = "order" /\ rec.listed = l /\ rec.at = edit[r].at
          /\ rec.do = edit[r].do /\ rec.by = edit[r].by
      BY ZenonT(120), <1>1, AtWork DEF A!Step, EditRec
    <3> HIDE DEF rec
    <3>2. edit'[r] = rec
      BY <1>1, <2>8, AtWork
    <3>3. OwnIsNew(r)'
      <4>1. DistinctShots(l)
        BY <1>1, AtWork
      <4> QED BY <1>1, <2>2, <3>1, <3>2, <4>1 DEF OwnIsNew, A!Ids, DistinctShots
    <3>4. ListIsSet(r)'
      <4> SUFFICES ASSUME edit[r].alone PROVE WithAt(w, l, Len(l) + 1, OwnShot(r))
        <5>1. OwnShot(r)' = OwnShot(r)
          BY <3>1, <3>2 DEF OwnShot
        <5> QED BY <2>6, <3>1, <3>2, <5>1 DEF ListIsSet
      <4>1. set.shots = l
        BY <1>1, AtWork DEF ListIsSet
      <4> QED BY <2>1, <4>1
    <3>5. (~mixed => NameIsFree(r))'
      BY <1>1, <2>2, <3>1, <3>2, AtWork DEF NameIsFree
    <3>6. EditOk(r)'
      BY <3>3, <3>4, <3>5 DEF EditOk
    <3> QED BY <1>1, <2>5, <2>6, <2>8, <3>1, <3>6, AtWork, EditMoves
  <2> QED BY <1>3, <2>7, <2>8
<1> QED BY <1>2, <1>3 DEF A!Post, A!To, OwnShot

\* The new order has the new one in its slot.
LEMMA Reorders == ASSUME ShotInv, NEW r \in Requests, A!Reorder(r) PROVE ShotInv'
<1> DEFINE l == edit[r].listed
           at == edit[r].at
           rec == A!Step(r, "verify")
           w == A!Order(r)
<1>1. edit[r].pc = "order" /\ UNCHANGED <<mixed, edits>>
  BY DEF A!Reorder
<1>2. CASE edit' = [edit EXCEPT ![r] = A!Idle] /\ set' = set
  BY <1>1, <1>2, AtWork, EditEnds
<1>3. ASSUME edit' = [edit EXCEPT ![r] = rec],
             set' \in [there : BOOLEAN, shots : Seq(Shot)], SetOk(r, set'.shots),
             edit[r].alone => WithAt(set'.shots, l, at, OwnShot(r))
      PROVE  ShotInv'
  <2>1. /\ rec \in EditRec /\ rec.id = edit[r].id /\ rec.alone = edit[r].alone /\ rec.name = edit[r].name
        /\ rec.pc = "verify" /\ rec.listed = l /\ rec.at = at
        /\ rec.do = edit[r].do /\ rec.by = edit[r].by
    BY ZenonT(120), <1>1, AtWork DEF A!Step, EditRec
  <2> HIDE DEF rec
  <2>2. edit'[r] = rec
    BY <1>1, <1>3, AtWork
  <2>3. OwnIsNew(r)'
    <3>1. OwnIsNew(r)
      BY <1>1, AtWork
    <3> QED BY <1>1, <2>1, <2>2, <3>1 DEF OwnIsNew, A!Ids, DistinctShots
  <2>4. ListIsSet(r)'
    <3>1. OwnShot(r)' = OwnShot(r)
      BY <2>1, <2>2 DEF OwnShot
    <3> QED BY <1>3, <2>1, <2>2, <3>1 DEF ListIsSet
  <2>5. (~mixed => NameIsFree(r))'
    BY SMTT(60), <1>1, <2>1, <2>2, AtWork DEF NameIsFree
  <2>6. EditOk(r)'
    BY <2>3, <2>4, <2>5 DEF EditOk
  <2> QED BY <1>1, <1>3, <2>1, <2>6, AtWork, EditMoves
<1>4. edit[r].id \notin A!Ids(l) /\ at \in 1..Len(l) + 1
  BY <1>1, AtWork DEF OwnIsNew
<1>5. CASE at = Len(l) + 1 /\ set' = set /\ edit' = [edit EXCEPT ![r] = rec]
  <2>1. edit[r].alone => WithAt(set'.shots, l, at, OwnShot(r))
    BY <1>1, <1>5, AtWork DEF ListIsSet
  <2>2. SetOk(r, set'.shots) /\ set' \in [there : BOOLEAN, shots : Seq(Shot)]
    BY <1>1, <1>5, AtWork, SameSet
  <2> QED BY <1>3, <1>5, <2>1, <2>2
<1>6. CASE /\ A!Ids(w) = A!Ids(set.shots) /\ set' = [set EXCEPT !.shots = w]
           /\ edit' \in {[edit EXCEPT ![r] = A!Idle], [edit EXCEPT ![r] = rec]}
  <2>1. w = A!InsertAt(l, at, OwnShot(r))
    BY DEF A!Order, OwnShot
  <2> HIDE DEF w
  <2>2. WithAt(w, l, at, OwnShot(r)) /\ w \in Seq(Shot)
    <3>1. l \in Seq(Shot) /\ OwnShot(r) \in Shot
      BY <1>1, AtWork
    <3> HIDE DEF l, at
    <3> QED BY <1>4, <2>1, <3>1, Inserts DEF WithAt
  <2>3. DistinctShots(w)
    BY <1>1, <1>4, <2>2, AtWork, MoreFacts
  <2>4. ASSUME ~mixed PROVE OnceNamed(w)
    <3>1. NameIsFree(r) /\ OnceNamed(set.shots) /\ ListIsSet(r)
      BY <1>1, <2>4, AtWork
    <3>2. WithAt(set.shots, l, Len(l) + 1, OwnShot(r)) /\ \A i \in DOMAIN l : l[i].name # OwnShot(r).name
      BY <1>1, <3>1, AtWork DEF NameIsFree, ListIsSet
    <3>3. OnceNamed(l)
      BY <1>1, <1>4, <3>1, <3>2, AtWork, NamedOnce
    <3> QED BY SMTT(60), <1>1, <1>4, <2>2, <3>2, <3>3, AtWork, NamedOnce
  <2>5. SetOk(r, w)
    BY <1>6, <2>2, <2>3, <2>4 DEF SetOk
  <2>6. set'.shots = w /\ set' \in [there : BOOLEAN, shots : Seq(Shot)]
    BY SMTT(60), <1>1, <1>6, <2>2, AtWork
  <2>7. CASE edit' = [edit EXCEPT ![r] = A!Idle]
    BY <1>1, <2>5, <2>6, <2>7, AtWork, EditMoves
  <2>8. CASE edit' = [edit EXCEPT ![r] = rec]
    BY <1>3, <2>2, <2>5, <2>6, <2>8
  <2> QED BY <1>6, <2>7, <2>8
<1> QED BY <1>2, <1>5, <1>6 DEF A!Reorder, A!To

\* It lists what it will delete: its list is the set.
LEMMA ListsForDelete == ASSUME ShotInv, NEW r \in Requests, A!ListForDelete(r) PROVE ShotInv'
<1> DEFINE all == edit[r].by = "all"
           todo == IF all THEN set.shots ELSE <<set.shots[edit[r].at]>>
           rec == [A!Step(r, "delete") EXCEPT !.listed = set.shots, !.todo = todo]
<1>1. /\ edit[r].pc = "find" /\ edit[r].do = "delete" /\ UNCHANGED <<mixed, edits>> /\ set' = set
      /\ edit' = [edit EXCEPT ![r] =
           IF ~set.there \/ (~all /\ edit[r].at \notin DOMAIN set.shots) THEN A!Idle ELSE rec]
  BY DEF A!ListForDelete, A!To
<1>2. CASE ~set.there \/ (~all /\ edit[r].at \notin DOMAIN set.shots)
  BY <1>1, <1>2, AtWork, EditEnds
<1>3. CASE all \/ edit[r].at \in DOMAIN set.shots
  <2>1. CASE ~set.there
    BY <1>2, <2>1
  <2>2. CASE set.there
    <3>1. edit' = [edit EXCEPT ![r] = rec]
      BY <1>1, <1>3, <2>2
    <3>2. todo \in Seq(Shot)
      <4>1. CASE all
        BY <1>1, <4>1, AtWork
      <4>2. CASE ~all
        <5>1. set.shots[edit[r].at] \in Shot
          BY <1>1, <1>3, <4>2, AtWork, Shots
        <5> QED BY <4>2, <5>1
      <4> QED BY SMTT(60), <4>1, <4>2
    <3> HIDE DEF todo
    <3>3. /\ rec \in EditRec /\ rec.id = edit[r].id /\ rec.alone = edit[r].alone
          /\ rec.pc = "delete" /\ rec.listed = set.shots /\ rec.do = "delete" /\ rec.by = edit[r].by
      BY ZenonT(120), <1>1, <3>2, AtWork DEF A!Step, EditRec
    <3> HIDE DEF rec
    <3>4. edit'[r] = rec
      BY <1>1, <3>1, AtWork
    <3>5. OwnIsNew(r)'
      <4>1. edit[r].id \in 1..edits /\ edit[r].id \notin A!Ids(set.shots) /\ DistinctShots(set.shots)
        BY <1>1, AtWork DEF OwnIsNew
      <4> QED BY <1>1, <3>3, <3>4, <4>1 DEF OwnIsNew, A!Ids, DistinctShots
    <3>6. ListIsSet(r)'
      BY <1>1, <3>3, <3>4 DEF ListIsSet
    <3>7. (~mixed => NameIsFree(r))'
      BY <1>1, <3>3, <3>4, AtWork DEF NameIsFree
    <3>8. EditOk(r)'
      BY <3>5, <3>6, <3>7 DEF EditOk
    <3>9. SetOk(r, set'.shots) /\ set' \in [there : BOOLEAN, shots : Seq(Shot)]
      BY <1>1, AtWork, SameSet
    <3> QED BY <1>1, <3>1, <3>3, <3>8, <3>9, AtWork, EditMoves
  <2> QED BY <2>1, <2>2
<1> QED BY <1>2, <1>3

\* One is deleted, of the set and of the list.
LEMMA DeletesOne == ASSUME ShotInv, NEW r \in Requests, A!DeleteOne(r) PROVE ShotInv'
<1> DEFINE id == Head(edit[r].todo).id
           l == edit[r].listed
           w == A!Without(l, id)
           rec == [edit[r] EXCEPT !.todo = Tail(@), !.listed = A!Without(@, id)]
<1>1. edit[r].pc = "delete" /\ UNCHANGED <<mixed, edits>> /\ edit[r].todo # <<>>
  BY DEF A!DeleteOne
<1>2. CASE edit' = [edit EXCEPT ![r] = A!Idle] /\ set' = set
  BY <1>1, <1>2, AtWork, EditEnds
<1>3. CASE set' = [set EXCEPT !.shots = A!Without(@, id)] /\ edit' = [edit EXCEPT ![r] = rec]
  <2>1. w \in Seq(Shot) /\ DistinctShots(w) /\ A!Ids(w) = A!Ids(l) \ {id}
    BY <1>1, AtWork, WithoutIs
  <2>2. Tail(edit[r].todo) \in Seq(Shot)
    BY SMTT(60), <1>1, AtWork
  <2>3. /\ rec \in EditRec /\ rec.id = edit[r].id /\ rec.alone = edit[r].alone
        /\ rec.pc = "delete" /\ rec.listed = w /\ rec.do = edit[r].do /\ rec.by = edit[r].by
    BY ZenonT(120), <1>1, <2>1, <2>2, AtWork DEF EditRec
  <2>4. w = A!Without(edit[r].listed, id)
    OBVIOUS
  <2> HIDE DEF rec, w
  <2>5. edit'[r] = rec
    BY <1>1, <1>3, AtWork
  <2>6. SetOk(r, A!Without(set.shots, id))
    BY LessSet
  <2>7. set'.shots = A!Without(set.shots, id) /\ set' \in [there : BOOLEAN, shots : Seq(Shot)]
    BY <1>1, <1>3, <2>6, AtWork DEF SetOk
  <2>8. OwnIsNew(r)'
    <3>1. edit[r].id \in 1..edits /\ edit[r].id \notin A!Ids(l) /\ edit[r].do = "delete"
      BY <1>1, AtWork DEF OwnIsNew
    <3>2. edit[r].id \notin A!Ids(w) /\ DistinctShots(w)
      BY <2>1, <3>1
    <3> QED BY <1>1, <2>3, <2>5, <3>1, <3>2 DEF OwnIsNew, A!Ids, DistinctShots
  <2>9. ListIsSet(r)'
    <3>1. edit[r].alone => set.shots = edit[r].listed
      BY <1>1, AtWork DEF ListIsSet
    <3> QED BY <2>3, <2>4, <2>5, <2>7, <3>1 DEF ListIsSet
  <2>10. (~mixed => NameIsFree(r))'
    BY <1>1, <2>3, <2>5, AtWork DEF NameIsFree
  <2>11. EditOk(r)'
    BY <2>8, <2>9, <2>10 DEF EditOk
  <2> QED BY <1>1, <1>3, <2>3, <2>6, <2>7, <2>11, AtWork, EditMoves
<1>4. CASE set' = [set EXCEPT !.shots = A!Without(@, id)] /\ edit' = [edit EXCEPT ![r] = A!Idle]
  BY <1>1, <1>4, AtWork, EditEnds
<1> QED BY <1>2, <1>3, <1>4 DEF A!DeleteOne, A!To

\* Every step of the tools keeps the invariant.
LEMMA ShotsKeep == ASSUME AssetSetting, ShotInv, [A!Next]_(A!vars) PROVE ShotInv'
<1>1. CASE UNCHANGED A!vars
  BY <1>1 DEF A!vars, ShotInv, EditType, FreshIds, Solitude, EditOk, OwnIsNew, ListIsSet, NameIsFree,
              OnceNamed, Editing, OwnShot, WithAt, A!Ids, DistinctShots
<1>2. ASSUME NEW r \in Requests,
             \/ A!Verify(r) \/ A!Dies(r) \/ A!Prune(r)
      PROVE  ShotInv'
  <2>1. edit[r].pc # "idle" /\ Editing(r)
    <3>1. CASE A!Verify(r) \/ A!Prune(r)
      BY <3>1, AtWork DEF A!Verify, A!Prune
    <3>2. CASE A!Dies(r)
      BY <3>2 DEF A!Dies, ShotInv, EditType, EditRec, Editing
    <3> QED BY <1>2, <3>1, <3>2
  <2>2. edit' = [edit EXCEPT ![r] = A!Idle] /\ UNCHANGED <<mixed, edits>> /\ (set' = set \/ set' = A!NoSet)
    BY <1>2 DEF A!Verify, A!Dies, A!Prune, A!To
  <2> QED BY <2>1, <2>2, EditEnds
<1>3. ASSUME NEW r \in Requests,
             \/ \E n \in Names : \/ A!upload_version_screenshot(r, n, "name", 0)
                                 \/ \E at \in 1..MAX_SCREENSHOT_FILES + 1 :
                                      A!upload_version_screenshot(r, n, "position", at)
             \/ \E by \in A!Selectors, at \in 1..MAX_SCREENSHOT_FILES, prune \in BOOLEAN :
                  \/ A!delete_version_screenshots(r, by, at, prune)
                  \/ A!delete_cpp_screenshots(r, by, at, prune)
      PROVE  ShotInv'
  BY <1>3, ComesIn DEF A!delete_version_screenshots, A!delete_cpp_screenshots
<1> QED BY SMTT(60), <1>1, <1>2, <1>3, ListsForUpload, Replaces, Posts, Reorders, ListsForDelete, DeletesOne DEF A!Next

\* What the invariant says of the slot.
LEMMA SlotIsKept == ASSUME ShotInv PROVE A!SlotIsExact
<1>1. A!OnlyTheSlot
  <2> SUFFICES ASSUME NEW r \in Requests, edit[r].pc \in {"post", "order", "verify"}, edit[r].alone
               PROVE  /\ A!Without(set.shots, edit[r].id) = edit[r].listed
                      /\ edit[r].pc = "verify" => edit[r].at \in DOMAIN set.shots /\ set.shots[edit[r].at].id = edit[r].id
    BY DEF A!OnlyTheSlot
  <2>1. OwnIsNew(r) /\ ListIsSet(r) /\ edit[r].listed \in Seq(Shot) /\ DistinctShots(edit[r].listed)
        /\ OwnShot(r) \in Shot /\ OwnShot(r).id = edit[r].id /\ edit[r].id \notin A!Ids(edit[r].listed)
    BY AtWork DEF OwnIsNew
  <2>2. CASE edit[r].pc = "post"
    BY <2>1, <2>2, WithoutNone DEF ListIsSet
  <2>3. CASE edit[r].pc \in {"order", "verify"}
    <3>1. PICK at : WithAt(set.shots, edit[r].listed, at, OwnShot(r)) /\ (edit[r].pc = "verify" => at = edit[r].at)
      BY <2>1, <2>3 DEF ListIsSet
    <3>2. A!Without(set.shots, edit[r].id) = edit[r].listed /\ set.shots[at] = OwnShot(r)
      BY <2>1, <3>1, MoreFacts
    <3>3. at \in DOMAIN set.shots
      BY <3>1 DEF WithAt
    <3> QED BY <2>1, <3>1, <3>2, <3>3
  <2> QED BY <2>2, <2>3
<1>2. A!NamesAreNotDoubled
  BY DEF ShotInv, OnceNamed, A!NamesAreNotDoubled
<1>3. A!CountIsTrue
  BY AtWork DEF ListIsSet, A!CountIsTrue
<1> QED BY <1>1, <1>2, <1>3 DEF A!SlotIsExact

-----------------------------------------------------------------------------
(***************************************************************************)
(* The store page: one part moves, the others are at rest.                 *)
(***************************************************************************)

MCVars == <<part, vars, listingVars, expVars, pageVars, assetVars>>

LEMMA PartsInitially == MCInit => Init /\ L!Init /\ X!Init /\ P!Init /\ A!Init
  BY DEF MCInit

LEMMA PartsStep ==
  [MCNext]_MCVars =>
    [Next]_vars /\ [L!Next]_(L!vars) /\ [X!Next]_(X!vars) /\ [P!Next]_(P!vars) /\ [A!Next]_(A!vars)
<1> SUFFICES ASSUME [MCNext]_MCVars
             PROVE  /\ [Next]_vars /\ [L!Next]_(L!vars) /\ [X!Next]_(X!vars)
                    /\ [P!Next]_(P!vars) /\ [A!Next]_(A!vars)
  OBVIOUS
<1> USE DEF L!vars, X!vars, P!vars, A!vars, listingVars, expVars, pageVars, assetVars
<1>1. CASE TextStep
  BY <1>1 DEF TextStep
<1>2. CASE ListingStep
  BY <1>2 DEF ListingStep
<1>3. CASE ExperimentStep
  BY <1>3 DEF ExperimentStep
<1>4. CASE PageStep
  BY <1>4 DEF PageStep
<1>5. CASE AssetStep
  BY <1>5 DEF AssetStep
<1>6. CASE UNCHANGED MCVars
  BY <1>6 DEF MCVars
<1> QED
  BY <1>1, <1>2, <1>3, <1>4, <1>5, <1>6 DEF MCNext

\* However requests to translate overlap, and whichever of them die, never more than
\* the cap of translations is bought within the window where the count and the insert are
\* under the app's advisory lock (services/metadata/translate.py, PostgreSQL); where they
\* are not (SQLite), the cap is overrun by less than the number of requests.
THEOREM NeverOverCap == ASSUME ListingSetting PROVE MCSpec => []CapHolds
<1>1. MCInit => ListingInv
  BY PartsInitially, ListingInitially
<1>2. ListingInv /\ [MCNext]_MCVars => ListingInv'
  BY PartsStep, ListingKeeps
<1>3. ListingInv => CapHolds
  <2> SUFFICES ASSUME ListingInv PROVE Cardinality(recent) <= Cap + L!Overrun
    BY SameCardinality DEF CapHolds, L!CapHolds
  <2>1. Cardinality(recent) \in Nat /\ Cardinality(Buyers) \in Nat /\ L!Overrun \in Nat
    BY FS_CardinalityType, BuyersAreFew DEF ListingInv, Counted, WithinCap
  <2> QED
    BY <2>1 DEF ListingInv, WithinCap, ListingSetting
<1> QED
  BY <1>1, <1>2, <1>3, PTL DEF MCSpec, MCVars

LEMMA SamePaid == ASSUME NEW S PROVE L!Quota!Cardinality(S) = Cardinality(S)
  BY Zenon DEF L!Quota!Cardinality, Cardinality

\* Each step of a request buys one translation, or none.
LEMMA QuotaSteps ==
  ASSUME ListingSetting, ListingInv, [L!Next]_(L!vars)
  PROVE  [L!Quota!Next]_(L!Quota!vars)
<1>1. ASSUME NEW r \in Requests, L!Insert(r) PROVE L!Quota!Buy \/ UNCHANGED <<cache, recent, postgres>>
  <2>1. CASE UNCHANGED <<cache, recent>>
    BY <1>1, <2>1 DEF L!Insert
  <2>2. CASE ~UNCHANGED <<cache, recent>>
    <3>1. /\ ~L!AtCap(req[r].used) /\ L!Item(r) \notin cache /\ req[r].pc = "insert"
          /\ cache' = cache \cup {L!Item(r)} /\ recent' = recent \cup {L!Item(r)}
      BY <1>1, <2>2 DEF L!Insert
    <3>2. r \in Buyers /\ postgres \in BOOLEAN /\ UNCHANGED postgres
      BY <1>1, <3>1, BelowCap DEF ListingInv, Counted, L!Insert
    <3>3. /\ Cardinality(recent) \in Nat /\ IsFiniteSet(Buyers) /\ Cardinality(Buyers) \in Nat
          /\ L!Overrun = IF postgres THEN 0 ELSE Cardinality(Requests) - 1
          /\ Cardinality(Requests) \in Nat
      BY <3>2, FS_CardinalityType, BuyersAreFew DEF ListingInv, WithinCap
    <3>4. Cardinality(Buyers) # 0
      BY <3>2, <3>3, FS_EmptySet
    <3>5. Cardinality(recent) < Cap + L!Overrun
      BY <3>2, <3>3, <3>4 DEF ListingInv, WithinCap, ListingSetting
    <3>6. L!Quota!Cardinality(recent) < Cap + (IF postgres THEN 0 ELSE L!Cardinality(Requests) - 1)
      BY <3>3, <3>5, SamePaid, SameCardinality
    <3>7. L!Item(r) \in cache' \ cache
      BY <3>1
    <3> QED BY <3>1, <3>2, <3>6, <3>7 DEF L!Quota!Buy
  <2> QED BY <2>1, <2>2
<1>2. CASE L!Ages
  BY <1>2 DEF L!Ages, L!Quota!Next, L!Quota!Expire
<1>3. ASSUME NEW r \in Requests,
             \/ \E kind, items, p, source : L!Start(r, kind, items, p, source) /\ UNCHANGED <<cache, recent, postgres>>
             \/ L!LookUp(r) \/ (\E ps : L!Call(r, ps)) \/ L!Lock(r)
             \/ L!Finish(r) \/ L!ReadDraft(r) \/ L!SaveDraft(r) \/ L!Dies(r)
      PROVE  UNCHANGED <<cache, recent, postgres>>
  BY <1>3 DEF L!LookUp, L!Call, L!Lock, L!Finish, L!ReadDraft, L!SaveDraft, L!Dies
<1> QED
  BY <1>1, <1>2, <1>3 DEF L!Next, L!vars, L!Quota!Next, L!Quota!vars, L!metadata_translate,
     L!TranslateFor, L!Localize, L!Brainstorm, L!listing_brainstorm, L!brainstorm_new_apps, L!Propose

\* Paying for translations implements TranslationQuota: however requests overlap
\* between the cache they read, the provider they call and the row they insert, each
\* purchase is as if counted and inserted at once, of something new, and under the cap,
\* or without a lock under the cap and what the others have under way.
THEOREM PurchasesKeepQuota == ASSUME ListingSetting PROVE MCSpec => BuysWithinQuota
<1>1. MCInit => ListingInv
  BY PartsInitially, ListingInitially
<1>2. MCInit => L!Quota!Init
  BY PartsInitially DEF L!Init, L!Quota!Init
<1>3. ListingInv /\ [MCNext]_MCVars => ListingInv' /\ [L!Quota!Next]_(L!Quota!vars)
  BY PartsStep, ListingKeeps, QuotaSteps
<1> QED
  BY <1>1, <1>2, <1>3, PTL DEF MCSpec, MCVars, BuysWithinQuota, L!BuysWithinQuota, L!Quota!Spec

\* The calls that translate one proposal batch by batch leave a draft with every locale
\* they covered, as long as no two of them overlapped.
THEOREM EveryBatchIsKept == ASSUME ListingSetting PROVE MCSpec => []BatchesAddUp
<1>1. MCInit => ListingInv
  BY PartsInitially, ListingInitially
<1>2. ListingInv /\ [MCNext]_MCVars => ListingInv'
  BY PartsStep, ListingKeeps
<1>3. ListingInv => BatchesAddUp
  BY DEF ListingInv, BatchesAddUp
<1> QED
  BY <1>1, <1>2, <1>3, PTL DEF MCSpec, MCVars

\* A keyword set that runs alone links before it unlinks: at no point, and after no
\* failure, is a keyword missing that was there and is wanted.
THEOREM KeywordsStayBetween == ASSUME PageSetting PROVE MCSpec => []KeywordsBetween
<1>1. MCInit => PageInv
  BY PartsInitially, PagesInitially
<1>2. PageInv /\ [MCNext]_MCVars => PageInv'
  BY PartsStep, PagesKeep
<1>3. PageInv => KeywordsBetween
  BY AloneIsBetween DEF KeywordsBetween
<1> QED
  BY <1>1, <1>2, <1>3, PTL DEF MCSpec, MCVars

\* Wherever a page made from an upload stands and whoever else is at it, it has every file
\* or its request is still at it, its cleanup included; it is left incomplete only when its
\* deletion failed as well, the request died, or nobody was told that it was made.
THEOREM UploadsAreWhole == ASSUME PageSetting PROVE MCSpec => []NoHalfPages
<1>1. MCInit => PageInv
  BY PartsInitially, PagesInitially
<1>2. MCInit => P!NoHalfPages
  <2> SUFFICES ASSUME P!Init PROVE \A p \in P!There : pages[p].asked \subseteq pages[p].files
    BY PartsInitially DEF P!NoHalfPages
  <2>1. PICK old : pages = <<[there |-> TRUE, state |-> "editable", visible |-> TRUE, locs |-> {Seed},
                              files |-> {}, keywords |-> old, asked |-> {}]>>
    BY DEF P!Init
  <2> QED
    BY <2>1 DEF P!There
<1>3. PageInv /\ P!NoHalfPages /\ [MCNext]_MCVars => PageInv' /\ P!NoHalfPages'
  BY PartsStep, PagesKeep, WholeKeeps
<1>4. P!NoHalfPages => NoHalfPages
  BY DEF NoHalfPages
<1> QED
  BY <1>1, <1>2, <1>3, <1>4, PTL DEF MCSpec, MCVars

\* What is sent to review is the experiment that was asked for and nothing else, and a
\* submit that runs alone is never refused for what an earlier one has left.
THEOREM SubmitsAreClean == MCSpec => []SubmitIsClean
<1>1. MCInit => SubmitInv
  BY PartsInitially, SubmitInitially
<1>2. SubmitInv /\ [MCNext]_MCVars => SubmitInv'
  BY PartsStep, SubmitsKeep
<1>3. SubmitInv => SubmitIsClean
  BY SentIsClean DEF SubmitIsClean
<1> QED
  BY <1>1, <1>2, <1>3, PTL DEF MCSpec, MCVars

\* The cleanup of an upload that failed deletes the localization it made and no other,
\* and none that it made stays unless the cleanup failed.
THEOREM CleanupIsItsOwn == ASSUME ExpSetting PROVE MCSpec => CleansUpItsOwn
<1> DEFINE Own ==
      /\ loc # X!NoLoc /\ loc' = X!NoLoc =>
           \E r \in Requests : expRun[r].pc = "cleanup" /\ expRun[r].call = loc.maker
      /\ \A r \in Requests :
           X!Uploading(r) /\ expRun'[r] = X!Idle /\ expRun[r].pc # "make" /\ expRun[r].todo # <<>>
             /\ ~orphan' => loc'.maker # expRun[r].call
<1>1. MCInit => UploadInv
  BY PartsInitially, UploadInitially
<1>2. UploadInv /\ [MCNext]_MCVars => UploadInv'
  BY PartsStep, UploadsKeep
<1>3. UploadInv /\ [MCNext]_MCVars => [Own]_(X!vars)
  BY PartsStep, CleanupStep
<1> QED
  BY <1>1, <1>2, <1>3, PTL DEF MCSpec, MCVars, CleansUpItsOwn, X!CleansUpItsOwn

\* The rows never show a text Apple has not accepted for that locale and field; and after
\* requests that neither overlapped nor met a fault they are Apple's page.
THEOREM MirrorsAreTrue == ASSUME TextSetting PROVE MCSpec => []MirrorIsTrue
<1>1. MCInit => TextInv
  BY PartsInitially, TextsInitially
<1>2. TextInv /\ [MCNext]_MCVars => TextInv'
  BY PartsStep, TextsKeep
<1>3. TextInv => MirrorIsTrue
  BY InvIsTrue
<1> QED
  BY <1>1, <1>2, <1>3, PTL DEF MCSpec, MCVars

\* What a bulk apply reports of a locale is what became of it: "applied" is accepted, and
\* a locale all of whose items say "skipped" has had nothing sent.
THEOREM ReportsAreTrue == ASSUME TextSetting PROVE MCSpec => []ReportsTheTruth
<1>1. MCInit => TextInv
  BY PartsInitially, TextsInitially
<1>2. TextInv /\ [MCNext]_MCVars => TextInv'
  BY PartsStep, TextsKeep
<1>3. TextInv => ReportsTheTruth
  BY InvIsTrue
<1> QED
  BY <1>1, <1>2, <1>3, PTL DEF MCSpec, MCVars

\* However the tools that change one screenshot follow each other and wherever they
\* fail, an upload that runs alone leaves every other screenshot where it was and has its
\* own in its slot, uploads by name never double a name, and a delete's count of what
\* remains is what is in the set (mcp/tools/screenshots.py and the services it calls).
THEOREM SlotsAreExact == ASSUME AssetSetting PROVE MCSpec => []SlotIsExact
<1>1. MCInit => ShotInv
  BY PartsInitially, ShotsInitially
<1>2. ShotInv /\ [MCNext]_MCVars => ShotInv'
  BY PartsStep, ShotsKeep
<1>3. ShotInv => SlotIsExact
  BY SlotIsKept DEF SlotIsExact
<1> QED
  BY <1>1, <1>2, <1>3, PTL DEF MCSpec, MCVars
=============================================================================
