--------------------------- MODULE ProductsProofs ----------------------------
(***************************************************************************)
(* What holds of the products of an app, of cloning one and of what hangs  *)
(* on them, for every number of requests, overlapping in any way; and, by  *)
(* RcSwapProofs, of the two services beside App Store Connect.             *)
(***************************************************************************)
EXTENDS MCProducts, Sequences, FiniteSetTheorems, WellFoundedInduction, TLAPS

-----------------------------------------------------------------------------
(***************************************************************************)
(* The cloner.  Its inductive invariant says of each run how much of what  *)
(* it was asked to do is done by the step it has reached, unless it has an *)
(* error on record.                                                        *)
(***************************************************************************)

\* The steps from step 7 on, and those after each of the copied parts.
AfterOffersPhases == {"shot_delete", "shot_upload", "archive_source",
                      "cloned", "committed"}
AfterPricesPhases ==
  AfterOffersPhases \cup {"probe_intro_offers", "intro_offers"}
AfterLocalizationsPhases ==
  AfterPricesPhases \cup {"probe_price_schedule", "price_schedule"}
AfterAvailabilityPhases ==
  AfterLocalizationsPhases \cup {"probe_localizations", "localizations"}
AfterTargetPhases ==
  AfterAvailabilityPhases \cup {"local_row", "read_availability", "post_availability"}

PhasesAfter(part) ==
  CASE part = "localizations"  -> AfterLocalizationsPhases
    [] part = "price_schedule" -> AfterPricesPhases
    [] part = "intro_offers"   -> AfterOffersPhases

IdleIsFresh == \A r \in Run : pc[r] = "idle" => scope[r] = {}

TargetFound ==
  \A r \in Run : pc[r] \in AfterTargetPhases /\ ~errs[r] => hasTarget[r]

\* A part is copied but for the keys still to do, then copied.
CopiedSoFar ==
  \A r \in Run : ~errs[r] => \A part \in Part \cap scope[r] :
    /\ pc[r] = part => Source[part] \ todo[r] \subseteq copied[part]
    /\ pc[r] \in PhasesAfter(part) => Source[part] \subseteq copied[part]

\* Runs only bring what the source holds, and a schedule of in-app purchase
\* prices brings all of it, so that replacing the target's loses nothing.
FromSource ==
  /\ \A part \in Part : copied[part] \subseteq Source[part]
  /\ \A r \in Run : pc[r] \in Part => todo[r] \subseteq Source[pc[r]]
  /\ \A r \in Run : kind = "iap" /\ pc[r] = "price_schedule" =>
                    todo[r] \in {{}, Source["price_schedule"]}

ReadBeforePost == \A r \in Run : pc[r] = "post_availability" => read[r] # {}

NothingReported == \A r \in Run : ~errs[r] /\ pc[r] # "aborted"
ArchivesAlsoMirror ==
  \A r \in Run : "auto_archive" \in scope[r] => "group_availability" \in scope[r]

\* While no run has reported or died, a run past step 3 has put the target on
\* sale, and so has somebody before the source went off sale.
SaleMoves ==
  NothingReported /\ ArchivesAlsoMirror =>
    /\ onSale["old"] = {} => onSale["new"] # {}
    /\ \A r \in Run : /\ "group_availability" \in scope[r]
                      /\ pc[r] \in AfterAvailabilityPhases
                      => onSale["new"] # {}

CloneInv ==
  /\ TypeOK
  /\ IdleIsFresh
  /\ TargetFound
  /\ CopiedSoFar
  /\ FromSource
  /\ ReadBeforePost
  /\ SaleMoves

-----------------------------------------------------------------------------
LEMMA CloneInitially == Init => CloneInv
<1> SUFFICES ASSUME Init PROVE CloneInv
  OBVIOUS
<1>1. TypeOK
  BY DEF Init, TypeOK, Phase
<1>2. \A r \in Run : pc[r] = "idle" /\ scope[r] = {}
  BY DEF Init
<1>3. IdleIsFresh /\ CopiedSoFar /\ ReadBeforePost
  BY <1>2 DEF IdleIsFresh, CopiedSoFar, ReadBeforePost
<1>4. TargetFound
  BY <1>2 DEF TargetFound, AfterTargetPhases, AfterAvailabilityPhases,
     AfterLocalizationsPhases, AfterPricesPhases, AfterOffersPhases
<1>5. SaleMoves
  BY <1>2, TerritoryAssumption DEF Init, SaleMoves
<1>6. FromSource
  BY <1>2 DEF Init, FromSource, Part
<1> QED
  BY <1>1, <1>3, <1>4, <1>5, <1>6 DEF CloneInv

\* Where the steps go on: never past a part that is in scope.
LEMMA NextPhases ==
  ASSUME NEW r \in Run
  PROVE  /\ AfterScreenshot(r) = "archive_source"
         /\ AfterOffers(r) \in {"shot_delete", "archive_source"}
         /\ IF "intro_offers" \in scope[r]
            THEN AfterPrices(r) = "probe_intro_offers"
            ELSE AfterPrices(r) = AfterOffers(r)
         /\ IF "price_schedule" \in scope[r]
            THEN AfterLocalizations(r) = "probe_price_schedule"
            ELSE AfterLocalizations(r) = AfterPrices(r)
         /\ IF "localizations" \in scope[r]
            THEN AfterAvailability(r) = "probe_localizations"
            ELSE AfterAvailability(r) = AfterLocalizations(r)
         /\ IF "group_availability" \in scope[r]
            THEN AfterRow(r) = "read_availability"
            ELSE AfterRow(r) = AfterAvailability(r)
  BY DEF AfterScreenshot, AfterOffers, AfterPrices,
     AfterLocalizations, AfterAvailability, AfterRow

LEMMA NextCloneTypeOK == TypeOK /\ [Next]_vars => TypeOK'
<1> SUFFICES ASSUME TypeOK, [Next]_vars PROVE TypeOK'
  OBVIOUS
<1> USE DEF Goto, Record, Fail, appleVars, Opened,
         Closed, Unfinished
<1>1. ASSUME NEW r \in Run, NEW s \in Scopes, BeginClone(r, s) PROVE TypeOK'
  <2>1. s \in SUBSET ScopeName
    BY ScopesAssumption
  <2>2. scope' \in [Run -> SUBSET ScopeName]
    BY <1>1, <2>1 DEF TypeOK, BeginClone
  <2> QED
    BY <1>1, <2>2 DEF TypeOK, BeginClone, Phase
<1>2. ASSUME NEW r \in Run,
             ReadSource(r) \/ ListGroup(r) \/ CreateTarget(r) \/ LocalRow(r)
      PROVE  TypeOK'
  <2>1. CASE ReadSource(r) \/ ListGroup(r)
    BY ZenonT(120), <2>1 DEF TypeOK, ReadSource, ListGroup, Phase
  <2>2. CASE CreateTarget(r)
    BY ZenonT(120), <2>2 DEF TypeOK, CreateTarget, Phase
  <2>3. CASE LocalRow(r)
    <3>1. AfterRow(r) \in Phase
      BY NextPhases DEF Phase
    <3> QED
      BY <2>3, <3>1 DEF TypeOK, LocalRow
  <2> QED
    BY <1>2, <2>1, <2>2, <2>3
<1>3. ASSUME NEW r \in Run, ReadAvailability(r) PROVE TypeOK'
  <2>1. AfterAvailability(r) \in Phase
    BY NextPhases DEF Phase
  <2>2. onSale["old"] \in SUBSET Territory /\ "post_availability" \in Phase
    BY DEF TypeOK, Phase
  <2>3. read' \in [Run -> SUBSET Territory] /\ pc' \in [Run -> Phase]
    BY <1>3, <2>1, <2>2 DEF TypeOK, ReadAvailability
  <2> QED
    BY <1>3, <2>3 DEF TypeOK, ReadAvailability
<1>4. ASSUME NEW r \in Run, PostAvailability(r) PROVE TypeOK'
  <2>1. onSale' \in {onSale, [onSale EXCEPT !["new"] = read[r]]}
    BY <1>4 DEF PostAvailability
  <2>2. read[r] \in SUBSET Territory
    BY DEF TypeOK
  <2>3. onSale' \in [{"old", "new"} -> SUBSET Territory]
    BY <2>1, <2>2 DEF TypeOK
  <2>4. AfterAvailability(r) \in Phase
    BY NextPhases DEF Phase
  <2> QED
    BY <1>4, <2>3, <2>4 DEF TypeOK, PostAvailability
<1>5. ASSUME NEW r \in Run, NEW part \in Part, Probe(r, part) PROVE TypeOK'
  <2>1. \A seen : Source[part] \ seen \in SUBSET Key
    BY SourceAssumption
  <2>2. todo' \in [Run -> SUBSET Key]
    BY <1>5, <2>1 DEF TypeOK, Probe
  <2>3. part \in Phase /\ AfterPart(r, part) \in Phase
    BY NextPhases DEF Part, Phase, AfterPart
  <2> QED
    BY ZenonT(120), <1>5, <2>2, <2>3 DEF TypeOK, Probe
<1>6. ASSUME NEW r \in Run, NEW part \in Part, EndPart(r, part) PROVE TypeOK'
  <2>1. AfterPart(r, part) \in Phase
    BY NextPhases DEF Part, Phase, AfterPart
  <2> QED
    BY <1>6, <2>1 DEF TypeOK, EndPart
<1>7. ASSUME NEW r \in Run, NEW part \in Part, NEW k \in Key, CopyKey(r, part, k)
      PROVE  TypeOK'
  <2>1. copied[part] \cup {k} \in SUBSET Key /\ todo[r] \ {k} \in SUBSET Key
    BY <1>7 DEF TypeOK
  <2>2. copied' \in {copied, [copied EXCEPT ![part] = copied[part] \cup {k}]}
    BY <1>7 DEF CopyKey
  <2>3. copied' \in [Part -> SUBSET Key]
    BY <2>1, <2>2 DEF TypeOK
  <2>4. todo' \in [Run -> SUBSET Key]
    BY <1>7, <2>1 DEF TypeOK, CopyKey
  <2> QED
    BY <1>7, <2>3, <2>4 DEF TypeOK, CopyKey
<1>8. ASSUME NEW r \in Run, DeleteShot(r) \/ UploadShot(r) PROVE TypeOK'
  BY ZenonT(120), <1>8, NextPhases DEF TypeOK, DeleteShot, UploadShot, Phase
<1>9. ASSUME NEW r \in Run, ArchiveSource(r) PROVE TypeOK'
  <2>1. onSale' \in {onSale, [onSale EXCEPT !["old"] = {}]}
    BY <1>9 DEF ArchiveSource
  <2>2. onSale' \in [{"old", "new"} -> SUBSET Territory]
    BY <2>1 DEF TypeOK
  <2> QED
    BY ZenonT(120), <1>9, <2>2 DEF TypeOK, ArchiveSource, Phase
<1>10. ASSUME NEW r \in Run, Commit(r) \/ Abort(r) PROVE TypeOK'
  <2>1. CASE Commit(r)
    <3>1. rows' \in Nat
      BY <2>1 DEF TypeOK, Commit
    <3> QED
      BY <2>1, <3>1 DEF TypeOK, Commit, Phase
  <2>2. CASE Abort(r)
    BY <2>2 DEF TypeOK, Abort, Phase
  <2> QED
    BY <1>10, <2>1, <2>2
<1>11. ASSUME NEW r \in Run, SetPrices(r) PROVE TypeOK'
  <2>1. todo[r] \in SUBSET Key
    BY DEF TypeOK
  <2>2. todo' \in [Run -> SUBSET Key]
    BY <1>11 DEF TypeOK, SetPrices
  <2>3. copied' \in {copied, [copied EXCEPT !["price_schedule"] = todo[r]]}
    BY <1>11 DEF SetPrices
  <2>4. copied' \in [Part -> SUBSET Key]
    BY <2>1, <2>3 DEF TypeOK
  <2> QED
    BY <1>11, <2>2, <2>4 DEF TypeOK, SetPrices
<1>12. CASE UNCHANGED vars
  BY <1>12 DEF TypeOK, vars
<1> QED
  BY <1>1, <1>2, <1>3, <1>4, <1>5, <1>6, <1>7, <1>8, <1>9, <1>10, <1>11, <1>12 DEF
     Next, CloneStep, SharedStep, CopyLocalization,
     CopyPrice, CopyOffer, Part

-----------------------------------------------------------------------------
\* What a step of a run leaves alone: the other runs, the scopes, an error on
\* record and what has been copied.
Frame(r) ==
  /\ UNCHANGED <<kind, scope>>
  /\ pc'[r] \notin {"idle", "aborted"}
  /\ errs[r] => errs'[r]
  /\ \A q \in Run \ {r} : /\ pc'[q] = pc[q] /\ errs'[q] = errs[q]
                          /\ todo'[q] = todo[q] /\ read'[q] = read[q]
                          /\ hasTarget'[q] = hasTarget[q]
  /\ \A part \in Part : copied[part] \subseteq copied'[part]

LEMMA StepFrame ==
  ASSUME TypeOK, FromSource, NEW r \in Run, CloneStep(r) PROVE Frame(r)
<1> USE DEF TypeOK, Frame, Goto, Fail, Record, appleVars,
         Opened, Closed, Unfinished
<1>1. CASE ReadSource(r)
  BY <1>1 DEF ReadSource
<1>2. CASE ListGroup(r)
  BY <1>2 DEF ListGroup
<1>3. CASE CreateTarget(r)
  BY ZenonT(120), <1>3 DEF CreateTarget
<1>4. CASE LocalRow(r)
  BY <1>4, NextPhases DEF LocalRow
<1>5. CASE ReadAvailability(r)
  BY <1>5, NextPhases DEF ReadAvailability
<1>6. CASE PostAvailability(r)
  BY <1>6, NextPhases DEF PostAvailability
<1>7. ASSUME NEW part \in Part, Probe(r, part) PROVE Frame(r)
  BY <1>7, NextPhases DEF Probe, AfterPart, Part
<1>8. ASSUME NEW part \in Part, EndPart(r, part) PROVE Frame(r)
  BY <1>8, NextPhases DEF EndPart, AfterPart, Part
<1>9. ASSUME NEW part \in Part, NEW k \in Key, CopyKey(r, part, k) PROVE Frame(r)
  BY <1>9 DEF CopyKey, Part
<1>10. CASE SetPrices(r)
  <2>1. copied["price_schedule"] \subseteq todo[r]
    BY <1>10 DEF SetPrices, FromSource, Part
  <2> QED
    BY <1>10, <2>1 DEF SetPrices, Part
<1>11. CASE DeleteShot(r)
  BY <1>11, NextPhases DEF DeleteShot
<1>12. CASE UploadShot(r)
  BY <1>12, NextPhases DEF UploadShot
<1>13. CASE ArchiveSource(r)
  BY <1>13 DEF ArchiveSource
<1> QED
  BY <1>1, <1>2, <1>3, <1>4, <1>5, <1>6, <1>7, <1>8, <1>9, <1>10, <1>11, <1>12,
     <1>13
     DEF CloneStep, SharedStep, CopyLocalization, CopyPrice, CopyOffer, Part

-----------------------------------------------------------------------------
\* One lemma for each part of the invariant.

LEMMA NextIdleIsFresh == CloneInv /\ [Next]_vars => IdleIsFresh'
<1> SUFFICES ASSUME CloneInv, [Next]_vars PROVE IdleIsFresh'
  OBVIOUS
<1> USE DEF CloneInv, TypeOK, IdleIsFresh, Goto, Fail, Record
<1>1. ASSUME NEW r \in Run, NEW s \in Scopes, BeginClone(r, s) PROVE IdleIsFresh'
  BY <1>1 DEF BeginClone
<1>2. ASSUME NEW r \in Run, CloneStep(r) PROVE IdleIsFresh'
  BY <1>2, StepFrame DEF Frame
<1> QED
  BY <1>1, <1>2 DEF Next, Commit, Abort, vars

LEMMA NextTargetFound == CloneInv /\ [Next]_vars => TargetFound'
<1> SUFFICES ASSUME CloneInv, [Next]_vars PROVE TargetFound'
  OBVIOUS
<1> USE DEF CloneInv, TypeOK, TargetFound, Goto, Fail, Record,
         AfterTargetPhases, AfterAvailabilityPhases, AfterLocalizationsPhases,
         AfterPricesPhases, AfterOffersPhases
<1>1. ASSUME NEW r \in Run, CloneStep(r) PROVE TargetFound'
  <2>1. Frame(r)
    BY <1>1, StepFrame
  <2>2. SUFFICES ASSUME pc'[r] \in AfterTargetPhases, ~errs'[r] PROVE hasTarget'[r]
    BY <2>1 DEF Frame
  <2>3. CASE ReadSource(r)
    BY <2>2, <2>3 DEF ReadSource
  <2>4. CASE ListGroup(r)
    BY <2>2, <2>4 DEF ListGroup
  <2>5. CASE CreateTarget(r)
    BY ZenonT(120), <2>2, <2>5 DEF CreateTarget
  <2>6. ASSUME ~(ReadSource(r) \/ ListGroup(r) \/ CreateTarget(r)) PROVE hasTarget'[r]
    <3>1. pc[r] \in AfterTargetPhases /\ UNCHANGED hasTarget
      BY <1>1, <2>6 DEF CloneStep, SharedStep, LocalRow,
         ReadAvailability, PostAvailability, Probe, ProbeOf,
         EndPart, CopyLocalization, CopyPrice, CopyOffer,
         CopyKey, SetPrices, DeleteShot, UploadShot,
         ArchiveSource, Part
    <3> QED
      BY <2>1, <2>2, <3>1 DEF Frame
  <2> QED
    BY <2>3, <2>4, <2>5, <2>6
<1>2. ASSUME NEW r \in Run, NEW s \in Scopes, BeginClone(r, s) PROVE TargetFound'
  BY <1>2 DEF BeginClone
<1>3. ASSUME NEW r \in Run, Commit(r) \/ Abort(r) PROVE TargetFound'
  BY <1>3 DEF Commit, Abort
<1> QED
  BY <1>1, <1>2, <1>3 DEF Next, vars

LEMMA NextReadBeforePost == CloneInv /\ [Next]_vars => ReadBeforePost'
<1> SUFFICES ASSUME CloneInv, [Next]_vars PROVE ReadBeforePost'
  OBVIOUS
<1> USE DEF CloneInv, TypeOK, ReadBeforePost, Goto, Fail, Record
<1>1. ASSUME NEW r \in Run, CloneStep(r) PROVE ReadBeforePost'
  <2>1. Frame(r)
    BY <1>1, StepFrame
  <2>2. SUFFICES ASSUME pc'[r] = "post_availability" PROVE read'[r] # {}
    BY <2>1 DEF Frame
  <2>3. CASE ReadAvailability(r)
    BY <2>2, <2>3, NextPhases DEF ReadAvailability
  <2>4. CASE ReadSource(r) \/ ListGroup(r) \/ CreateTarget(r) \/ ArchiveSource(r)
    BY <2>2, <2>4 DEF ReadSource, ListGroup, CreateTarget,
       ArchiveSource
  <2>5. CASE LocalRow(r) \/ PostAvailability(r) \/ DeleteShot(r) \/ UploadShot(r)
    BY <2>2, <2>5, NextPhases DEF LocalRow, PostAvailability,
       DeleteShot, UploadShot
  <2>6. ASSUME NEW part \in Part, NEW k \in Key,
               Probe(r, part) \/ EndPart(r, part) \/ CopyKey(r, part, k)
        PROVE  FALSE
    <3>1. pc'[r] \in {part, AfterPart(r, part)}
      BY <2>6 DEF Probe, EndPart, CopyKey
    <3>2. part # "post_availability" /\ AfterPart(r, part) # "post_availability"
      BY NextPhases DEF Part, AfterPart
    <3> QED
      BY <2>2, <3>1, <3>2
  <2>7. ASSUME NEW part \in Part, Probe(r, part) \/ EndPart(r, part) PROVE FALSE
    <3>1. pc'[r] \in {part, AfterPart(r, part)}
      BY <2>7 DEF Probe, EndPart
    <3>2. part # "post_availability" /\ AfterPart(r, part) # "post_availability"
      BY NextPhases DEF Part, AfterPart
    <3> QED
      BY <2>2, <3>1, <3>2
  <2>8. CASE SetPrices(r)
    BY <2>2, <2>8 DEF SetPrices
  <2> QED
    BY <1>1, <2>3, <2>4, <2>5, <2>6, <2>7, <2>8 DEF CloneStep, SharedStep,
       CopyLocalization, CopyPrice, CopyOffer, Part
<1>2. ASSUME NEW r \in Run, NEW s \in Scopes, BeginClone(r, s) PROVE ReadBeforePost'
  BY <1>2 DEF BeginClone
<1>3. ASSUME NEW r \in Run, Commit(r) \/ Abort(r) PROVE ReadBeforePost'
  BY <1>3 DEF Commit, Abort
<1> QED
  BY <1>1, <1>2, <1>3 DEF Next, vars

-----------------------------------------------------------------------------
\* The steps go on to no part in scope that has not been worked on.

LEMMA NotYet ==
  ASSUME NEW r \in Run, NEW part \in Part \cap scope[r],
         NEW x \in {AfterRow(r), AfterAvailability(r)}
  PROVE  x # part /\ x \notin PhasesAfter(part)
<1>1. CASE part = "localizations"
  BY <1>1, NextPhases DEF PhasesAfter, AfterLocalizationsPhases, AfterPricesPhases,
     AfterOffersPhases
<1>2. CASE part = "price_schedule"
  BY <1>2, NextPhases DEF PhasesAfter, AfterPricesPhases, AfterOffersPhases
<1>3. CASE part = "intro_offers"
  BY <1>3, NextPhases DEF PhasesAfter, AfterOffersPhases
<1> QED
  BY <1>1, <1>2, <1>3 DEF Part

LEMMA PastAnother ==
  ASSUME NEW r \in Run, NEW part \in Part, NEW other \in Part \cap scope[r],
         other # part
  PROVE  /\ AfterPart(r, part) # other
         /\ AfterPart(r, part) \in PhasesAfter(other) =>
              part \in PhasesAfter(other)
         /\ part \in PhasesAfter(other) => ProbeOf(part) \in PhasesAfter(other)
<1> USE NextPhases DEF AfterPart, ProbeOf, PhasesAfter,
         AfterLocalizationsPhases, AfterPricesPhases, AfterOffersPhases
<1>1. CASE part = "localizations"
  BY <1>1 DEF Part
<1>2. CASE part = "price_schedule"
  BY <1>2 DEF Part
<1>3. CASE part = "intro_offers"
  BY <1>3 DEF Part
<1> QED
  BY <1>1, <1>2, <1>3 DEF Part

LEMMA PartPhases ==
  ASSUME NEW r \in Run, NEW part \in Part
  PROVE  /\ part \notin PhasesAfter(part) /\ AfterPart(r, part) # part
         /\ AfterOffersPhases \subseteq PhasesAfter(part)
         /\ AfterOffersPhases \cap Part = {}
  BY NextPhases DEF Part, AfterPart, PhasesAfter, AfterLocalizationsPhases,
     AfterPricesPhases, AfterOffersPhases

LEMMA NextCopiedSoFar == CloneInv /\ [Next]_vars => CopiedSoFar'
<1> SUFFICES ASSUME CloneInv, [Next]_vars PROVE CopiedSoFar'
  OBVIOUS
<1> USE DEF CloneInv, TypeOK, Opened, Closed
<1>1. ASSUME NEW r \in Run, CloneStep(r) PROVE CopiedSoFar'
  <2>1. Frame(r)
    BY <1>1, StepFrame
  <2>2. SUFFICES ASSUME ~errs'[r], NEW other \in Part \cap scope[r]
        PROVE  /\ pc'[r] = other => Source[other] \ todo'[r] \subseteq copied'[other]
               /\ pc'[r] \in PhasesAfter(other) => Source[other] \subseteq copied'[other]
    BY <2>1 DEF CopiedSoFar, Frame
  <2>3. /\ copied[other] \subseteq copied'[other]
        /\ pc[r] = other => Source[other] \ todo[r] \subseteq copied[other]
        /\ pc[r] \in PhasesAfter(other) => Source[other] \subseteq copied[other]
    BY <2>1, <2>2 DEF CopiedSoFar, Frame
  <2>4. CASE \/ ReadSource(r) \/ ListGroup(r) \/ CreateTarget(r) \/ LocalRow(r)
             \/ ReadAvailability(r) \/ PostAvailability(r)
    <3>1. pc'[r] \in {"list_group", "local_row", "create", "post_availability",
                      AfterRow(r), AfterAvailability(r)}
      BY <2>2, <2>4 DEF ReadSource, ListGroup, CreateTarget,
         LocalRow, ReadAvailability, PostAvailability, Goto,
         Fail, Record
    <3>2. pc'[r] # other /\ pc'[r] \notin PhasesAfter(other)
      BY <3>1, NotYet DEF Part, PhasesAfter, AfterLocalizationsPhases,
         AfterPricesPhases, AfterOffersPhases
    <3> QED
      BY <3>2
  <2>5. ASSUME NEW part \in Part, Probe(r, part)
        PROVE  /\ pc'[r] = other => Source[other] \ todo'[r] \subseteq copied'[other]
               /\ pc'[r] \in PhasesAfter(other) => Source[other] \subseteq copied'[other]
    <3>1. pc[r] = ProbeOf(part) /\ pc'[r] = part
      BY <2>2, <2>5 DEF Probe, Goto, Record
    <3>2. PICK seen \in Snapshots(part) : todo'[r] = Source[part] \ seen
      BY <2>2, <2>5 DEF Probe, Record
    <3>3. seen \subseteq copied[part]
      BY <3>2 DEF Snapshots
    <3> QED
      BY <2>3, <3>1, <3>2, <3>3, PartPhases, PastAnother
  <2>6. ASSUME NEW part \in Part, EndPart(r, part)
        PROVE  /\ pc'[r] = other => Source[other] \ todo'[r] \subseteq copied'[other]
               /\ pc'[r] \in PhasesAfter(other) => Source[other] \subseteq copied'[other]
    <3>1. pc[r] = part /\ pc'[r] = AfterPart(r, part) /\ todo[r] = {}
      BY <2>6 DEF EndPart, Goto
    <3> QED
      BY <2>3, <3>1, PartPhases, PastAnother
  <2>7. ASSUME NEW part \in Part, NEW k \in Key, CopyKey(r, part, k)
        PROVE  /\ pc'[r] = other => Source[other] \ todo'[r] \subseteq copied'[other]
               /\ pc'[r] \in PhasesAfter(other) => Source[other] \subseteq copied'[other]
    <3>1. pc[r] = part /\ pc'[r] = part /\ todo'[r] = todo[r] \ {k}
      BY <2>7 DEF CopyKey
    <3>2. copied'[part] = copied[part] \cup {k}
      BY <2>2, <2>7 DEF CopyKey, Record
    <3> QED
      BY <2>3, <3>1, <3>2
  <2>8. CASE DeleteShot(r) \/ UploadShot(r) \/ ArchiveSource(r)
    <3>1. pc[r] \in AfterOffersPhases /\ pc'[r] \in AfterOffersPhases
      BY <2>8, NextPhases DEF DeleteShot, UploadShot, ArchiveSource,
         Goto, AfterOffersPhases
    <3> QED
      BY <2>3, <3>1, PartPhases
  <2>9. CASE SetPrices(r)
    <3>1. pc[r] = "price_schedule" /\ pc'[r] = "price_schedule"
      BY <2>9 DEF SetPrices
    <3>2. copied'["price_schedule"] = Source["price_schedule"]
      BY <2>2, <2>9 DEF SetPrices, Record, FromSource, Part
    <3> QED
      BY <2>3, <3>1, <3>2
  <2> QED
    BY <1>1, <2>4, <2>5, <2>6, <2>7, <2>8, <2>9 DEF CloneStep, SharedStep,
       CopyLocalization, CopyPrice, CopyOffer, Part
<1>2. ASSUME NEW r \in Run, NEW s \in Scopes, BeginClone(r, s) PROVE CopiedSoFar'
  <2>1. pc'[r] = "read_source" /\ \A q \in Run \ {r} : pc'[q] = pc[q] /\ scope'[q] = scope[q]
    BY <1>2 DEF BeginClone, Goto
  <2>2. \A part \in Part : "read_source" # part /\ "read_source" \notin PhasesAfter(part)
    BY DEF Part, PhasesAfter, AfterLocalizationsPhases, AfterPricesPhases,
       AfterOffersPhases
  <2>3. UNCHANGED <<errs, todo, copied>>
    BY <1>2 DEF BeginClone, appleVars
  <2> QED
    BY <2>1, <2>2, <2>3 DEF CopiedSoFar
<1>3. ASSUME NEW r \in Run, Commit(r) PROVE CopiedSoFar'
  <2>1. /\ pc[r] \in AfterOffersPhases /\ pc'[r] \in AfterOffersPhases
        /\ \A q \in Run \ {r} : pc'[q] = pc[q]
    BY <1>3 DEF Commit, Goto, AfterOffersPhases
  <2>2. UNCHANGED <<errs, todo, copied, scope>>
    BY <1>3 DEF Commit, appleVars
  <2> QED
    BY <2>1, <2>2, PartPhases DEF CopiedSoFar
<1>4. ASSUME NEW r \in Run, Abort(r) PROVE CopiedSoFar'
  <2>1. /\ pc'[r] = "aborted"
        /\ \A q \in Run \ {r} : pc'[q] = pc[q] /\ errs'[q] = errs[q]
    BY <1>4 DEF Abort, Goto
  <2>2. \A part \in Part : "aborted" # part /\ "aborted" \notin PhasesAfter(part)
    BY DEF Part, PhasesAfter, AfterLocalizationsPhases, AfterPricesPhases,
       AfterOffersPhases
  <2>3. UNCHANGED <<todo, copied, scope>>
    BY <1>4 DEF Abort, appleVars
  <2> QED
    BY <2>1, <2>2, <2>3 DEF CopiedSoFar
<1> QED
  BY <1>1, <1>2, <1>3, <1>4 DEF Next, vars, CopiedSoFar

-----------------------------------------------------------------------------
LEMMA NextFromSource == CloneInv /\ [Next]_vars => FromSource'
<1> SUFFICES ASSUME CloneInv, [Next]_vars PROVE FromSource'
  OBVIOUS
<1> USE DEF CloneInv, TypeOK, FromSource
<1>1. ASSUME NEW r \in Run, CloneStep(r) PROVE FromSource'
  <2>1. Frame(r)
    BY <1>1, StepFrame
  <2> DEFINE Kept ==
        /\ \A part \in Part : copied'[part] \subseteq Source[part]
        /\ pc'[r] \in Part => todo'[r] \subseteq Source[pc'[r]]
        /\ kind = "iap" /\ pc'[r] = "price_schedule" =>
             todo'[r] \in {{}, Source["price_schedule"]}
  <2>2. SUFFICES Kept
    BY <2>1 DEF Frame
  <2>3. ASSUME UNCHANGED copied, pc'[r] \notin Part PROVE Kept
    BY <2>3 DEF Part
  <2>4. CASE \/ ReadSource(r) \/ ListGroup(r) \/ CreateTarget(r) \/ LocalRow(r)
             \/ ReadAvailability(r) \/ PostAvailability(r)
    <3>1. UNCHANGED copied
      BY <2>4 DEF ReadSource, ListGroup, CreateTarget, LocalRow,
         ReadAvailability, PostAvailability, appleVars
    <3>2. pc'[r] \in {"list_group", "local_row", "create", "cloned",
                      "post_availability", AfterRow(r), AfterAvailability(r)}
      BY <2>4 DEF ReadSource, ListGroup, CreateTarget, LocalRow,
         ReadAvailability, PostAvailability, Goto, Fail,
         Record
    <3>3. pc'[r] \notin Part
      BY <3>2, NextPhases DEF Part
    <3> QED
      BY <2>3, <3>1, <3>3
  <2>5. ASSUME NEW part \in Part, Probe(r, part) \/ EndPart(r, part)
        PROVE  Kept
    <3>1. UNCHANGED copied
      BY <2>5 DEF Probe, EndPart, appleVars
    <3>2. AfterPart(r, part) \notin Part
      BY NextPhases DEF Part, AfterPart
    <3>3. CASE pc'[r] = AfterPart(r, part)
      BY <2>3, <3>1, <3>2, <3>3
    <3>4. CASE pc'[r] # AfterPart(r, part)
      <4>1. Probe(r, part) /\ pc'[r] = part
        BY <2>5, <3>4 DEF Probe, EndPart, Goto
      <4>2. PICK seen \in Snapshots(part) : todo'[r] = Source[part] \ seen
        BY <3>4, <4>1 DEF Probe, Goto
      <4>3. kind = "iap" /\ part = "price_schedule" => seen = {}
        BY <4>2 DEF Snapshots
      <4> QED
        BY <3>1, <4>1, <4>2, <4>3
    <3> QED
      BY <3>3, <3>4
  <2>6. ASSUME NEW part \in Part, NEW k \in Key, CopyKey(r, part, k),
               part = "price_schedule" => kind = "subscription"
        PROVE  Kept
    <3>1. pc[r] = part /\ pc'[r] = part /\ todo'[r] = todo[r] \ {k} /\ k \in todo[r]
      BY <2>6 DEF CopyKey
    <3>2. copied' \in {copied, [copied EXCEPT ![part] = copied[part] \cup {k}]}
      BY <2>6 DEF CopyKey
    <3>3. \A p \in Part : copied'[p] \subseteq Source[p]
      BY <3>1, <3>2
    <3> QED
      BY <2>6, <3>1, <3>3
  <2>7. CASE SetPrices(r)
    <3>1. pc[r] = "price_schedule" /\ pc'[r] = "price_schedule" /\ todo'[r] = {}
      BY <2>7 DEF SetPrices
    <3>2. copied' \in {copied, [copied EXCEPT !["price_schedule"] = todo[r]]}
      BY <2>7 DEF SetPrices
    <3>3. \A p \in Part : copied'[p] \subseteq Source[p]
      BY <3>1, <3>2 DEF Part
    <3> QED
      BY <3>1, <3>3
  <2>8. CASE DeleteShot(r) \/ UploadShot(r) \/ ArchiveSource(r)
    <3>1. UNCHANGED copied
      BY <2>8 DEF DeleteShot, UploadShot, ArchiveSource
    <3>2. pc'[r] \in AfterOffersPhases
      BY <2>8, NextPhases DEF DeleteShot, UploadShot, ArchiveSource,
         Goto, AfterOffersPhases
    <3> QED
      BY <2>3, <3>1, <3>2, PartPhases DEF Part
  <2> QED
    BY <1>1, <2>4, <2>5, <2>6, <2>7, <2>8 DEF CloneStep, SharedStep,
       CopyLocalization, CopyPrice, CopyOffer, Part
<1>2. ASSUME NEW r \in Run, NEW s \in Scopes, BeginClone(r, s) PROVE FromSource'
  BY <1>2 DEF BeginClone, Goto, appleVars, Part
<1>3. ASSUME NEW r \in Run, Commit(r) \/ Abort(r) PROVE FromSource'
  BY <1>3 DEF Commit, Abort, Goto, appleVars, Part
<1> QED
  BY <1>1, <1>2, <1>3 DEF Next, vars

-----------------------------------------------------------------------------
LEMMA NextSaleMoves == CloneInv /\ [Next]_vars => SaleMoves'
<1> SUFFICES ASSUME CloneInv, [Next]_vars, NothingReported', ArchivesAlsoMirror'
    PROVE  /\ onSale'["old"] = {} => onSale'["new"] # {}
           /\ \A r \in Run : /\ "group_availability" \in scope'[r]
                             /\ pc'[r] \in AfterAvailabilityPhases
                             => onSale'["new"] # {}
  BY DEF SaleMoves
<1> USE DEF CloneInv, TypeOK, Opened, Closed
<1> DEFINE Sold == \A r \in Run : /\ "group_availability" \in scope[r]
                                 /\ pc[r] \in AfterAvailabilityPhases
                                 => onSale["new"] # {}
           Moved == onSale["old"] = {} => onSale["new"] # {}
<1>1. ASSUME NEW r \in Run, CloneStep(r) PROVE Moved' /\ Sold'
  <2>1. Frame(r) /\ ~errs'[r]
    BY <1>1, StepFrame DEF NothingReported
  <2>2. NothingReported /\ ArchivesAlsoMirror
    <3>1. pc[r] # "aborted"
      BY <1>1 DEF CloneStep, SharedStep, ReadSource, ListGroup,
         CreateTarget, LocalRow, ReadAvailability,
         PostAvailability, Probe, ProbeOf, EndPart,
         DeleteShot, CopyLocalization, CopyPrice, CopyOffer,
         CopyKey, SetPrices, UploadShot, ArchiveSource,
         Part
    <3>2. NothingReported
      BY <2>1, <3>1 DEF Frame, NothingReported
    <3> QED
      BY <2>1, <3>2 DEF Frame, ArchivesAlsoMirror
  <2>3. Moved /\ Sold
    BY <2>2 DEF SaleMoves
  <2>4. SUFFICES /\ onSale["new"] # {} => onSale'["new"] # {}
                 /\ Moved'
                 /\ "group_availability" \in scope[r]
                      /\ pc'[r] \in AfterAvailabilityPhases => onSale'["new"] # {}
    BY <2>1, <2>3 DEF Frame
  <2>5. CASE ReadSource(r) \/ ListGroup(r) \/ CreateTarget(r) \/ LocalRow(r)
    <3>1. UNCHANGED onSale
      BY <2>5 DEF ReadSource, ListGroup, CreateTarget, LocalRow,
         appleVars
    <3>2. pc'[r] \in {"list_group", "local_row", "create", AfterRow(r)}
      BY <2>1, <2>5 DEF ReadSource, ListGroup, CreateTarget,
         LocalRow, Goto, Fail, Record
    <3>3. "group_availability" \in scope[r] => pc'[r] \notin AfterAvailabilityPhases
      BY <3>2, NextPhases DEF AfterAvailabilityPhases, AfterLocalizationsPhases,
         AfterPricesPhases, AfterOffersPhases
    <3> QED
      BY <2>3, <3>1, <3>3
  <2>6. CASE ReadAvailability(r)
    <3>1. UNCHANGED onSale
      BY <2>6 DEF ReadAvailability, appleVars
    <3>2. pc'[r] = IF onSale["old"] = {} THEN AfterAvailability(r) ELSE "post_availability"
      BY <2>1, <2>6 DEF ReadAvailability, Goto, Record
    <3> QED
      BY <2>3, <3>1, <3>2 DEF AfterAvailabilityPhases, AfterLocalizationsPhases,
         AfterPricesPhases, AfterOffersPhases
  <2>7. CASE PostAvailability(r)
    <3>1. read[r] # {}
      BY <2>7 DEF PostAvailability, ReadBeforePost
    <3>2. onSale'["new"] # {} /\ onSale'["old"] = onSale["old"]
      BY <2>1, <2>7, <3>1 DEF PostAvailability, Record
    <3> QED
      BY <3>2
  <2>8. CASE ArchiveSource(r)
    <3>1. pc[r] = "archive_source" /\ onSale'["new"] = onSale["new"]
      BY <2>8 DEF ArchiveSource
    <3>2. pc[r] \in AfterAvailabilityPhases
      BY <3>1 DEF AfterAvailabilityPhases, AfterLocalizationsPhases,
         AfterPricesPhases, AfterOffersPhases
    <3>3. CASE "auto_archive" \in scope[r]
      <4>1. "group_availability" \in scope[r]
        BY <2>2, <3>3 DEF ArchivesAlsoMirror
      <4> QED
        BY <2>3, <3>1, <3>2, <4>1
    <3>4. CASE "auto_archive" \notin scope[r]
      <4>1. UNCHANGED onSale
        BY <2>8, <3>4 DEF ArchiveSource
      <4> QED
        BY <2>3, <3>2, <4>1
    <3> QED
      BY <3>3, <3>4
  <2>9. ASSUME UNCHANGED onSale, pc[r] \in AfterAvailabilityPhases
        PROVE  /\ Moved'
               /\ "group_availability" \in scope[r] => onSale'["new"] # {}
    BY <2>3, <2>9
  <2>10. ASSUME NEW part \in Part, Probe(r, part) \/ EndPart(r, part)
         PROVE  UNCHANGED onSale /\ pc[r] \in AfterAvailabilityPhases
    BY <2>10 DEF Probe, EndPart, ProbeOf, Part, appleVars,
       AfterAvailabilityPhases, AfterLocalizationsPhases, AfterPricesPhases,
       AfterOffersPhases
  <2>11. ASSUME NEW part \in Part, NEW k \in Key, CopyKey(r, part, k)
         PROVE  UNCHANGED onSale /\ pc[r] \in AfterAvailabilityPhases
    BY <2>11 DEF CopyKey, Part, AfterAvailabilityPhases,
       AfterLocalizationsPhases, AfterPricesPhases, AfterOffersPhases
  <2>12. ASSUME DeleteShot(r) \/ UploadShot(r) \/ SetPrices(r)
         PROVE  UNCHANGED onSale /\ pc[r] \in AfterAvailabilityPhases
    BY <2>12 DEF DeleteShot, UploadShot, SetPrices,
       AfterAvailabilityPhases, AfterLocalizationsPhases, AfterPricesPhases,
       AfterOffersPhases
  <2>13. CASE \/ DeleteShot(r) \/ UploadShot(r) \/ SetPrices(r)
              \/ \E part \in Part : \/ Probe(r, part) \/ EndPart(r, part)
                                    \/ \E k \in Key : CopyKey(r, part, k)
    <3>1. UNCHANGED onSale /\ pc[r] \in AfterAvailabilityPhases
      BY <2>10, <2>11, <2>12, <2>13
    <3> QED
      BY <2>9, <3>1
  <2> QED
    BY <1>1, <2>5, <2>6, <2>7, <2>8, <2>13 DEF CloneStep, SharedStep,
       CopyLocalization, CopyPrice, CopyOffer, Part
<1>2. ASSUME NEW r \in Run, NEW s \in Scopes, BeginClone(r, s) PROVE Moved' /\ Sold'
  <2>1. pc[r] = "idle" /\ scope[r] = {}
    BY <1>2 DEF BeginClone, IdleIsFresh
  <2>2. /\ pc'[r] = "read_source" /\ \A q \in Run \ {r} : pc'[q] = pc[q] /\ scope'[q] = scope[q]
        /\ UNCHANGED <<onSale, errs>>
    BY <1>2 DEF BeginClone, Goto, appleVars
  <2>3. NothingReported /\ ArchivesAlsoMirror
    BY <2>1, <2>2 DEF NothingReported, ArchivesAlsoMirror
  <2> QED
    BY <2>2, <2>3 DEF SaleMoves, AfterAvailabilityPhases, AfterLocalizationsPhases,
       AfterPricesPhases, AfterOffersPhases
<1>3. ASSUME NEW r \in Run, Commit(r) PROVE Moved' /\ Sold'
  <2>1. /\ pc[r] = "cloned" /\ pc'[r] = "committed"
        /\ \A q \in Run \ {r} : pc'[q] = pc[q]
        /\ UNCHANGED <<onSale, errs, scope>>
    BY <1>3 DEF Commit, Goto, appleVars
  <2>2. NothingReported /\ ArchivesAlsoMirror
    BY <2>1 DEF NothingReported, ArchivesAlsoMirror
  <2>3. "cloned" \in AfterAvailabilityPhases
    BY DEF AfterAvailabilityPhases, AfterLocalizationsPhases, AfterPricesPhases,
       AfterOffersPhases
  <2> QED
    BY <2>1, <2>2, <2>3 DEF SaleMoves
<1>4. ASSUME NEW r \in Run, Abort(r) PROVE FALSE
  BY <1>4 DEF Abort, Goto, NothingReported
<1>5. CASE UNCHANGED vars
  BY <1>5 DEF vars, SaleMoves, NothingReported, ArchivesAlsoMirror
<1> QED
  BY <1>1, <1>2, <1>3, <1>4, <1>5 DEF Next

-----------------------------------------------------------------------------
LEMMA CloneStepInv == CloneInv /\ [Next]_vars => CloneInv'
  BY NextCloneTypeOK, NextIdleIsFresh, NextTargetFound, NextCopiedSoFar,
     NextFromSource, NextReadBeforePost, NextSaleMoves DEF CloneInv

\* CloneInv says of every run what is at Apple by the step it has reached.
THEOREM CloneInductive == Spec => []CloneInv
  BY CloneInitially, CloneStepInv, PTL DEF Spec

LEMMA CleanCloneFollows == CloneInv => CleanCloneIsComplete
<1> SUFFICES ASSUME CloneInv, NEW r \in Run, pc[r] \in {"cloned", "committed"}, ~errs[r]
    PROVE  /\ hasTarget[r]
           /\ \A part \in Part \cap scope[r] : Source[part] \subseteq copied[part]
  BY DEF CleanCloneIsComplete
<1>1. pc[r] \in AfterOffersPhases
  BY DEF AfterOffersPhases
<1>2. hasTarget[r]
  BY <1>1 DEF CloneInv, TargetFound, AfterTargetPhases, AfterAvailabilityPhases,
     AfterLocalizationsPhases, AfterPricesPhases
<1> QED
  BY <1>1, <1>2, PartPhases DEF CloneInv, CopiedSoFar

\* A clone without an error has a target and has copied every part in scope.
THEOREM CleanCloneCorrect == Spec => []CleanCloneIsComplete
  BY CleanCloneFollows, CloneInductive, PTL

\* Both products off sale is never silent, as long as archiving runs mirror.
THEOREM OffSaleReported == Spec => []OffSaleIsReported
<1>1. CloneInv => OffSaleIsReported
  BY DEF CloneInv, SaleMoves, NothingReported, ArchivesAlsoMirror,
     OffSaleIsReported
<1> QED
  BY <1>1, CloneInductive, PTL
-----------------------------------------------------------------------------
(***************************************************************************)
(* The catalog.  As long as no two requests have overlapped, the one that  *)
(* runs has settled every product it has read: its row has the product's   *)
(* name, or will with the commit, or is among those to insert.  Whether    *)
(* they overlapped or not, the rows it will drop are of a product that is  *)
(* gone, for Apple never gives an id twice.                                *)
(***************************************************************************)

Pages == {<<"group", "sub">>, <<"sub">>, <<"iap">>}
Earlier(pages) == IF pages = <<"sub">> THEN {"group"} ELSE {}
KindsAt(c) == Earlier(c.todo) \cup (IF c.pc = "lookup" THEN {Head(c.todo)} ELSE {})

\* A request, the ids up to which products and rows were made, the rows, Apple's products.
ListsOK(c, top, there) ==
  /\ c.todo \in Pages /\ c.drops = {}
  /\ DOMAIN c.seen \subseteq 1..top
  /\ \A i \in DOMAIN c.seen : c.seen[i].kind \in KindsAt(c)
  /\ \A i \in DOMAIN c.seen \cap DOMAIN there : c.seen[i].kind = there[i].kind

DropsOK(c, top, keys, all, there) ==
  /\ c.drops \subseteq 0..keys
  /\ c.pc = "delete" =>
       /\ c.seen[1] \in 1..top
       /\ \A row \in all : row.key \in c.drops => row.asc = c.seen[1]
  /\ c.pc = "commit" =>
       /\ \A row \in all : row.key \in c.drops => row.asc \in (1..top) \ DOMAIN there
       /\ c.drops = {} \/ c.seen = << >>

RequestFits(c, top, keys, all, there) ==
  /\ {"pc"} \subseteq DOMAIN c
  /\ c.pc \in {"idle", "fetch", "lookup", "post", "availability", "patch", "delete",
               "commit", "answer"}
  /\ c.pc = "idle" => c = C!Idle
  /\ c.pc # "idle" => {"todo", "seen", "adds", "names", "drops"} \subseteq DOMAIN c
  /\ c.pc \in {"fetch", "lookup"} => ListsOK(c, top, there)
  /\ c.pc \in {"fetch", "lookup", "availability", "commit"} => DOMAIN c.adds \subseteq 1..top
  /\ c.pc = "availability" => c.seen = << >> /\ c.drops = {}
  /\ c.pc = "patch" => c.adds = << >> /\ c.drops = {}
  /\ c.pc = "delete" => c.adds = << >>
  /\ c.pc \in {"delete", "commit"} => DropsOK(c, top, keys, all, there)

\* What a listing that is alone has settled.
Done(c) == {i \in DOMAIN c.seen : c.pc = "lookup" => c.seen[i].kind # Head(c.todo)}
Named(c, i, all) ==
  \/ i \in DOMAIN c.adds /\ c.adds[i].name = c.seen[i].name
  \/ \E row \in all :
       /\ row.asc = i
       /\ (IF row.key \in DOMAIN c.names THEN c.names[row.key] ELSE row.name) = c.seen[i].name

Settled(c, all) ==
  /\ c.pc \in {"fetch", "lookup", "availability", "commit"} =>
       \A i \in DOMAIN c.adds : \A row \in all : row.asc # i
  /\ c.pc \in {"fetch", "lookup"} =>
       \A row \in all : row.key \in DOMAIN c.names => row.asc \in Done(c)
  /\ c.pc \in {"fetch", "lookup", "commit"} => \A i \in Done(c) : Named(c, i, all)
  /\ c.pc = "answer" =>
       \A i \in DOMAIN c.seen : \E row \in all : row.asc = i /\ row.name = c.seen[i].name

OneRowEach(all) == \A row1, row2 \in all : row1.asc = row2.asc => row1 = row2

RowsFit(all, top, keys) ==
  /\ \A row \in all : DOMAIN row = {"key", "asc", "kind", "name"}
  /\ \A row \in all : row.key \in 1..keys /\ row.asc \in 1..top
  /\ \A row1, row2 \in all : row1.key = row2.key => row1 = row2

AppleFits(there, top) ==
  /\ DOMAIN there \subseteq 1..top
  /\ \A i \in DOMAIN there : {"kind", "name"} \subseteq DOMAIN there[i]

IdsOK == /\ {"products", "rows"} \subseteq DOMAIN ids
         /\ ids.products \in 0..MaxProducts /\ ids.rows \in Nat

Fits(c) == RequestFits(c, ids.products, ids.rows, localRows, apple)

Alone == \A r, s \in Run : request[r].pc # "idle" /\ request[s].pc # "idle" => r = s

CatalogInv ==
  /\ IdsOK /\ AppleFits(apple, ids.products)
  /\ RowsFit(localRows, ids.products, ids.rows)
  /\ DOMAIN request = Run /\ \A r \in Run : Fits(request[r])
  /\ removed \subseteq 1..ids.products /\ removed \cap DOMAIN apple = {}
  /\ ~overlap => /\ Alone /\ OneRowEach(localRows)
                 /\ \A r \in Run : Settled(request[r], localRows)

-----------------------------------------------------------------------------
LEMMA CatalogIdle ==
  /\ C!Idle.pc = "idle"
  /\ \A top, keys, all, there : RequestFits(C!Idle, top, keys, all, there)
  /\ \A all : Settled(C!Idle, all)
<1>1. C!Idle.pc = "idle" /\ DOMAIN C!Idle = {"pc"}
  BY DEF C!Idle
<1> QED
  BY <1>1 DEF RequestFits, Settled

LEMMA PlusIs ==
  ASSUME NEW f, NEW g
  PROVE  /\ DOMAIN C!Plus(f, g) = DOMAIN f \cup DOMAIN g
         /\ \A i \in DOMAIN g : C!Plus(f, g)[i] = g[i]
         /\ \A i \in DOMAIN f : i \notin DOMAIN g => C!Plus(f, g)[i] = f[i]
  BY DEF C!Plus

LEMMA HereIs == ASSUME NEW i, NEW x PROVE DOMAIN C!Here(i, x) = {i} /\ C!Here(i, x)[i] = x
  BY DEF C!Here

LEMMA OfKindIs ==
  ASSUME NEW f, NEW k
  PROVE  /\ DOMAIN C!OfKind(f, k) = {i \in DOMAIN f : f[i].kind = k}
         /\ \A i \in DOMAIN C!OfKind(f, k) : C!OfKind(f, k)[i] = f[i]
  BY DEF C!OfKind, C!RestrictValues, C!Restrict

LEMMA WithoutIs ==
  ASSUME NEW i
  PROVE  /\ DOMAIN C!Without(i) = DOMAIN apple \ {i}
         /\ \A j \in DOMAIN C!Without(i) : C!Without(i)[j] = apple[j]
  BY DEF C!Without, C!Restrict

LEMMA FreshIs ==
  ASSUME NEW ph
  PROVE  /\ DOMAIN C!Fresh(ph) = {"pc", "todo", "seen", "adds", "names", "drops"}
         /\ C!Fresh(ph).pc = ph /\ C!Fresh(ph).todo = << >> /\ C!Fresh(ph).seen = << >>
         /\ C!Fresh(ph).adds = << >> /\ C!Fresh(ph).names = << >> /\ C!Fresh(ph).drops = {}
         /\ DOMAIN C!Fresh(ph).seen = {} /\ DOMAIN C!Fresh(ph).adds = {}
         /\ DOMAIN C!Fresh(ph).names = {}
  BY DEF C!Fresh

LEMMA CatalogInitially == C!Init => CatalogInv
<1> SUFFICES ASSUME C!Init PROVE CatalogInv
  OBVIOUS
<1>1. IdsOK /\ AppleFits(apple, ids.products) /\ RowsFit(localRows, ids.products, ids.rows)
  BY CatalogSetting DEF C!Init, IdsOK, AppleFits, RowsFit
<1>2. DOMAIN request = Run /\ \A r \in Run : request[r] = C!Idle
  BY DEF C!Init
<1>3. \A r \in Run : Fits(request[r]) /\ Settled(request[r], localRows)
  BY <1>2, CatalogIdle DEF Fits
<1>4. Alone /\ OneRowEach(localRows)
  BY <1>2, CatalogIdle DEF Alone, OneRowEach, C!Init
<1> QED
  BY <1>1, <1>2, <1>3, <1>4 DEF CatalogInv, C!Init

\* What a step may do to the rows and to Apple's products, as another request sees it.
Kept ==
  /\ ids'.products >= ids.products /\ ids'.rows >= ids.rows
  /\ \A row \in localRows' :
       row.key > ids.rows \/ \E old \in localRows : old.key = row.key /\ old.asc = row.asc
  /\ \A i \in DOMAIN apple' :
       i > ids.products \/ (i \in DOMAIN apple /\ apple'[i].kind = apple[i].kind)

FitsNext(c) == RequestFits(c, ids'.products, ids'.rows, localRows', apple')

LEMMA StillFits ==
  ASSUME IdsOK, IdsOK', Kept, NEW c, Fits(c)
  PROVE  FitsNext(c)
<1> DEFINE top == ids.products
           keys == ids.rows
<1>1. top \in Nat /\ keys \in Nat /\ ids'.products \in Nat /\ ids'.rows \in Nat
      /\ ids'.products >= top /\ ids'.rows >= keys
  BY CatalogSetting DEF IdsOK, Kept
<1>2. ListsOK(c, top, apple) => ListsOK(c, ids'.products, apple')
  <2>1. 1..top \subseteq 1..ids'.products
    BY <1>1
  <2>2. \A i \in DOMAIN apple' : i \in 1..top => i \in DOMAIN apple /\ apple'[i].kind = apple[i].kind
    BY <1>1 DEF Kept
  <2> QED
    BY <2>1, <2>2 DEF ListsOK
<1>3. DropsOK(c, top, keys, localRows, apple) =>
        DropsOK(c, ids'.products, ids'.rows, localRows', apple')
  <2> SUFFICES ASSUME DropsOK(c, top, keys, localRows, apple)
               PROVE  DropsOK(c, ids'.products, ids'.rows, localRows', apple')
    OBVIOUS
  <2>1. c.drops \subseteq 0..ids'.rows
    BY <1>1 DEF DropsOK
  <2>2. ASSUME NEW row \in localRows', row.key \in c.drops
        PROVE  \E old \in localRows : old.key = row.key /\ old.asc = row.asc
    BY <1>1, <2>2 DEF DropsOK, Kept
  <2>3. c.pc = "delete" =>
          /\ c.seen[1] \in 1..ids'.products
          /\ \A row \in localRows' : row.key \in c.drops => row.asc = c.seen[1]
    BY <1>1, <2>2 DEF DropsOK
  <2>4. ASSUME c.pc = "commit", NEW row \in localRows', row.key \in c.drops
        PROVE  row.asc \in (1..ids'.products) \ DOMAIN apple'
    <3>1. row.asc \in (1..top) \ DOMAIN apple
      BY <2>2, <2>4 DEF DropsOK
    <3> QED
      BY <1>1, <3>1 DEF Kept
  <2> QED
    BY <2>1, <2>3, <2>4 DEF DropsOK
<1>4. 1..top \subseteq 1..ids'.products
  BY <1>1
<1> QED
  BY <1>2, <1>3, <1>4 DEF Fits, FitsNext, RequestFits

\* A step of a request that is not idle; and one that makes an idle request run.
LEMMA CatalogMoves ==
  ASSUME CatalogInv, NEW r \in Run, request[r].pc # "idle", NEW c, FitsNext(c),
         request' = [request EXCEPT ![r] = c], overlap' = overlap,
         IdsOK', Kept, AppleFits(apple, ids.products)',
         RowsFit(localRows, ids.products, ids.rows)',
         (removed \subseteq 1..ids.products /\ removed \cap DOMAIN apple = {})',
         ~overlap => OneRowEach(localRows') /\ Settled(c, localRows')
  PROVE  CatalogInv'
<1>1. /\ DOMAIN request' = Run /\ request'[r] = c
      /\ \A s \in Run \ {r} : request'[s] = request[s]
  BY DEF CatalogInv
<1>2. ASSUME NEW s \in Run PROVE Fits(request[s])'
  <2>1. FitsNext(request'[s])
    BY <1>1, StillFits DEF CatalogInv
  <2> QED
    BY <2>1 DEF Fits, FitsNext
<1>3. ASSUME ~overlap, NEW s \in Run \ {r}
      PROVE  request[s] = C!Idle
  BY <1>3 DEF CatalogInv, Alone, Fits, RequestFits
<1>4. ASSUME ~overlap
      PROVE  Alone' /\ \A s \in Run : Settled(request'[s], localRows')
  BY <1>1, <1>3, <1>4, CatalogIdle DEF Alone
<1> QED
  BY <1>1, <1>2, <1>4 DEF CatalogInv

LEMMA CatalogStarts ==
  ASSUME CatalogInv, NEW r \in Run, NEW c, C!Start(r, c),
         Fits(c), ~overlap => Settled(c, localRows)
  PROVE  CatalogInv'
<1>1. /\ request[r] = C!Idle /\ request' = [request EXCEPT ![r] = c]
      /\ UNCHANGED <<apple, localRows, ids, removed>>
      /\ overlap' = (overlap \/ \E s \in Run \ {r} : request[s] # C!Idle)
  BY DEF C!Start, C!To, C!appleVars
<1>2. /\ DOMAIN request' = Run /\ request'[r] = c
      /\ \A s \in Run \ {r} : request'[s] = request[s]
  BY <1>1 DEF CatalogInv
<1>3. ASSUME NEW s \in Run PROVE Fits(request[s])'
  <2>1. Fits(request'[s])
    BY <1>2 DEF CatalogInv
  <2> QED
    BY <1>1, <2>1 DEF Fits
<1>4. (IdsOK /\ AppleFits(apple, ids.products) /\ RowsFit(localRows, ids.products, ids.rows))'
  BY <1>1 DEF CatalogInv, IdsOK
<1>5. ASSUME ~overlap'
      PROVE  (Alone /\ OneRowEach(localRows) /\ \A s \in Run : Settled(request[s], localRows))'
  <2>1. ~overlap /\ \A s \in Run \ {r} : request[s] = C!Idle
    BY <1>1, <1>5
  <2> QED
    BY <1>1, <1>2, <2>1, CatalogIdle DEF CatalogInv, Alone
<1> QED
  BY <1>1, <1>2, <1>3, <1>4, <1>5 DEF CatalogInv

\* The rows and the products stay as they are.
LEMMA CatalogTurns ==
  ASSUME CatalogInv, NEW r \in Run, request[r].pc # "idle", NEW c, Fits(c),
         request' = [request EXCEPT ![r] = c],
         UNCHANGED <<overlap, ids, apple, localRows, removed>>,
         ~overlap => Settled(c, localRows)
  PROVE  CatalogInv'
<1>1. Kept /\ IdsOK'
  BY CatalogSetting DEF CatalogInv, Kept, IdsOK
<1>2. FitsNext(c)
  BY DEF Fits, FitsNext
<1> QED
  BY <1>1, <1>2, CatalogMoves DEF CatalogInv

LEMMA CatalogEnds ==
  ASSUME CatalogInv, NEW r \in Run, request[r].pc # "idle",
         request' = [request EXCEPT ![r] = C!Idle],
         UNCHANGED <<overlap, ids, apple, localRows, removed>>
  PROVE  CatalogInv'
  BY CatalogTurns, CatalogIdle DEF Fits

-----------------------------------------------------------------------------
(* Starts *)

LEMMA ListStarts ==
  ASSUME CatalogInv, NEW r \in Run, NEW kinds \in {<<"group", "sub">>, <<"iap">>},
         C!Lists(r, kinds)
  PROVE  CatalogInv'
<1> DEFINE c == [C!Fresh("fetch") EXCEPT !.todo = kinds]
<1>1. /\ DOMAIN c = {"pc", "todo", "seen", "adds", "names", "drops"}
      /\ c.pc = "fetch" /\ c.todo = kinds /\ DOMAIN c.seen = {} /\ DOMAIN c.adds = {}
      /\ DOMAIN c.names = {} /\ c.drops = {}
  BY FreshIs
<1>2. C!Start(r, c)
  BY DEF C!Lists
<1> HIDE DEF c
<1>3. Fits(c) /\ Settled(c, localRows)
  BY <1>1 DEF Fits, RequestFits, ListsOK, Settled, Done, Pages
<1> QED
  BY <1>2, <1>3, CatalogStarts

LEMMA CreateStarts ==
  ASSUME CatalogInv, NEW r \in Run, NEW k, NEW name, C!Creates(r, k, name)
  PROVE  CatalogInv'
<1> DEFINE c == [C!Fresh("post") EXCEPT !.todo = <<k>>, !.names = <<name>>]
<1>1. /\ DOMAIN c = {"pc", "todo", "seen", "adds", "names", "drops"} /\ c.pc = "post"
  BY FreshIs
<1>2. C!Start(r, c)
  BY DEF C!Creates
<1> HIDE DEF c
<1>3. Fits(c) /\ Settled(c, localRows)
  BY <1>1 DEF Fits, RequestFits, Settled
<1> QED
  BY <1>2, <1>3, CatalogStarts

LEMMA RenameStarts ==
  ASSUME CatalogInv, NEW r \in Run, NEW k, C!Renames(r, k)
  PROVE  CatalogInv'
<1>1. PICK row \in localRows, n \in ProductNames :
        C!Start(r, [C!Fresh("patch") EXCEPT !.names = C!Here(row.key, n),
                                            !.seen = <<row.asc>>, !.todo = <<k>>])
  BY DEF C!Renames
<1> DEFINE c == [C!Fresh("patch") EXCEPT !.names = C!Here(row.key, n),
                                         !.seen = <<row.asc>>, !.todo = <<k>>]
<1>2. /\ DOMAIN c = {"pc", "todo", "seen", "adds", "names", "drops"} /\ c.pc = "patch"
      /\ c.adds = << >> /\ c.drops = {}
  BY FreshIs
<1> HIDE DEF c
<1>3. Fits(c) /\ Settled(c, localRows)
  BY <1>2 DEF Fits, RequestFits, Settled
<1> QED
  BY <1>1, <1>3, CatalogStarts DEF c

LEMMA DeleteStarts ==
  ASSUME CatalogInv, NEW r \in Run, NEW k, C!Deletes(r, k)
  PROVE  CatalogInv'
<1>1. PICK row \in localRows :
        C!Start(r, [C!Fresh("delete") EXCEPT !.drops = {row.key}, !.seen = <<row.asc>>,
                                             !.todo = <<k>>])
  BY DEF C!Deletes
<1> DEFINE c == [C!Fresh("delete") EXCEPT !.drops = {row.key}, !.seen = <<row.asc>>,
                                          !.todo = <<k>>]
<1>2. /\ DOMAIN c = {"pc", "todo", "seen", "adds", "names", "drops"} /\ c.pc = "delete"
      /\ c.adds = << >> /\ c.drops = {row.key} /\ c.seen[1] = row.asc
  BY FreshIs
<1> HIDE DEF c
<1>3. DropsOK(c, ids.products, ids.rows, localRows, apple)
  BY <1>2 DEF CatalogInv, RowsFit, IdsOK, DropsOK
<1>4. Fits(c) /\ Settled(c, localRows)
  BY <1>2, <1>3 DEF Fits, RequestFits, Settled
<1> QED
  BY <1>1, <1>4, CatalogStarts DEF c

-----------------------------------------------------------------------------
(* A listing *)

\* What is read is of the kind that the page is of, what was read before of another.
LEMMA FetchKeeps == ASSUME CatalogInv, NEW r \in Run, C!Fetch(r) PROVE CatalogInv'
<1> DEFINE old == request[r]
           page == C!OfKind(apple, Head(old.todo))
           now == C!Plus(old.seen, page)
           c == [[old EXCEPT !.pc = "lookup"] EXCEPT !.seen = now]
<1>1. /\ old.pc = "fetch" /\ Fits(old)
      /\ request' = [request EXCEPT ![r] = c] \/ request' = [request EXCEPT ![r] = C!Idle]
      /\ UNCHANGED <<overlap, ids, apple, localRows, removed>>
  <2>1. request' = [request EXCEPT ![r] = c] \/ request' = [request EXCEPT ![r] = C!Idle]
    BY DEF C!Fetch, C!To, C!Step
  <2> QED
    BY <2>1 DEF C!Fetch, C!Calling, C!appleVars, CatalogInv
<1>2. /\ {"pc", "todo", "seen", "adds", "names", "drops"} \subseteq DOMAIN old
      /\ ListsOK(old, ids.products, apple) /\ DOMAIN old.adds \subseteq 1..ids.products
  BY <1>1 DEF Fits, RequestFits
<1>3. /\ DOMAIN page = {i \in DOMAIN apple : apple[i].kind = Head(old.todo)}
      /\ \A i \in DOMAIN page : page[i] = apple[i]
  BY OfKindIs
<1>4. /\ DOMAIN now = DOMAIN old.seen \cup DOMAIN page
      /\ \A i \in DOMAIN page : now[i] = page[i]
      /\ \A i \in DOMAIN old.seen : i \notin DOMAIN page => now[i] = old.seen[i]
  BY PlusIs
<1> HIDE DEF page, now
<1>5. /\ DOMAIN c = DOMAIN old /\ c.pc = "lookup" /\ c.todo = old.todo /\ c.seen = now
      /\ c.adds = old.adds /\ c.names = old.names /\ c.drops = old.drops
  BY <1>2
<1> HIDE DEF c
<1>6. /\ \A i \in DOMAIN old.seen : old.seen[i].kind # Head(old.todo)
      /\ DOMAIN old.seen \cap DOMAIN page = {}
  BY <1>1, <1>2, <1>3 DEF ListsOK, KindsAt, Earlier, Pages
<1>7. ListsOK(c, ids.products, apple)
  BY <1>1, <1>2, <1>3, <1>4, <1>5, <1>6 DEF ListsOK, KindsAt, CatalogInv, AppleFits
<1>8. Fits(c)
  BY <1>2, <1>5, <1>7 DEF Fits, RequestFits
<1>9. ASSUME ~overlap PROVE Settled(c, localRows)
  <2>1. Settled(old, localRows)
    BY <1>9 DEF CatalogInv
  <2>2. Done(c) = DOMAIN old.seen /\ Done(old) = DOMAIN old.seen
    BY <1>1, <1>3, <1>4, <1>5, <1>6 DEF Done
  <2>3. \A i \in Done(c) : Named(old, i, localRows) => Named(c, i, localRows)
    BY <1>4, <1>5, <1>6, <2>2 DEF Named
  <2> QED
    BY <1>1, <1>5, <2>1, <2>2, <2>3 DEF Settled
<1> QED
  BY <1>1, <1>8, <1>9, CatalogTurns, CatalogEnds

LEMMA PageTails ==
  \A pages \in Pages :
    /\ Head(pages) \notin Earlier(pages)
    /\ Tail(pages) # << >> =>
         Tail(pages) \in Pages /\ Earlier(Tail(pages)) = Earlier(pages) \cup {Head(pages)}
<1>1. Tail(<<"group", "sub">>) = <<"sub">> /\ Tail(<<"sub">>) = << >> /\ Tail(<<"iap">>) = << >>
  OBVIOUS
<1>2. /\ <<"group", "sub">> # <<"sub">> /\ <<"iap">> # <<"sub">>
      /\ Head(<<"group", "sub">>) = "group" /\ Head(<<"sub">>) = "sub" /\ Head(<<"iap">>) = "iap"
  OBVIOUS
<1> QED
  BY <1>1, <1>2 DEF Pages, Earlier

\* Each product of the page gets its row, is among those to insert, or is renamed.
LEMMA LookUpKeeps == ASSUME CatalogInv, NEW r \in Run, C!LookUp(r) PROVE CatalogInv'
<1> DEFINE old == request[r]
           page == C!OfKind(old.seen, Head(old.todo))
           rest == Tail(old.todo)
           stale == {row \in localRows : row.asc \in DOMAIN page /\ row.name # page[row.asc].name}
           new == [k \in {row.key : row \in stale} |->
                     page[(CHOOSE row \in stale : row.key = k).asc].name]
           more == C!Restrict(page, C!Missing(page))
           ph == IF rest = << >> THEN "commit" ELSE "fetch"
           step == [old EXCEPT !.pc = ph]
           names == C!Plus(step.names, new)
           adds == C!Plus(step.adds, more)
           c == [step EXCEPT !.todo = rest, !.names = names, !.adds = adds]
<1>1. /\ old.pc = "lookup" /\ Fits(old)
      /\ request' = [request EXCEPT ![r] = c] \/ request' = [request EXCEPT ![r] = C!Idle]
      /\ UNCHANGED <<overlap, ids, apple, localRows, removed>>
  <2>1. request' = [request EXCEPT ![r] = c] \/ request' = [request EXCEPT ![r] = C!Idle]
    BY ZenonT(120) DEF C!LookUp, C!To, C!Step
  <2> QED
    BY <2>1 DEF C!LookUp, C!Calling, C!appleVars, CatalogInv
<1>2. /\ {"pc", "todo", "seen", "adds", "names", "drops"} \subseteq DOMAIN old
      /\ ListsOK(old, ids.products, apple) /\ DOMAIN old.adds \subseteq 1..ids.products
  BY <1>1 DEF Fits, RequestFits
<1>3. /\ DOMAIN page = {i \in DOMAIN old.seen : old.seen[i].kind = Head(old.todo)}
      /\ \A i \in DOMAIN page : page[i] = old.seen[i]
  BY OfKindIs
<1> HIDE DEF page
<1>4. /\ DOMAIN more = {i \in DOMAIN page : C!RowsOf(i) = {}}
      /\ \A i \in DOMAIN more : more[i] = old.seen[i]
  BY <1>3 DEF C!Restrict, C!Missing
<1>5. /\ DOMAIN names = DOMAIN old.names \cup DOMAIN new
      /\ \A k \in DOMAIN new : names[k] = new[k]
      /\ \A k \in DOMAIN old.names : k \notin DOMAIN new => names[k] = old.names[k]
  <2>1. step.names = old.names
    BY <1>2
  <2>2. /\ DOMAIN names = DOMAIN step.names \cup DOMAIN new
        /\ \A k \in DOMAIN new : names[k] = new[k]
        /\ \A k \in DOMAIN step.names : k \notin DOMAIN new => names[k] = step.names[k]
    <3> HIDE DEF new, more, step
    <3> QED
      BY PlusIs
  <2> QED
    BY <2>1, <2>2
<1>6. /\ DOMAIN adds = DOMAIN old.adds \cup DOMAIN more
      /\ \A i \in DOMAIN more : adds[i] = more[i]
      /\ \A i \in DOMAIN old.adds : i \notin DOMAIN more => adds[i] = old.adds[i]
  <2>1. step.adds = old.adds
    BY <1>2
  <2>2. /\ DOMAIN adds = DOMAIN step.adds \cup DOMAIN more
        /\ \A i \in DOMAIN more : adds[i] = more[i]
        /\ \A i \in DOMAIN step.adds : i \notin DOMAIN more => adds[i] = step.adds[i]
    <3> HIDE DEF new, more, step
    <3> QED
      BY PlusIs
  <2> QED
    BY <2>1, <2>2
<1>7. \A row \in localRows : row.key \in DOMAIN new <=> row \in stale
  BY DEF CatalogInv, RowsFit
<1>8. ASSUME NEW row \in stale PROVE new[row.key] = page[row.asc].name
  <2> DEFINE chosen == CHOOSE row2 \in stale : row2.key = row.key
  <2>1. chosen \in stale /\ chosen.key = row.key
    BY SMTT(60)
  <2>2. chosen = row
    BY SMTT(60), <2>1 DEF CatalogInv, RowsFit
  <2>3. new[row.key] = page[chosen.asc].name
    BY <1>7
  <2> QED
    BY <2>2, <2>3
<1> HIDE DEF new, more, names, adds, rest
<1>9. /\ DOMAIN c = DOMAIN old /\ c.pc = ph /\ c.todo = rest /\ c.seen = old.seen
      /\ c.adds = adds /\ c.names = names /\ c.drops = old.drops
  BY <1>2
<1> HIDE DEF c
<1>10. old.drops = {} /\ old.todo \in Pages /\ DOMAIN adds \subseteq 1..ids.products
  BY <1>2, <1>3, <1>4, <1>6 DEF ListsOK
<1>11. c.pc = "fetch" => ListsOK(c, ids.products, apple)
  BY <1>1, <1>2, <1>9, <1>10, PageTails DEF ListsOK, KindsAt, rest
<1>12. c.pc = "commit" => DropsOK(c, ids.products, ids.rows, localRows, apple)
  BY <1>9, <1>10 DEF DropsOK
<1>13. Fits(c)
  BY <1>2, <1>9, <1>10, <1>11, <1>12 DEF Fits, RequestFits
<1>14. ASSUME ~overlap PROVE Settled(c, localRows)
  <2>1. Settled(old, localRows)
    BY <1>14 DEF CatalogInv
  <2>2. /\ Done(c) = DOMAIN old.seen /\ Done(old) = DOMAIN old.seen \ DOMAIN page
    BY <1>1, <1>3, <1>9 DEF Done
  <2>3. \A i \in DOMAIN c.adds : \A row \in localRows : row.asc # i
    BY SMTT(60), <1>1, <1>4, <1>6, <1>9, <2>1 DEF Settled, C!RowsOf
  <2>4. \A row \in localRows : row.key \in DOMAIN c.names => row.asc \in DOMAIN old.seen
    BY <1>1, <1>3, <1>5, <1>7, <1>9, <2>1, <2>2 DEF Settled
  <2>5. ASSUME NEW i \in Done(old) PROVE Named(c, i, localRows)
    <3>1. Named(old, i, localRows) /\ i \notin DOMAIN page
      BY <1>1, <2>1, <2>2 DEF Settled
    <3>2. \A row \in localRows : row.asc = i =>
            (row.key \in DOMAIN names <=> row.key \in DOMAIN old.names)
            /\ (row.key \in DOMAIN names => names[row.key] = old.names[row.key])
      BY <1>5, <1>7, <3>1
    <3> QED
      BY <1>4, <1>6, <1>9, <3>1, <3>2 DEF Named
  <2>6. ASSUME NEW i \in DOMAIN page PROVE Named(c, i, localRows)
    <3>1. CASE C!RowsOf(i) = {}
      BY <1>4, <1>6, <1>9, <3>1 DEF Named
    <3>2. CASE C!RowsOf(i) # {}
      <4>1. PICK row \in localRows : row.asc = i
        BY SMTT(60), <3>2 DEF C!RowsOf
      <4>2. CASE row \in stale
        BY <1>3, <1>5, <1>7, <1>8, <1>9, <4>1, <4>2 DEF Named
      <4>3. CASE row \notin stale
        <5>1. row.key \notin DOMAIN names
          BY <1>1, <1>5, <1>7, <2>1, <2>2, <4>1, <4>3 DEF Settled
        <5> QED
          BY <1>3, <1>9, <4>1, <4>3, <5>1 DEF Named
      <4> QED
        BY <4>2, <4>3
    <3> QED
      BY <3>1, <3>2
  <2> QED
    BY <1>9, <2>2, <2>3, <2>4, <2>5, <2>6 DEF Settled
<1> QED
  BY <1>1, <1>13, <1>14, CatalogTurns, CatalogEnds

-----------------------------------------------------------------------------
(* Apple's products change *)

\* Apple's next id is new; a product that goes leaves the others as they are.
LEMMA MakeIs ==
  ASSUME CatalogInv, NEW k, NEW name, C!Make(k, name)
  PROVE  /\ ids'.products = ids.products + 1 /\ ids'.rows = ids.rows
         /\ IdsOK' /\ AppleFits(apple', ids'.products)
         /\ DOMAIN apple' = DOMAIN apple \cup {ids.products + 1}
         /\ apple'[ids.products + 1].kind = k
         /\ \A i \in DOMAIN apple : apple'[i] = apple[i]
         /\ ids.products \in Nat /\ ids.products + 1 \in 1..ids'.products
         /\ 1..ids.products \subseteq 1..ids'.products
<1> DEFINE next == ids.products + 1
           made == C!Here(next, [kind |-> k, name |-> name])
<1>1. /\ ids' = [ids EXCEPT !.products = next] /\ ids.products < MaxProducts
      /\ apple' = C!Plus(apple, made)
  BY DEF C!Make
<1>2. ids'.products = next /\ ids'.rows = ids.rows /\ IdsOK'
  BY <1>1, CatalogSetting DEF CatalogInv, IdsOK
<1>3. /\ DOMAIN made = {next} /\ made[next] = [kind |-> k, name |-> name]
      /\ next \notin DOMAIN apple /\ ids.products \in Nat
  <2>1. DOMAIN made = {next} /\ made[next] = [kind |-> k, name |-> name]
    BY HereIs
  <2>2. ids.products \in Nat /\ DOMAIN apple \subseteq 1..ids.products
    BY CatalogSetting DEF CatalogInv, IdsOK, AppleFits
  <2> QED
    BY <2>1, <2>2
<1> HIDE DEF made
<1>4. /\ DOMAIN apple' = DOMAIN apple \cup {next} /\ apple'[next] = [kind |-> k, name |-> name]
      /\ \A i \in DOMAIN apple : apple'[i] = apple[i]
  <2>1. apple' = C!Plus(apple, made)
    BY <1>1
  <2>2. /\ DOMAIN C!Plus(apple, made) = DOMAIN apple \cup DOMAIN made
        /\ \A i \in DOMAIN made : C!Plus(apple, made)[i] = made[i]
        /\ \A i \in DOMAIN apple : i \notin DOMAIN made => C!Plus(apple, made)[i] = apple[i]
    BY PlusIs
  <2> QED
    BY <1>3, <2>1, <2>2
<1>5. AppleFits(apple', ids'.products)
  BY <1>2, <1>3, <1>4 DEF CatalogInv, AppleFits
<1> QED
  BY <1>2, <1>3, <1>4, <1>5

LEMMA MakeKept ==
  ASSUME CatalogInv, NEW k, NEW name, C!Make(k, name), UNCHANGED <<localRows, removed>>
  PROVE  /\ Kept /\ RowsFit(localRows', ids'.products, ids'.rows)
         /\ removed' \subseteq 1..ids'.products /\ removed' \cap DOMAIN apple' = {}
<1>1. Kept
  BY MakeIs DEF Kept, CatalogInv, IdsOK, AppleFits
<1>2. RowsFit(localRows', ids'.products, ids'.rows)
  BY MakeIs DEF CatalogInv, RowsFit
<1> QED
  BY <1>1, <1>2, MakeIs DEF CatalogInv

\* The products change, no id is given and no row is touched.
LEMMA EditKept ==
  ASSUME CatalogInv, UNCHANGED <<ids, localRows, removed>>,
         \/ \E i \in DOMAIN apple : \E n : apple' = [apple EXCEPT ![i].name = n]
         \/ \E i \in DOMAIN apple : apple' = C!Without(i)
  PROVE  /\ IdsOK' /\ Kept /\ AppleFits(apple', ids'.products)
         /\ RowsFit(localRows', ids'.products, ids'.rows)
         /\ removed' \subseteq 1..ids'.products /\ removed' \cap DOMAIN apple' = {}
         /\ DOMAIN apple' \subseteq DOMAIN apple
<1>1. /\ DOMAIN apple' \subseteq DOMAIN apple
      /\ \A i \in DOMAIN apple' :
           apple'[i].kind = apple[i].kind /\ {"kind", "name"} \subseteq DOMAIN apple'[i]
  <2>1. ASSUME NEW i \in DOMAIN apple, NEW n, apple' = [apple EXCEPT ![i].name = n]
        PROVE  /\ DOMAIN apple' \subseteq DOMAIN apple
               /\ \A j \in DOMAIN apple' :
                    apple'[j].kind = apple[j].kind /\ {"kind", "name"} \subseteq DOMAIN apple'[j]
    BY <2>1 DEF CatalogInv, AppleFits
  <2>2. ASSUME NEW i \in DOMAIN apple, apple' = C!Without(i)
        PROVE  /\ DOMAIN apple' \subseteq DOMAIN apple
               /\ \A j \in DOMAIN apple' :
                    apple'[j].kind = apple[j].kind /\ {"kind", "name"} \subseteq DOMAIN apple'[j]
    <3>1. /\ DOMAIN apple' = DOMAIN apple \ {i}
          /\ \A j \in DOMAIN apple' : apple'[j] = apple[j]
      BY <2>2, WithoutIs
    <3> QED
      BY <3>1 DEF CatalogInv, AppleFits
  <2> QED
    BY <2>1, <2>2
<1>2. IdsOK' /\ Kept
  BY <1>1, CatalogSetting DEF CatalogInv, IdsOK, Kept
<1> QED
  BY <1>1, <1>2 DEF CatalogInv, AppleFits

LEMMA PostKeeps ==
  ASSUME CatalogInv, NEW r \in Run,
         C!PostGroup(r) \/ C!PostSub(r) \/ C!PostIap(r)
  PROVE  CatalogInv'
<1> DEFINE old == request[r]
           next == ids.products + 1
           made == C!Made(r)
           added(ph) == [C!Fresh(ph) EXCEPT !.adds = made]
           found == [C!Fresh("lookup") EXCEPT !.todo = <<"iap">>, !.seen = made]
<1>1. PICK k : C!Post(r, k)
        /\ \/ \E ph \in {"availability", "commit"} : request' = [request EXCEPT ![r] = added(ph)]
           \/ request' = [request EXCEPT ![r] = found] /\ k = "iap"
           \/ request' = [request EXCEPT ![r] = C!Idle]
  BY DEF C!PostGroup, C!PostSub, C!PostIap, C!AddsRow, C!NoAnswer, C!To
<1>2. /\ old.pc = "post" /\ Head(old.todo) = k /\ C!Make(k, old.names[1])
      /\ UNCHANGED <<overlap, localRows, removed>>
  BY <1>1 DEF C!Post, C!Calling
<1>3. /\ DOMAIN made = {next} /\ made[next] = [kind |-> k, name |-> old.names[1]]
  <2>1. made = C!Here(next, [kind |-> k, name |-> old.names[1]])
    BY <1>2 DEF C!Made
  <2>2. /\ DOMAIN C!Here(next, [kind |-> k, name |-> old.names[1]]) = {next}
        /\ C!Here(next, [kind |-> k, name |-> old.names[1]])[next]
             = [kind |-> k, name |-> old.names[1]]
    BY DEF C!Here
  <2> HIDE DEF made, next
  <2> QED
    BY <2>1, <2>2
<1>4. \A row \in localRows' : row.asc # next
  BY <1>2, MakeIs DEF CatalogInv, RowsFit
<1> HIDE DEF made
<1>5. ASSUME NEW ph \in {"availability", "commit"}
      PROVE  FitsNext(added(ph)) /\ Settled(added(ph), localRows')
  <2> DEFINE c == added(ph)
  <2>1. /\ DOMAIN c = {"pc", "todo", "seen", "adds", "names", "drops"} /\ c.pc = ph
        /\ c.seen = << >> /\ DOMAIN c.seen = {} /\ c.adds = made /\ c.drops = {}
    BY FreshIs
  <2> HIDE DEF c
  <2>2. DropsOK(c, ids'.products, ids'.rows, localRows', apple')
    BY <2>1 DEF DropsOK
  <2>3. DOMAIN c.adds \subseteq 1..ids'.products
    BY <1>2, <1>3, <2>1, MakeIs
  <2>4. FitsNext(c)
    BY <2>1, <2>2, <2>3 DEF FitsNext, RequestFits
  <2>5. Settled(c, localRows')
    BY <1>3, <1>4, <2>1 DEF Settled, Done
  <2> QED
    BY <2>4, <2>5 DEF c
<1>6. ASSUME k = "iap" PROVE FitsNext(found) /\ Settled(found, localRows')
  <2>1. /\ DOMAIN found = {"pc", "todo", "seen", "adds", "names", "drops"} /\ found.pc = "lookup"
        /\ found.seen = made /\ found.todo = <<"iap">> /\ DOMAIN found.adds = {}
        /\ DOMAIN found.names = {} /\ found.drops = {}
    BY FreshIs
  <2> HIDE DEF found
  <2>2. Head(found.todo) = "iap"
    BY <2>1
  <2>3. ListsOK(found, ids'.products, apple')
    BY <1>2, <1>3, <1>6, <2>1, <2>2, MakeIs DEF ListsOK, Pages, KindsAt
  <2>4. FitsNext(found)
    BY <2>1, <2>3 DEF FitsNext, RequestFits
  <2>5. Settled(found, localRows')
    BY <1>3, <1>6, <2>1, <2>2 DEF Settled, Done
  <2> QED
    BY <2>4, <2>5
<1>7. FitsNext(C!Idle) /\ Settled(C!Idle, localRows')
  BY CatalogIdle DEF FitsNext
<1>8. OneRowEach(localRows) => OneRowEach(localRows')
  BY <1>2
<1>9. /\ IdsOK' /\ Kept /\ AppleFits(apple, ids.products)'
      /\ RowsFit(localRows, ids.products, ids.rows)'
      /\ (removed \subseteq 1..ids.products /\ removed \cap DOMAIN apple = {})'
  BY <1>2, MakeIs, MakeKept
<1> HIDE DEF added, found
<1>10. PICK c : request' = [request EXCEPT ![r] = c] /\ FitsNext(c) /\ Settled(c, localRows')
  BY <1>1, <1>5, <1>6, <1>7
<1> QED
  BY <1>2, <1>8, <1>9, <1>10, CatalogMoves DEF CatalogInv

LEMMA AvailabilityKeeps == ASSUME CatalogInv, NEW r \in Run, C!Availability(r) PROVE CatalogInv'
<1> DEFINE old == request[r]
           c == [old EXCEPT !.pc = "commit"]
<1>1. /\ old.pc = "availability" /\ request' = [request EXCEPT ![r] = c] /\ Fits(old)
      /\ UNCHANGED <<overlap, ids, apple, localRows, removed>>
  BY DEF C!Availability, C!To, C!Step, C!Calling, CatalogInv
<1>2. /\ {"pc", "todo", "seen", "adds", "names", "drops"} \subseteq DOMAIN old
      /\ DOMAIN old.adds \subseteq 1..ids.products /\ old.seen = << >> /\ old.drops = {}
  BY <1>1 DEF Fits, RequestFits
<1>3. /\ DOMAIN c = DOMAIN old /\ c.pc = "commit" /\ c.seen = << >> /\ DOMAIN c.seen = {}
      /\ c.adds = old.adds /\ c.drops = {}
  BY <1>2
<1> HIDE DEF c
<1>4. Fits(c)
  BY <1>2, <1>3 DEF Fits, RequestFits, DropsOK
<1>5. ~overlap => Settled(c, localRows)
  BY <1>1, <1>3 DEF CatalogInv, Settled, Done
<1> QED
  BY <1>1, <1>4, <1>5, CatalogTurns

\* A change of one product that Apple took, with or without an answer.
LEMMA EditMoves ==
  ASSUME CatalogInv, NEW r \in Run, request[r].pc \in {"patch", "delete"},
         \/ request' = [request EXCEPT ![r] = C!Idle]
         \/ request' = [request EXCEPT ![r] = [[@ EXCEPT !.pc = "commit"] EXCEPT !.seen = << >>]],
         UNCHANGED <<overlap, ids, localRows, removed>>,
         \/ /\ request[r].pc = "patch"
            /\ \E i \in DOMAIN apple : \E n : apple' = [apple EXCEPT ![i].name = n]
         \/ /\ request[r].pc = "delete" /\ request[r].seen[1] \in DOMAIN apple
            /\ apple' = C!Without(request[r].seen[1])
  PROVE  CatalogInv'
<1> DEFINE old == request[r]
           c == [[old EXCEPT !.pc = "commit"] EXCEPT !.seen = << >>]
<1>1. /\ {"pc", "todo", "seen", "adds", "names", "drops"} \subseteq DOMAIN old
      /\ old.adds = << >> /\ DOMAIN old.adds = {}
      /\ old.pc = "patch" => old.drops = {}
      /\ old.pc = "delete" => DropsOK(old, ids.products, ids.rows, localRows, apple)
  BY DEF CatalogInv, Fits, RequestFits
<1>2. /\ DOMAIN c = DOMAIN old /\ c.pc = "commit" /\ c.seen = << >> /\ DOMAIN c.seen = {}
      /\ c.adds = old.adds /\ c.drops = old.drops
  BY <1>1
<1>3. request' = [request EXCEPT ![r] = C!Idle] \/ request' = [request EXCEPT ![r] = c]
  BY DEF CatalogInv
<1> HIDE DEF c
<1>4. old.pc = "delete" =>
        /\ DOMAIN apple' = DOMAIN apple \ {old.seen[1]}
        /\ \A row \in localRows : row.key \in old.drops => row.asc = old.seen[1]
  BY <1>1, WithoutIs DEF DropsOK
<1>5. DropsOK(c, ids'.products, ids'.rows, localRows', apple')
  BY <1>1, <1>2, <1>4 DEF DropsOK
<1>6. FitsNext(c) /\ Settled(c, localRows')
  BY <1>1, <1>2, <1>5 DEF FitsNext, RequestFits, Settled, Done
<1>7. FitsNext(C!Idle) /\ Settled(C!Idle, localRows')
  BY CatalogIdle DEF FitsNext
<1>8. /\ IdsOK' /\ Kept /\ AppleFits(apple, ids.products)'
      /\ RowsFit(localRows, ids.products, ids.rows)'
      /\ (removed \subseteq 1..ids.products /\ removed \cap DOMAIN apple = {})'
  BY SMTT(60), EditKept
<1>9. PICK d : request' = [request EXCEPT ![r] = d] /\ FitsNext(d) /\ Settled(d, localRows')
  BY <1>3, <1>6, <1>7
<1> QED
  BY <1>8, <1>9, CatalogMoves DEF CatalogInv

LEMMA PatchKeeps == ASSUME CatalogInv, NEW r \in Run, NEW k, C!Patch(r, k) PROVE CatalogInv'
<1>1. /\ request[r].pc = "patch" /\ UNCHANGED <<overlap, ids, localRows, removed>>
      /\ \/ /\ \E i \in DOMAIN apple : \E n : apple' = [apple EXCEPT ![i].name = n]
            /\ \/ request' = [request EXCEPT ![r] = [C!Step(r, "commit") EXCEPT !.seen = << >>]]
               \/ request' = [request EXCEPT ![r] = C!Idle]
         \/ UNCHANGED apple /\ request' = [request EXCEPT ![r] = C!Idle]
  BY DEF C!Patch, C!To, C!Calling
<1>2. [request EXCEPT ![r] = [C!Step(r, "commit") EXCEPT !.seen = << >>]]
        = [request EXCEPT ![r] = [[@ EXCEPT !.pc = "commit"] EXCEPT !.seen = << >>]]
  BY DEF C!Step
<1> QED
  BY <1>1, <1>2, EditMoves, CatalogEnds

LEMMA DeleteKeeps == ASSUME CatalogInv, NEW r \in Run, NEW k, C!Delete(r, k) PROVE CatalogInv'
<1>1. /\ request[r].pc = "delete" /\ UNCHANGED <<overlap, ids, localRows, removed>>
      /\ \/ /\ request[r].seen[1] \in DOMAIN apple /\ apple' = C!Without(request[r].seen[1])
            /\ \/ request' = [request EXCEPT ![r] = [C!Step(r, "commit") EXCEPT !.seen = << >>]]
               \/ request' = [request EXCEPT ![r] = C!Idle]
         \/ UNCHANGED apple /\ request' = [request EXCEPT ![r] = C!Idle]
  BY DEF C!Delete, C!To, C!Calling, C!appleVars, C!AfterRefusedDelete
<1>2. [request EXCEPT ![r] = [C!Step(r, "commit") EXCEPT !.seen = << >>]]
        = [request EXCEPT ![r] = [[@ EXCEPT !.pc = "commit"] EXCEPT !.seen = << >>]]
  BY DEF C!Step
<1> QED
  BY <1>1, <1>2, EditMoves, CatalogEnds

-----------------------------------------------------------------------------
(* The commit *)

LEMMA RowsCommitKeeps == ASSUME CatalogInv, NEW r \in Run, C!Commit(r) PROVE CatalogInv'
<1> DEFINE old == request[r]
           adds == old.adds
           names == old.names
           new == {[key |-> ids.rows + i, asc |-> i, kind |-> adds[i].kind, name |-> adds[i].name]
                     : i \in DOMAIN adds}
           gone == {row \in localRows : row.key \in old.drops}
           named(row) == IF row.key \in DOMAIN names THEN [row EXCEPT !.name = names[row.key]] ELSE row
           kept == {named(row) : row \in localRows \ gone}
           c == [C!Fresh("answer") EXCEPT !.seen = old.seen]
<1>1. /\ old.pc = "commit" /\ UNCHANGED <<overlap, apple>>
      /\ \/ UNCHANGED <<ids, localRows, removed>> /\ request' = [request EXCEPT ![r] = C!Idle]
         \/ /\ localRows' = kept \cup new
            /\ removed' = removed \cup {row.asc : row \in gone}
            /\ ids' = [ids EXCEPT !.rows = @ + MaxProducts]
            /\ request' = [request EXCEPT ![r] = c]
  BY DEF C!Commit, C!To, C!appleVars
<1>2. CASE UNCHANGED <<ids, localRows, removed>> /\ request' = [request EXCEPT ![r] = C!Idle]
  BY <1>1, <1>2, CatalogEnds
<1>3. CASE /\ localRows' = kept \cup new
           /\ removed' = removed \cup {row.asc : row \in gone}
           /\ ids' = [ids EXCEPT !.rows = @ + MaxProducts]
           /\ request' = [request EXCEPT ![r] = c]
  <2>1. /\ {"pc", "todo", "seen", "adds", "names", "drops"} \subseteq DOMAIN old
        /\ DOMAIN adds \subseteq 1..ids.products
        /\ DropsOK(old, ids.products, ids.rows, localRows, apple)
    BY <1>1 DEF CatalogInv, Fits, RequestFits
  <2>2. /\ DOMAIN c = {"pc", "todo", "seen", "adds", "names", "drops"} /\ c.pc = "answer"
        /\ c.seen = old.seen
    BY FreshIs
  <2>3. /\ ids'.products = ids.products /\ ids'.rows = ids.rows + MaxProducts /\ IdsOK'
        /\ ids.products \in 0..MaxProducts /\ ids.rows \in Nat
    BY <1>3, CatalogSetting DEF CatalogInv, IdsOK
  <2> HIDE DEF c
  <2>4. \A row \in localRows : /\ named(row).key = row.key /\ named(row).asc = row.asc
                                /\ DOMAIN named(row) = DOMAIN row
    BY DEF CatalogInv, RowsFit
  <2>5. \A row \in localRows :
          named(row).name = IF row.key \in DOMAIN names THEN names[row.key] ELSE row.name
    BY DEF CatalogInv, RowsFit
  <2> HIDE DEF named
  <2>6. ASSUME NEW row \in localRows'
        PROVE  \/ \E was \in localRows \ gone : row = named(was)
               \/ /\ row.asc \in DOMAIN adds /\ row.key = ids.rows + row.asc
                  /\ DOMAIN row = {"key", "asc", "kind", "name"}
                  /\ row = [key |-> ids.rows + row.asc, asc |-> row.asc,
                            kind |-> adds[row.asc].kind, name |-> adds[row.asc].name]
    BY <1>3, <2>6
  <2>7. \A i \in DOMAIN adds : i \in Nat /\ i <= MaxProducts /\ i >= 1 /\ ids.rows + i > ids.rows
    BY <2>1, <2>3, CatalogSetting
  <2>8. RowsFit(localRows', ids'.products, ids'.rows)
    <3>1. ASSUME NEW row \in localRows'
          PROVE  /\ DOMAIN row = {"key", "asc", "kind", "name"}
                 /\ row.key \in 1..ids'.rows /\ row.asc \in 1..ids'.products
      <4>1. CASE \E was \in localRows \ gone : row = named(was)
        BY <2>3, <2>4, <4>1, CatalogSetting DEF CatalogInv, RowsFit
      <4>2. CASE /\ row.asc \in DOMAIN adds /\ row.key = ids.rows + row.asc
                 /\ DOMAIN row = {"key", "asc", "kind", "name"}
        BY <2>1, <2>3, <2>7, <4>2, CatalogSetting
      <4> QED
        BY <2>6, <4>1, <4>2
    <3>2. ASSUME NEW row1 \in localRows', NEW row2 \in localRows', row1.key = row2.key
          PROVE  row1 = row2
      <4>1. \A was \in localRows : named(was).key \in 1..ids.rows
        BY <2>4 DEF CatalogInv, RowsFit
      <4>2. CASE row1.key \in 1..ids.rows
        <5>1. PICK was1 \in localRows : row1 = named(was1)
          BY <2>3, <2>6, <2>7, <4>2
        <5>2. PICK was2 \in localRows : row2 = named(was2)
          BY <2>3, <2>6, <2>7, <3>2, <4>2
        <5> QED
          BY <2>4, <3>2, <5>1, <5>2 DEF CatalogInv, RowsFit
      <4>3. CASE row1.key \notin 1..ids.rows
        <5>1. /\ row1.asc \in DOMAIN adds /\ row1.key = ids.rows + row1.asc
              /\ row1 = [key |-> ids.rows + row1.asc, asc |-> row1.asc,
                         kind |-> adds[row1.asc].kind, name |-> adds[row1.asc].name]
          BY <2>6, <4>1, <4>3
        <5>2. /\ row2.asc \in DOMAIN adds /\ row2.key = ids.rows + row2.asc
              /\ row2 = [key |-> ids.rows + row2.asc, asc |-> row2.asc,
                         kind |-> adds[row2.asc].kind, name |-> adds[row2.asc].name]
          BY <2>6, <3>2, <4>1, <4>3
        <5>3. row1.asc = row2.asc
          <6>1. row1.asc \in Nat /\ row2.asc \in Nat /\ ids.rows \in Nat
            BY <2>3, <2>7, <5>1, <5>2
          <6>2. ids.rows + row1.asc = ids.rows + row2.asc
            BY <3>2, <5>1, <5>2
          <6> QED
            BY <6>1, <6>2
        <5> QED
          BY <5>1, <5>2, <5>3
      <4> QED
        BY <4>2, <4>3
    <3> QED
      BY <3>1, <3>2 DEF RowsFit
  <2>9. Kept
    <3>1. ASSUME NEW row \in localRows'
          PROVE  row.key > ids.rows \/ \E was \in localRows : was.key = row.key /\ was.asc = row.asc
      BY <2>4, <2>6, <2>7, <3>1
    <3> QED
      BY <1>1, <2>3, <3>1, CatalogSetting DEF Kept, CatalogInv, AppleFits
  <2>10. removed' \subseteq 1..ids'.products /\ removed' \cap DOMAIN apple' = {}
    <3>1. \A row \in gone : row.asc \in (1..ids.products) \ DOMAIN apple
      BY <1>1, <2>1 DEF DropsOK
    <3> QED
      BY <1>1, <1>3, <2>3, <3>1 DEF CatalogInv
  <2>11. ASSUME ~overlap PROVE OneRowEach(localRows') /\ Settled(c, localRows')
    <3>1. Settled(old, localRows) /\ OneRowEach(localRows)
      BY <2>11 DEF CatalogInv
    <3>2. \A i \in DOMAIN adds : \A row \in localRows : row.asc # i
      BY <1>1, <3>1 DEF Settled
    <3>3. ASSUME NEW row1 \in localRows', NEW row2 \in localRows', row1.asc = row2.asc
          PROVE  row1 = row2
      <4>1. CASE row1.asc \in DOMAIN adds
        BY <2>4, <2>6, <3>2, <3>3, <4>1
      <4>2. CASE row1.asc \notin DOMAIN adds
        <5>1. PICK was1 \in localRows : row1 = named(was1)
          BY <2>6, <4>2
        <5>2. PICK was2 \in localRows : row2 = named(was2)
          BY <2>6, <3>3, <4>2
        <5> QED
          BY <2>4, <3>1, <3>3, <5>1, <5>2 DEF OneRowEach
      <4> QED
        BY <4>1, <4>2
    <3>4. ASSUME NEW i \in DOMAIN old.seen
          PROVE  \E row \in localRows' : row.asc = i /\ row.name = old.seen[i].name
      <4>1. gone = {}
        BY <1>1, <2>1, <3>4 DEF DropsOK
      <4>2. Named(old, i, localRows)
        BY <1>1, <3>1 DEF Settled, Done
      <4>3. CASE i \in DOMAIN adds /\ adds[i].name = old.seen[i].name
        <5>1. [key |-> ids.rows + i, asc |-> i, kind |-> adds[i].kind, name |-> adds[i].name]
                \in localRows'
          BY <1>3, <4>3
        <5> QED
          BY <4>3, <5>1
      <4>4. CASE \E row \in localRows : row.asc = i
                  /\ (IF row.key \in DOMAIN names THEN names[row.key] ELSE row.name) = old.seen[i].name
        <5>1. PICK row \in localRows : row.asc = i
                  /\ (IF row.key \in DOMAIN names THEN names[row.key] ELSE row.name) = old.seen[i].name
          BY <4>4
        <5>2. named(row) \in localRows'
          BY <1>3, <4>1
        <5> QED
          BY <2>4, <2>5, <5>1, <5>2
      <4> QED
        BY <4>2, <4>3, <4>4 DEF Named
    <3> QED
      BY <2>2, <3>3, <3>4 DEF OneRowEach, Settled
  <2>12. FitsNext(c)
    BY <2>2 DEF FitsNext, RequestFits
  <2>13. AppleFits(apple, ids.products)'
    BY <1>1, <2>3 DEF CatalogInv
  <2>14. (removed \subseteq 1..ids.products /\ removed \cap DOMAIN apple = {})'
    BY <2>10
  <2>15. RowsFit(localRows, ids.products, ids.rows)'
    BY <2>8
  <2> QED
    BY <1>1, <1>3, <2>3, <2>9, <2>11, <2>12, <2>13, <2>14, <2>15, CatalogMoves
<1> QED
  BY <1>1, <1>2, <1>3

-----------------------------------------------------------------------------
LEMMA CatalogPerson == ASSUME CatalogInv, C!Person PROVE CatalogInv'
<1>1. UNCHANGED <<localRows, request, overlap, removed>>
  BY DEF C!Person
<1>2. \/ \E k, n : C!Make(k, n)
      \/ /\ UNCHANGED ids
         /\ \/ \E i \in DOMAIN apple : \E n : apple' = [apple EXCEPT ![i].name = n]
            \/ \E i \in DOMAIN apple : apple' = C!Without(i)
  BY DEF C!Person
<1>3. /\ IdsOK' /\ Kept /\ AppleFits(apple, ids.products)'
      /\ RowsFit(localRows, ids.products, ids.rows)'
      /\ (removed \subseteq 1..ids.products /\ removed \cap DOMAIN apple = {})'
  <2>1. CASE \E k, n : C!Make(k, n)
    BY <1>1, <2>1, MakeIs, MakeKept
  <2>2. CASE UNCHANGED ids
             /\ (\/ \E i \in DOMAIN apple : \E n : apple' = [apple EXCEPT ![i].name = n]
                 \/ \E i \in DOMAIN apple : apple' = C!Without(i))
    BY <1>1, <2>2, EditKept
  <2> QED
    BY <1>2, <2>1, <2>2
<1>4. \A s \in Run : Fits(request[s])'
  <2>1. \A s \in Run : FitsNext(request[s])
    BY <1>3, StillFits DEF CatalogInv
  <2> QED
    BY <1>1, <2>1 DEF Fits, FitsNext
<1>5. ~overlap' => (Alone /\ OneRowEach(localRows) /\ \A s \in Run : Settled(request[s], localRows))'
  BY <1>1 DEF CatalogInv, Alone
<1> QED
  BY <1>1, <1>3, <1>4, <1>5 DEF CatalogInv

LEMMA CatalogStands == ASSUME CatalogInv, UNCHANGED catalogVars PROVE CatalogInv'
<1>1. UNCHANGED <<apple, localRows, ids, request, overlap, removed>>
  BY DEF catalogVars
<1>2. \A s \in Run : Fits(request[s])'
  BY <1>1 DEF CatalogInv, Fits
<1>3. IdsOK'
  BY <1>1 DEF CatalogInv, IdsOK
<1>4. ~overlap' => (Alone /\ OneRowEach(localRows) /\ \A s \in Run : Settled(request[s], localRows))'
  BY <1>1 DEF CatalogInv, Alone
<1> QED
  BY <1>1, <1>2, <1>3, <1>4 DEF CatalogInv

LEMMA CatalogKept == CatalogInv /\ [C!Next]_catalogVars => CatalogInv'
<1> SUFFICES ASSUME CatalogInv, [C!Next]_catalogVars PROVE CatalogInv'
  OBVIOUS
<1>1. ASSUME NEW r \in Run,
             \/ C!list_subscriptions(r) \/ C!list_iaps(r)
             \/ C!pricing_list_subscription_groups(r) \/ C!pricing_list_iaps(r)
      PROVE  CatalogInv'
  BY <1>1, ListStarts DEF C!list_subscriptions, C!list_iaps,
     C!pricing_list_subscription_groups, C!pricing_list_iaps
<1>2. ASSUME NEW r \in Run,
             \/ C!create_subscription_group(r) \/ C!create_subscription(r) \/ C!create_iap(r)
             \/ C!pricing_create_subscription_group(r) \/ C!pricing_create_subscription(r)
             \/ C!pricing_create_iap(r)
      PROVE  CatalogInv'
  BY <1>2, CreateStarts DEF C!create_subscription_group, C!create_subscription, C!create_iap,
     C!pricing_create_subscription_group, C!pricing_create_subscription, C!pricing_create_iap
<1>3. ASSUME NEW r \in Run,
             \/ C!update_subscription_group(r) \/ C!update_subscription(r) \/ C!update_iap(r)
             \/ C!pricing_update_subscription_group(r) \/ C!pricing_update_subscription(r)
             \/ C!pricing_update_iap(r)
      PROVE  CatalogInv'
  BY <1>3, RenameStarts DEF C!update_subscription_group, C!update_subscription, C!update_iap,
     C!pricing_update_subscription_group, C!pricing_update_subscription, C!pricing_update_iap
<1>4. ASSUME NEW r \in Run,
             \/ C!delete_subscription(r) \/ C!delete_iap(r)
             \/ C!pricing_delete_subscription(r) \/ C!pricing_delete_iap(r)
      PROVE  CatalogInv'
  BY <1>4, DeleteStarts DEF C!delete_subscription, C!delete_iap, C!pricing_delete_subscription,
     C!pricing_delete_iap
<1>5. ASSUME NEW r \in Run,
             \/ C!Fetch(r) \/ C!LookUp(r) \/ C!PostGroup(r) \/ C!PostSub(r) \/ C!PostIap(r)
             \/ C!Availability(r) \/ C!Commit(r)
      PROVE  CatalogInv'
  BY <1>5, FetchKeeps, LookUpKeeps, PostKeeps, AvailabilityKeeps, RowsCommitKeeps
<1>6. ASSUME NEW r \in Run,
             \/ C!PatchGroup(r) \/ C!PatchSub(r) \/ C!PatchIap(r)
             \/ C!DeleteSub(r) \/ C!DeleteIap(r)
      PROVE  CatalogInv'
  BY <1>6, PatchKeeps, DeleteKeeps DEF C!PatchGroup, C!PatchSub, C!PatchIap, C!DeleteSub,
     C!DeleteIap
<1>7. ASSUME NEW r \in Run, C!PostRefused(r) \/ C!Answer(r) \/ C!Dies(r)
      PROVE  CatalogInv'
  <2>1. /\ request' = [request EXCEPT ![r] = C!Idle]
        /\ UNCHANGED <<overlap, ids, apple, localRows, removed>>
        /\ request[r].pc # "idle" \/ request[r] # C!Idle
    BY <1>7 DEF C!PostRefused, C!Answer, C!Dies, C!To, C!Calling, C!appleVars
  <2>2. request[r].pc # "idle"
    BY <2>1 DEF CatalogInv, Fits, RequestFits
  <2> QED
    BY <2>1, <2>2, CatalogEnds
<1> QED
  BY <1>1, <1>2, <1>3, <1>4, <1>5, <1>6, <1>7, CatalogPerson, CatalogStands DEF C!Next

LEMMA MirrorsFollow == CatalogInv => C!CatalogMirrors
<1> SUFFICES ASSUME CatalogInv PROVE C!CatalogMirrors
  OBVIOUS
<1>1. ASSUME ~overlap, NEW i \in 1..MaxProducts
      PROVE  C!Cardinality(C!RowsOf(i)) <= 1
  <2>1. \A row1, row2 \in C!RowsOf(i) : row1 = row2
    BY <1>1 DEF CatalogInv, OneRowEach, C!RowsOf
  <2>2. Cardinality(C!RowsOf(i)) <= 1
    <3>1. CASE C!RowsOf(i) = {}
      BY <3>1, FS_EmptySet
    <3>2. CASE C!RowsOf(i) # {}
      <4>1. PICK row : C!RowsOf(i) = {row}
        BY <2>1, <3>2
      <4>2. Cardinality({row}) = 1
        BY FS_Singleton
      <4> QED
        BY <4>1, <4>2
    <3> QED
      BY <3>1, <3>2
  <2>3. Cardinality(C!RowsOf(i)) = C!Cardinality(C!RowsOf(i))
    BY Zenon DEF Cardinality, C!Cardinality
  <2> QED
    BY <2>2, <2>3
<1>2. ASSUME ~overlap, NEW r \in Run, request[r].pc = "answer", NEW i \in DOMAIN request[r].seen
      PROVE  \E row \in C!RowsOf(i) : row.name = request[r].seen[i].name
  BY <1>2 DEF CatalogInv, Settled, C!RowsOf
<1> QED
  BY <1>1, <1>2 DEF CatalogInv, C!CatalogMirrors

\* CatalogInv: what a listing that is alone has settled, and what is gone where a row goes.
THEOREM CatalogInductive == MCSpec => []CatalogInv
<1>1. MCInit => CatalogInv
  BY CatalogInitially DEF MCInit, Resting
<1>2. [MCNext]_<<explored, vars, catalogVars, partVars>> => [C!Next]_catalogVars
  BY DEF MCNext, CloneRuns, CatalogStep, PartStep, catalogVars
<1> QED
  BY <1>1, <1>2, CatalogKept, PTL DEF MCSpec

\* Unless two requests overlapped, a product has at most one row and a listing that answers
\* has one, under Apple's name, for each product Apple named; and in any case a row is only
\* removed when its product is gone from Apple.
THEOREM CatalogMirrored == MCSpec => []CatalogMirrors
<1>1. CatalogInv => CatalogMirrors
  BY MirrorsFollow DEF CatalogMirrors
<1> QED
  BY <1>1, CatalogInductive, PTL

-----------------------------------------------------------------------------
(***************************************************************************)
(* What hangs on a product.  A request only holds parts of its own product *)
(* or parts that are gone, for a part never changes its product or its     *)
(* locale.  As long as nothing has overlapped, what a bulk write has saved *)
(* stays as it wrote it, and an upload has Apple's one screenshot.         *)
(***************************************************************************)

Owners == Products \cup {"nobody"}
Tags == Locales \cup {Canon[t] : t \in Locales} \cup {"none"}
Words == Run \cup {"old", "person", "none"}
Parts == [of : Owners, locale : Tags, text : Words \X Tags]

Left(ts) == {ts[k] : k \in DOMAIN ts}
Todos == {<< >>} \cup {<<t>> : t \in Locales}
           \cup {<<t, u>> : t \in Locales, u \in Locales}

\* A part that is p's, or was.
Was(i, p, all) == i \in DOMAIN all /\ (all[i].of = p \/ all[i] = P!Gone)

BulkOK(c, all) ==
  /\ {"of", "todo", "asked", "exact", "prefix", "saved", "failed"} \subseteq DOMAIN c
  /\ c.of \in Products /\ c.todo \in Todos
  /\ c.saved \cup c.failed \cup Left(c.todo) = c.asked
  /\ c.pc = "answer" => c.todo = << >>
  /\ c.pc = "item" =>
       /\ \A t \in DOMAIN c.exact :
            Was(c.exact[t], c.of, all) /\ (all[c.exact[t]] = P!Gone \/ all[c.exact[t]].locale = t)
       /\ \A l \in DOMAIN c.prefix :
            /\ Was(c.prefix[l], c.of, all)
            /\ all[c.prefix[l]] = P!Gone \/ Lang[all[c.prefix[l]].locale] = l

PartFits(c, all) ==
  /\ "pc" \in DOMAIN c
  /\ c.pc = "idle" => c = P!Idle
  /\ c.pc = "create" => {"of", "asked"} \subseteq DOMAIN c /\ c.of \in Products /\ c.asked \in Locales
  /\ c.pc \in {"assert", "update", "delete"} =>
       {"of", "part", "then"} \subseteq DOMAIN c /\ c.part \in DOMAIN all /\ c.of \in Products
  /\ c.pc = "assert" => c.then \in {"update", "delete"}
  /\ c.pc \in {"update", "delete"} => Was(c.part, c.of, all)
  /\ c.pc \in {"list", "item", "answer"} => BulkOK(c, all)
  /\ c.pc \in {"look", "drop", "reserve", "put", "commit", "taken", "shown"} =>
       {"blind", "id", "old"} \subseteq DOMAIN c /\ c.blind \in BOOLEAN

\* What a request that is alone has done: the request, its id, the parts, the screenshot.
Saved(c, r, all) ==
  \A t \in c.saved :
    \/ \E u \in c.asked \ {t} : Lang[u] = Lang[t]
    \/ \E i \in DOMAIN all : /\ all[i].of = c.of /\ all[i].text = <<r, t>>
                             /\ Lang[all[i].locale] = Lang[t]

PartSettled(c, r, all, photo) ==
  /\ c.pc = "list" => c.saved = {}
  /\ c.pc \in {"item", "answer"} => Saved(c, r, all)
  /\ c.pc = "reserve" => c.blind \/ photo = P!NoShot
  /\ c.pc = "taken" => c.blind
  /\ c.pc \in {"put", "commit"} => photo = [id |-> r, whole |-> FALSE]
  /\ c.pc = "shown" => photo = [id |-> r, whole |-> TRUE]

PartAlone == \A r, s \in Run : partRun[r].pc # "idle" /\ partRun[s].pc # "idle" => r = s

PartInv ==
  /\ parts \in Seq(Parts)
  /\ DOMAIN partRun = Run /\ \A r \in Run : PartFits(partRun[r], parts)
  /\ \A w \in written : w.by = w.owner
  /\ ~together => PartAlone /\ \A r \in Run : PartSettled(partRun[r], r, parts, reviewShot)

-----------------------------------------------------------------------------
LEMMA GoneIs ==
  /\ P!Gone.of = "nobody" /\ P!Gone \in Parts
  BY DEF P!Gone, Parts, Owners, Tags, Words

LEMMA PartIdle ==
  /\ P!Idle.pc = "idle" /\ \A all : PartFits(P!Idle, all)
  /\ \A r, all, photo : PartSettled(P!Idle, r, all, photo)
<1>1. P!Idle.pc = "idle" /\ DOMAIN P!Idle = {"pc"}
  BY DEF P!Idle
<1> QED
  BY <1>1 DEF PartFits, PartSettled

LEMMA TodoIs ==
  ASSUME NEW ts \in Todos, ts # << >>
  PROVE  /\ Head(ts) \in Locales /\ Head(ts) \in Left(ts) /\ Tail(ts) \in Todos
         /\ Left(ts) = {Head(ts)} \cup Left(Tail(ts))
<1>1. CASE \E t \in Locales : ts = <<t>>
  <2>1. PICK t \in Locales : ts = <<t>>
    BY <1>1
  <2>2. Head(ts) = t /\ Tail(ts) = << >>
    BY <2>1
  <2> QED
    BY <2>1, <2>2 DEF Left, Todos
<1>2. CASE \E t, u \in Locales : ts = <<t, u>>
  <2>1. PICK t, u \in Locales : ts = <<t, u>>
    BY <1>2
  <2>2. Head(ts) = t /\ Tail(ts) = <<u>>
    BY <2>1
  <2>3. Left(ts) = {t, u} /\ Left(<<u>>) = {u}
    BY <2>1 DEF Left
  <2>4. Left(Tail(ts)) = {u}
    BY <2>2, <2>3
  <2>5. Tail(ts) \in Todos
    BY <2>2 DEF Todos
  <2> QED
    BY <2>2, <2>3, <2>4, <2>5
<1> QED
  BY <1>1, <1>2 DEF Todos

\* The largest of some positions of a sequence is one of them.
LEMMA MaxIs ==
  ASSUME NEW n \in Nat, NEW T, T \subseteq 1..n, T # {}
  PROVE  P!Max(T) \in T
<1> DEFINE R == OpToRel(<, Nat)
           below == {n - x : x \in T}
<1>1. IsWellFoundedOn(R, Nat)
  BY NatLessThanWellFounded
<1>2. \A x, y \in Nat : <<x, y>> \in R <=> x < y
  BY DEF OpToRel
<1> HIDE DEF R
<1>3. below \subseteq Nat /\ below # {}
  <2>1. \A x \in T : n - x \in Nat
    OBVIOUS
  <2> QED
    BY <2>1
<1>4. PICK d \in below : \A e \in below : ~(<<e, d>> \in R)
  BY <1>1, <1>3, WFMin
<1>5. PICK x \in T : d = n - x
  OBVIOUS
<1>6. ASSUME NEW y \in T PROVE x >= y
  <2>1. ~(n - y < n - x)
    <3>1. n - y \in below /\ n - y \in Nat /\ n - x \in Nat
      BY <1>3
    <3> HIDE DEF below
    <3> QED
      BY <1>2, <1>4, <1>5, <3>1, Zenon
  <2> QED
    BY <2>1, x \in Nat, y \in Nat
<1> QED
  BY <1>6 DEF P!Max

LEMMA PartsInitially == P!Init => PartInv
<1> SUFFICES ASSUME P!Init PROVE PartInv
  OBVIOUS
<1>1. parts \in Seq(Parts)
  <2>1. PICK p \in Products, t \in Locales :
          parts = <<[of |-> p, locale |-> Canon[t], text |-> <<"old", t>>]>>
    BY DEF P!Init
  <2>2. [of |-> p, locale |-> Canon[t], text |-> <<"old", t>>] \in Parts
    BY DEF Parts, Owners, Tags, Words
  <2> QED
    BY <2>1, <2>2
<1>2. DOMAIN partRun = Run /\ \A r \in Run : partRun[r] = P!Idle
  BY DEF P!Init
<1> QED
  BY <1>1, <1>2, PartIdle DEF PartInv, PartAlone, P!Init

-----------------------------------------------------------------------------
(* What a step may do to the parts *)

PartsKept ==
  /\ parts' \in Seq(Parts)
  /\ \A i \in DOMAIN parts :
       /\ i \in DOMAIN parts'
       /\ parts[i] = P!Gone => parts'[i] = P!Gone
       /\ \/ parts'[i] = P!Gone
          \/ parts'[i].of = parts[i].of /\ parts'[i].locale = parts[i].locale

LEMMA PartsStand == ASSUME PartInv, UNCHANGED parts PROVE PartsKept
  BY DEF PartInv, PartsKept

LEMMA PartStillFits ==
  ASSUME PartsKept, NEW c, PartFits(c, parts) PROVE PartFits(c, parts')
<1>1. \A i, p : Was(i, p, parts) => Was(i, p, parts')
  BY DEF PartsKept, Was
<1>2. BulkOK(c, parts) => BulkOK(c, parts')
  BY <1>1 DEF BulkOK, PartsKept, Was
<1> QED
  BY <1>1, <1>2 DEF PartFits, PartsKept

LEMMA AddKeeps ==
  ASSUME PartInv, NEW p \in Products, NEW t \in Locales, NEW w \in Words, P!Add(p, t, <<w, t>>)
  PROVE  /\ PartsKept /\ Len(parts) + 1 \in DOMAIN parts'
         /\ parts'[Len(parts) + 1] = [of |-> p, locale |-> Canon[t], text |-> <<w, t>>]
         /\ \A i \in DOMAIN parts : parts'[i] = parts[i]
<1> DEFINE new == [of |-> p, locale |-> Canon[t], text |-> <<w, t>>]
<1>1. new \in Parts
  BY DEF Parts, Owners, Tags
<1>2. parts' = Append(parts, new) /\ parts \in Seq(Parts)
  BY DEF P!Add, PartInv
<1> HIDE DEF new
<1>3. /\ parts' \in Seq(Parts) /\ Len(parts) + 1 \in DOMAIN parts' /\ parts'[Len(parts) + 1] = new
      /\ \A i \in DOMAIN parts : i \in DOMAIN parts' /\ parts'[i] = parts[i]
  BY <1>1, <1>2
<1> QED
  BY <1>3 DEF PartsKept, new

LEMMA ChangeKeeps ==
  ASSUME PartInv, NEW i, NEW p, Was(i, p, parts), NEW t, NEW new \in Parts, P!Change(i, p, t, new),
         new = P!Gone \/ (new.of = parts[i].of /\ new.locale = parts[i].locale)
  PROVE  /\ PartsKept /\ parts[i].of = p /\ parts'[i] = new
         /\ \A j \in DOMAIN parts \ {i} : parts'[j] = parts[j]
         /\ \A w \in written' : w.by = w.owner
<1>1. /\ parts[i].of = p /\ parts[i] # P!Gone /\ parts' = [parts EXCEPT ![i] = new]
      /\ written' = written \cup {[owner |-> parts[i].of, locale |-> parts[i].locale,
                                   by |-> p, asked |-> t]}
  BY DEF P!Change, Was
<1>2. i \in DOMAIN parts /\ parts \in Seq(Parts)
  BY DEF Was, PartInv
<1>3. parts' \in Seq(Parts) /\ DOMAIN parts' = DOMAIN parts /\ parts'[i] = new
      /\ \A j \in DOMAIN parts \ {i} : parts'[j] = parts[j]
  BY <1>1, <1>2
<1> QED
  BY <1>1, <1>2, <1>3 DEF PartsKept, PartInv

\* A step of a request that runs.
LEMMA PartMoves ==
  ASSUME PartInv, NEW r \in Run, partRun[r].pc # "idle", NEW c, PartFits(c, parts'),
         partRun' = [partRun EXCEPT ![r] = c], together' = together, PartsKept,
         \A w \in written' : w.by = w.owner,
         ~together => PartSettled(c, r, parts', reviewShot')
  PROVE  PartInv'
<1>1. /\ DOMAIN partRun' = Run /\ partRun'[r] = c
      /\ \A s \in Run \ {r} : partRun'[s] = partRun[s]
  BY DEF PartInv
<1>2. \A s \in Run : PartFits(partRun'[s], parts')
  BY <1>1, PartStillFits DEF PartInv
<1>3. ~together => \A s \in Run \ {r} : partRun[s] = P!Idle
  BY DEF PartInv, PartAlone, PartFits
<1>4. ~together => /\ PartAlone'
                   /\ \A s \in Run : PartSettled(partRun'[s], s, parts', reviewShot')
  BY <1>1, <1>3, PartIdle DEF PartAlone
<1> QED
  BY <1>1, <1>2, <1>4 DEF PartInv, PartsKept

LEMMA PartTurns ==
  ASSUME PartInv, NEW r \in Run, partRun[r].pc # "idle", NEW c, PartFits(c, parts),
         partRun' = [partRun EXCEPT ![r] = c], UNCHANGED <<together, parts, written>>,
         ~together => PartSettled(c, r, parts, reviewShot')
  PROVE  PartInv'
<1>1. \A w \in written' : w.by = w.owner
  BY DEF PartInv
<1> QED
  BY <1>1, PartMoves, PartsStand

LEMMA PartEnds ==
  ASSUME PartInv, NEW r \in Run, partRun[r].pc # "idle",
         partRun' = [partRun EXCEPT ![r] = P!Idle], UNCHANGED <<together, parts, written>>
  PROVE  PartInv'
  BY PartTurns, PartIdle

LEMMA PartStarts ==
  ASSUME PartInv, NEW r \in Run, NEW c, P!Start(r, c), PartFits(c, parts),
         ~together => PartSettled(c, r, parts, reviewShot)
  PROVE  PartInv'
<1>1. /\ partRun[r] = P!Idle /\ partRun' = [partRun EXCEPT ![r] = c]
      /\ UNCHANGED <<parts, reviewShot, written>>
      /\ together' = (together \/ \E s \in Run : partRun[s] # P!Idle)
  BY DEF P!Start, P!To, P!Busy
<1>2. /\ DOMAIN partRun' = Run /\ partRun'[r] = c
      /\ \A s \in Run \ {r} : partRun'[s] = partRun[s]
  BY <1>1 DEF PartInv
<1>3. \A s \in Run : PartFits(partRun'[s], parts')
  BY <1>1, <1>2 DEF PartInv
<1>4. ASSUME ~together'
      PROVE  /\ PartAlone'
             /\ \A s \in Run : PartSettled(partRun'[s], s, parts', reviewShot')
  <2>1. ~together /\ \A s \in Run \ {r} : partRun[s] = P!Idle
    BY <1>1, <1>4
  <2> QED
    BY <1>1, <1>2, <2>1, PartIdle DEF PartInv, PartAlone
<1> QED
  BY <1>1, <1>2, <1>3, <1>4 DEF PartInv

-----------------------------------------------------------------------------
(* One part *)

LEMMA OneStarts ==
  ASSUME PartInv, NEW r \in Run, NEW kinds,
         \/ P!Asks(r, kinds) \/ \E ph \in {"update", "delete"} : P!Names(r, kinds, ph)
  PROVE  PartInv'
<1>1. CASE P!Asks(r, kinds)
  <2>1. PICK p \in Products, t \in Locales : P!Start(r, [pc |-> "create", of |-> p, asked |-> t])
    BY <1>1 DEF P!Asks
  <2> DEFINE c == [pc |-> "create", of |-> p, asked |-> t]
  <2>2. PartFits(c, parts) /\ PartSettled(c, r, parts, reviewShot)
    BY DEF PartFits, PartSettled
  <2> HIDE DEF c
  <2> QED
    BY <2>1, <2>2, PartStarts DEF c
<1>2. CASE \E ph \in {"update", "delete"} : P!Names(r, kinds, ph)
  <2>1. PICK ph \in {"update", "delete"}, p \in Products, i \in DOMAIN parts :
          P!Start(r, [pc |-> "assert", of |-> p, part |-> i, then |-> ph])
    BY <1>2 DEF P!Names
  <2> DEFINE c == [pc |-> "assert", of |-> p, part |-> i, then |-> ph]
  <2>2. PartFits(c, parts) /\ PartSettled(c, r, parts, reviewShot)
    BY DEF PartFits, PartSettled
  <2> HIDE DEF c
  <2> QED
    BY <2>1, <2>2, PartStarts DEF c
<1> QED
  BY <1>1, <1>2

LEMMA CreatesKeep == ASSUME PartInv, NEW r \in Run, NEW k, P!Creates(r, k) PROVE PartInv'
<1>1. /\ partRun[r].pc = "create" /\ partRun' = [partRun EXCEPT ![r] = P!Idle]
      /\ UNCHANGED <<together, written>>
      /\ P!Add(partRun[r].of, partRun[r].asked, <<r, partRun[r].asked>>) \/ UNCHANGED parts
  BY DEF P!Creates, P!To, P!Calling
<1>2. partRun[r].of \in Products /\ partRun[r].asked \in Locales /\ r \in Words
  BY <1>1 DEF PartInv, PartFits, Words
<1>3. PartsKept
  BY <1>1, <1>2, AddKeeps, PartsStand
<1>4. \A w \in written' : w.by = w.owner
  BY <1>1 DEF PartInv
<1> QED
  BY <1>1, <1>3, <1>4, PartMoves, PartIdle

LEMMA AssertKeeps == ASSUME PartInv, NEW r \in Run, P!AssertMember(r) PROVE PartInv'
<1> DEFINE old == partRun[r]
           c == [old EXCEPT !.pc = old.then]
<1>1. /\ old.pc = "assert" /\ UNCHANGED <<together, parts, written>>
      /\ \/ partRun' = [partRun EXCEPT ![r] = P!Idle]
         \/ /\ old.part \in DOMAIN parts /\ parts[old.part].of = old.of
            /\ partRun' = [partRun EXCEPT ![r] = c]
  BY DEF P!AssertMember, P!To, P!Step, P!Calling, P!Member, P!Of
<1>2. /\ {"pc", "of", "part", "then"} \subseteq DOMAIN old /\ old.part \in DOMAIN parts
      /\ old.of \in Products /\ old.then \in {"update", "delete"}
  BY <1>1 DEF PartInv, PartFits
<1>3. /\ DOMAIN c = DOMAIN old /\ c.pc = old.then /\ c.of = old.of /\ c.part = old.part
  BY <1>2
<1> HIDE DEF c
<1>4. ASSUME parts[old.part].of = old.of PROVE PartFits(c, parts)
  BY <1>2, <1>3, <1>4 DEF PartFits, Was
<1>5. PartSettled(c, r, parts, reviewShot')
  BY <1>2, <1>3 DEF PartSettled
<1> QED
  BY <1>1, <1>4, <1>5, PartTurns, PartEnds

LEMMA UpdatesKeep ==
  ASSUME PartInv, NEW r \in Run, NEW k, P!Updates(r, k) \/ P!Deletes(r, k)
  PROVE  PartInv'
<1> DEFINE old == partRun[r]
           i == old.part
           new == [parts[i] EXCEPT !.text = <<r, parts[i].locale>>]
<1>1. /\ old.pc \in {"update", "delete"} /\ partRun' = [partRun EXCEPT ![r] = P!Idle]
      /\ UNCHANGED together
      /\ \/ P!Change(i, old.of, parts[i].locale, new)
         \/ P!Change(i, old.of, parts[i].locale, P!Gone)
         \/ UNCHANGED <<parts, written>>
  BY DEF P!Updates, P!Deletes, P!Write, P!To, P!Calling
<1>2. Was(i, old.of, parts) /\ parts[i] \in Parts
  BY <1>1 DEF PartInv, PartFits, Was
<1>3. /\ new \in Parts /\ new.of = parts[i].of /\ new.locale = parts[i].locale
      /\ P!Gone \in Parts
  BY <1>2, GoneIs DEF Parts, Words
<1> HIDE DEF new
<1>4. PartsKept /\ \A w \in written' : w.by = w.owner
  <2>1. CASE P!Change(i, old.of, parts[i].locale, new)
    BY <1>2, <1>3, <2>1, ChangeKeeps
  <2>2. CASE P!Change(i, old.of, parts[i].locale, P!Gone)
    BY <1>2, <1>3, <2>2, ChangeKeeps
  <2>3. CASE UNCHANGED <<parts, written>>
    BY <2>3, PartsStand DEF PartInv
  <2> QED
    BY <1>1, <2>1, <2>2, <2>3
<1> QED
  BY <1>1, <1>4, PartMoves, PartIdle

-----------------------------------------------------------------------------
(* Many localizations *)

LEMMA BulkStarts ==
  ASSUME PartInv, NEW r \in Run, NEW kinds, P!Bulk(r, kinds) PROVE PartInv'
<1>1. PICK x \in Locales, y \in Locales, p \in Products :
        P!Start(r, [pc |-> "list", of |-> p, todo |-> IF x = y THEN <<x>> ELSE <<x, y>>,
                    asked |-> {x, y}, exact |-> << >>, prefix |-> << >>,
                    saved |-> {}, failed |-> {}])
  BY DEF P!Bulk
<1> DEFINE ts == IF x = y THEN <<x>> ELSE <<x, y>>
           c == [pc |-> "list", of |-> p, todo |-> ts, asked |-> {x, y}, exact |-> << >>,
                 prefix |-> << >>, saved |-> {}, failed |-> {}]
<1>2. ts \in Todos /\ Left(ts) = {x, y}
  BY DEF Todos, Left
<1> HIDE DEF ts
<1>3. /\ DOMAIN c = {"pc", "of", "todo", "asked", "exact", "prefix", "saved", "failed"}
      /\ c.pc = "list" /\ c.of = p /\ c.todo = ts /\ c.asked = {x, y} /\ c.saved = {}
      /\ c.failed = {}
  OBVIOUS
<1>4. P!Start(r, c)
  BY <1>1 DEF ts
<1> HIDE DEF c
<1>5. PartFits(c, parts) /\ PartSettled(c, r, parts, reviewShot)
  BY <1>2, <1>3 DEF PartFits, BulkOK, PartSettled
<1> QED
  BY <1>4, <1>5, PartStarts

\* What is found under a tag or a language is a part of the product, with that tag or of
\* that language.
LEMMA ListKeeps == ASSUME PartInv, NEW r \in Run, P!ListAll(r) PROVE PartInv'
<1> DEFINE old == partRun[r]
           own == P!Of(old.of)
           Tagged(t) == {i \in own : parts[i].locale = t}
           Speaking(l) == {i \in own : Lang[parts[i].locale] = l}
           exact == [t \in {parts[i].locale : i \in own} |-> CHOOSE i \in Tagged(t) : TRUE]
           prefix == [l \in {Lang[parts[i].locale] : i \in own} |-> P!Max(Speaking(l))]
           c == [[old EXCEPT !.pc = "item"] EXCEPT !.exact = exact, !.prefix = prefix]
<1>1. /\ old.pc = "list" /\ UNCHANGED <<together, parts, written>>
      /\ partRun' = [partRun EXCEPT ![r] = c]
  BY DEF P!ListAll, P!To, P!Step, P!Calling
<1>2. {"pc"} \subseteq DOMAIN old /\ BulkOK(old, parts)
  BY <1>1 DEF PartInv, PartFits
<1>3. own \subseteq 1..Len(parts) /\ Len(parts) \in Nat
  BY DEF PartInv, P!Of
<1>4. \A i \in own : Was(i, old.of, parts)
  BY DEF P!Of, Was
<1>5. ASSUME NEW t \in DOMAIN exact
      PROVE  exact[t] \in own /\ parts[exact[t]].locale = t
  <2>1. Tagged(t) # {} /\ exact[t] = CHOOSE i \in Tagged(t) : TRUE
    OBVIOUS
  <2>2. exact[t] \in Tagged(t)
    BY SMTT(60), <2>1
  <2> QED
    BY <2>2
<1>6. ASSUME NEW l \in DOMAIN prefix
      PROVE  prefix[l] \in own /\ Lang[parts[prefix[l]].locale] = l
  <2>1. Speaking(l) # {} /\ Speaking(l) \subseteq 1..Len(parts) /\ prefix[l] = P!Max(Speaking(l))
    BY <1>3
  <2>2. prefix[l] \in Speaking(l)
    <3> HIDE DEF Speaking, prefix
    <3> QED
      BY <1>3, <2>1, MaxIs
  <2> QED
    BY <2>2
<1> HIDE DEF exact, prefix, own
<1>7. /\ DOMAIN c = DOMAIN old /\ c.pc = "item" /\ c.of = old.of /\ c.todo = old.todo
      /\ c.asked = old.asked /\ c.saved = old.saved /\ c.failed = old.failed
      /\ c.exact = exact /\ c.prefix = prefix
  BY <1>2 DEF BulkOK
<1> HIDE DEF c
<1>8. BulkOK(c, parts)
  BY <1>2, <1>4, <1>5, <1>6, <1>7 DEF BulkOK
<1>9. PartFits(c, parts)
  BY <1>2, <1>7, <1>8 DEF PartFits
<1>10. ~together => PartSettled(c, r, parts, reviewShot')
  BY <1>1, <1>7 DEF PartInv, PartSettled, Saved
<1> QED
  BY <1>1, <1>9, <1>10, PartTurns

\* A locale is written where its tag or its language is, so only over a text of that language.
LEMMA ItemKeeps == ASSUME PartInv, NEW r \in Run, P!Item(r) PROVE PartInv'
<1> DEFINE old == partRun[r]
           t == Head(old.todo)
           i == P!Existing(r, t)
           new == [parts[i] EXCEPT !.text = <<r, t>>]
           saved == [old EXCEPT !.saved = @ \cup {t}, !.todo = Tail(@)]
           failed == [old EXCEPT !.failed = @ \cup {t}, !.todo = Tail(@)]
<1>1. /\ old.pc = "item" /\ old.todo # << >> /\ UNCHANGED together
      /\ \/ /\ i # 0 /\ P!Change(i, old.of, t, new) /\ partRun' = [partRun EXCEPT ![r] = saved]
         \/ /\ i = 0 /\ P!Add(old.of, t, <<r, t>>) /\ partRun' = [partRun EXCEPT ![r] = saved]
            /\ UNCHANGED written
         \/ UNCHANGED <<parts, written>> /\ partRun' = [partRun EXCEPT ![r] = failed]
  BY DEF P!Item, P!Write, P!To, P!AfterFailure, P!Calling
<1>2. {"pc"} \subseteq DOMAIN old /\ BulkOK(old, parts)
  BY SMTT(60), <1>1 DEF PartInv, PartFits
<1>3. /\ t \in Locales /\ Tail(old.todo) \in Todos /\ Left(old.todo) = {t} \cup Left(Tail(old.todo))
      /\ old.of \in Products /\ r \in Words /\ t \in old.asked
  BY SMTT(60), <1>1, <1>2, TodoIs DEF BulkOK, Words
<1>4. i # 0 => Was(i, old.of, parts)
               /\ (parts[i] = P!Gone \/ Lang[parts[i].locale] = Lang[t])
  BY ZenonT(120), <1>1, <1>2 DEF BulkOK, P!Existing
<1> HIDE DEF i
<1>5. /\ DOMAIN saved = DOMAIN old /\ saved.pc = "item" /\ saved.of = old.of
      /\ saved.todo = Tail(old.todo) /\ saved.asked = old.asked
      /\ saved.saved = old.saved \cup {t} /\ saved.failed = old.failed
      /\ saved.exact = old.exact /\ saved.prefix = old.prefix
  BY SMTT(60), <1>1, <1>2 DEF BulkOK
<1>6. /\ DOMAIN failed = DOMAIN old /\ failed.pc = "item" /\ failed.of = old.of
      /\ failed.todo = Tail(old.todo) /\ failed.asked = old.asked
      /\ failed.saved = old.saved /\ failed.failed = old.failed \cup {t}
      /\ failed.exact = old.exact /\ failed.prefix = old.prefix
  BY <1>1, <1>2 DEF BulkOK
<1> HIDE DEF saved, failed, t
<1>7. PartFits(saved, parts) /\ PartFits(failed, parts)
  <2>1. BulkOK(saved, parts)
    BY SMTT(60), <1>1, <1>2, <1>3, <1>5 DEF BulkOK
  <2>2. BulkOK(failed, parts)
    BY <1>1, <1>2, <1>3, <1>6 DEF BulkOK
  <2> QED
    BY SMTT(60), <1>2, <1>5, <1>6, <2>1, <2>2 DEF PartFits
<1>8. ~together => Saved(old, r, parts)
  BY <1>1 DEF PartInv, PartSettled
<1>9. CASE i # 0 /\ P!Change(i, old.of, t, new) /\ partRun' = [partRun EXCEPT ![r] = saved]
  <2>1. i \in DOMAIN parts /\ parts[i] \in Parts /\ parts[i] # P!Gone
    BY <1>4, <1>9 DEF Was, PartInv, P!Change
  <2>2. /\ new \in Parts /\ new.of = parts[i].of /\ new.locale = parts[i].locale
        /\ new.text = <<r, t>>
    BY <1>3, <2>1 DEF Parts, Words, Tags
  <2> HIDE DEF new
  <2>3. /\ PartsKept /\ parts[i].of = old.of /\ parts'[i] = new
        /\ \A j \in DOMAIN parts \ {i} : parts'[j] = parts[j]
        /\ \A w \in written' : w.by = w.owner
    BY <1>4, <1>9, <2>2, ChangeKeeps
  <2>4. /\ i \in DOMAIN parts' /\ parts'[i].of = old.of /\ parts'[i].text = <<r, t>>
        /\ Lang[parts'[i].locale] = Lang[t]
    BY <1>4, <1>9, <2>1, <2>2, <2>3 DEF PartsKept
  <2>5. ASSUME ~together, NEW u \in saved.saved
        PROVE  \/ \E v \in saved.asked \ {u} : Lang[v] = Lang[u]
               \/ \E j \in DOMAIN parts' : /\ parts'[j].of = saved.of /\ parts'[j].text = <<r, u>>
                                          /\ Lang[parts'[j].locale] = Lang[u]
    <3>1. CASE u = t
      BY <1>5, <2>4, <3>1
    <3>2. CASE u # t
      <4>1. u \in old.saved
        BY <1>5, <3>2
      <4>2. CASE \E v \in old.asked \ {u} : Lang[v] = Lang[u]
        BY <1>5, <4>2
      <4>3. CASE \E j \in DOMAIN parts : /\ parts[j].of = old.of /\ parts[j].text = <<r, u>>
                                         /\ Lang[parts[j].locale] = Lang[u]
        <5>1. PICK j \in DOMAIN parts : /\ parts[j].of = old.of /\ parts[j].text = <<r, u>>
                                         /\ Lang[parts[j].locale] = Lang[u]
          BY <4>3
        <5>2. CASE j = i
          BY <1>3, <1>4, <1>5, <1>9, <2>1, <3>2, <5>1, <5>2
        <5>3. CASE j # i
          BY <1>5, <2>3, <5>1, <5>3 DEF PartsKept
        <5> QED
          BY <5>2, <5>3
      <4> QED
        BY <1>8, <2>5, <4>1, <4>2, <4>3 DEF Saved
    <3> QED
      BY <3>1, <3>2
  <2>6. ~together => PartSettled(saved, r, parts', reviewShot')
    BY <1>5, <2>5 DEF PartSettled, Saved
  <2>7. PartFits(saved, parts')
    BY <1>7, <2>3, PartStillFits
  <2> QED
    BY <1>1, <1>9, <2>3, <2>6, <2>7, PartMoves
<1>10. CASE i = 0 /\ P!Add(old.of, t, <<r, t>>) /\ partRun' = [partRun EXCEPT ![r] = saved]
            /\ UNCHANGED written
  <2> DEFINE last == Len(parts) + 1
  <2>1. /\ PartsKept /\ last \in DOMAIN parts'
        /\ parts'[last] = [of |-> old.of, locale |-> Canon[t], text |-> <<r, t>>]
        /\ \A j \in DOMAIN parts : parts'[j] = parts[j]
    BY <1>3, <1>10, AddKeeps
  <2>2. /\ parts'[last].of = old.of /\ parts'[last].text = <<r, t>>
        /\ Lang[parts'[last].locale] = Lang[t]
    BY <1>3, <2>1, LangSetting
  <2> HIDE DEF last
  <2>3. ASSUME ~together, NEW u \in saved.saved
        PROVE  \/ \E v \in saved.asked \ {u} : Lang[v] = Lang[u]
               \/ \E j \in DOMAIN parts' : /\ parts'[j].of = saved.of /\ parts'[j].text = <<r, u>>
                                          /\ Lang[parts'[j].locale] = Lang[u]
    <3>1. CASE u = t
      BY <1>5, <2>1, <2>2, <3>1
    <3>2. CASE u # t
      <4>1. u \in old.saved
        BY <1>5, <3>2
      <4>2. CASE \E v \in old.asked \ {u} : Lang[v] = Lang[u]
        BY <1>5, <4>2
      <4>3. CASE \E j \in DOMAIN parts : /\ parts[j].of = old.of /\ parts[j].text = <<r, u>>
                                         /\ Lang[parts[j].locale] = Lang[u]
        <5>1. PICK j \in DOMAIN parts : /\ parts[j].of = old.of /\ parts[j].text = <<r, u>>
                                         /\ Lang[parts[j].locale] = Lang[u]
          BY <4>3
        <5> QED
          BY <1>5, <2>1, <5>1 DEF PartsKept
      <4> QED
        BY <1>8, <2>3, <4>1, <4>2, <4>3 DEF Saved
    <3> QED
      BY <3>1, <3>2
  <2>4. ~together => PartSettled(saved, r, parts', reviewShot')
    BY <1>5, <2>3 DEF PartSettled, Saved
  <2>5. PartFits(saved, parts') /\ \A w \in written' : w.by = w.owner
    BY <1>7, <1>10, <2>1, PartStillFits DEF PartInv
  <2> QED
    BY <1>1, <1>10, <2>1, <2>4, <2>5, PartMoves
<1>11. CASE UNCHANGED <<parts, written>> /\ partRun' = [partRun EXCEPT ![r] = failed]
  <2>1. ~together => PartSettled(failed, r, parts, reviewShot')
    BY <1>6, <1>8 DEF PartSettled, Saved
  <2> QED
    BY <1>1, <1>7, <1>11, <2>1, PartTurns
<1> QED
  BY <1>1, <1>9, <1>10, <1>11

LEMMA BulkDoneKeeps == ASSUME PartInv, NEW r \in Run, P!BulkDone(r) PROVE PartInv'
<1> DEFINE old == partRun[r]
           c == [old EXCEPT !.pc = "answer"]
<1>1. /\ old.pc = "item" /\ old.todo = << >> /\ UNCHANGED <<together, parts, written>>
      /\ partRun' = [partRun EXCEPT ![r] = c]
  BY DEF P!BulkDone, P!To, P!Step, P!Calling
<1>2. {"pc"} \subseteq DOMAIN old /\ BulkOK(old, parts)
  BY <1>1 DEF PartInv, PartFits
<1>3. /\ DOMAIN c = DOMAIN old /\ c.pc = "answer" /\ c.of = old.of /\ c.todo = old.todo
      /\ c.asked = old.asked /\ c.saved = old.saved /\ c.failed = old.failed
  BY <1>2 DEF BulkOK
<1> HIDE DEF c
<1>4. PartFits(c, parts)
  BY <1>1, <1>2, <1>3 DEF PartFits, BulkOK
<1>5. ~together => PartSettled(c, r, parts, reviewShot')
  <2>1. ~together => Saved(old, r, parts)
    BY <1>1 DEF PartInv, PartSettled
  <2>2. ~together => Saved(c, r, parts)
    BY <1>3, <2>1 DEF Saved
  <2> QED
    BY <1>3, <2>2 DEF PartSettled
<1> QED
  BY <1>1, <1>4, <1>5, PartTurns

-----------------------------------------------------------------------------
(* The screenshot *)

LEMMA UploadStarts ==
  ASSUME PartInv, NEW r \in Run, NEW kinds, P!Upload(r, kinds) PROVE PartInv'
<1> DEFINE c == [pc |-> "look", blind |-> FALSE, id |-> "none", old |-> P!NoShot]
<1>1. PartFits(c, parts) /\ PartSettled(c, r, parts, reviewShot)
  BY DEF PartFits, PartSettled
<1>2. P!Start(r, c)
  BY DEF P!Upload
<1> HIDE DEF c
<1> QED
  BY <1>1, <1>2, PartStarts

ShotSteps == {"look", "drop", "reserve", "put", "commit", "taken", "shown"}

\* A request on the screenshot goes on; the parts are not its business.
LEMMA ShotMoves ==
  ASSUME PartInv, NEW r \in Run,
         partRun[r].pc \in ShotSteps, NEW c, DOMAIN c = DOMAIN partRun[r], c.pc \in ShotSteps,
         c.blind \in BOOLEAN, partRun' = [partRun EXCEPT ![r] = c],
         UNCHANGED <<together, parts, written>>,
         ~together => PartSettled(c, r, parts, reviewShot')
  PROVE  PartInv'
<1>1. {"pc", "blind", "id", "old"} \subseteq DOMAIN partRun[r]
  BY DEF PartInv, PartFits, ShotSteps
<1>2. PartFits(c, parts)
  BY <1>1 DEF PartFits, ShotSteps
<1>3. partRun[r].pc # "idle"
  BY DEF ShotSteps
<1> QED
  BY <1>2, <1>3, PartTurns

LEMMA ShotKeeps ==
  ASSUME PartInv, NEW r \in Run,
         \/ P!LookSub(r) \/ P!LookIap(r) \/ P!Drop(r) \/ P!Reserve(r) \/ P!PutBinary(r)
         \/ P!CommitShot(r)
  PROVE  PartInv'
<1> DEFINE old == partRun[r]
           at(ph) == [old EXCEPT !.pc = ph]
           unread == [at("reserve") EXCEPT !.blind = TRUE]
           drop == [at("drop") EXCEPT !.old = reviewShot]
           put == [at("put") EXCEPT !.id = r]
<1>1. /\ old.pc \in {"look", "drop", "reserve", "put", "commit"}
      /\ UNCHANGED <<together, parts, written>>
  BY DEF P!LookSub, P!LookIap, P!Look, P!Drop, P!Reserve, P!PutBinary, P!CommitShot, P!Calling
<1>2. \/ partRun' = [partRun EXCEPT ![r] = P!Idle]
      \/ /\ reviewShot = P!NoShot /\ reviewShot' = reviewShot
         /\ partRun' = [partRun EXCEPT ![r] = at("reserve")]
      \/ partRun' = [partRun EXCEPT ![r] = drop]
      \/ partRun' = [partRun EXCEPT ![r] = unread]
      \/ reviewShot' = P!NoShot /\ partRun' = [partRun EXCEPT ![r] = at("reserve")]
      \/ /\ old.pc = "reserve" /\ reviewShot # P!NoShot /\ reviewShot' = reviewShot
         /\ partRun' = [partRun EXCEPT ![r] = at("taken")]
      \/ /\ reviewShot' = [id |-> r, whole |-> FALSE]
         /\ partRun' = [partRun EXCEPT ![r] = put]
      \/ /\ old.pc = "put" /\ reviewShot' = reviewShot
         /\ partRun' = [partRun EXCEPT ![r] = at("commit")]
      \/ /\ old.pc = "commit" /\ reviewShot' = [reviewShot EXCEPT !.whole = TRUE]
         /\ partRun' = [partRun EXCEPT ![r] = at("shown")]
  <2>1. ASSUME NEW k, NEW c, P!Look(r, k, c)
        PROVE  \/ /\ reviewShot = P!NoShot /\ reviewShot' = reviewShot
                  /\ partRun' = [partRun EXCEPT ![r] = at("reserve")]
               \/ partRun' = [partRun EXCEPT ![r] = drop]
               \/ partRun' = [partRun EXCEPT ![r] = c]
    BY <2>1 DEF P!Look, P!To, P!Step
  <2>2. CASE P!LookSub(r) \/ P!LookIap(r)
    BY <2>1, <2>2 DEF P!LookSub, P!LookIap, P!Step
  <2>3. CASE P!Drop(r)
    BY <2>3 DEF P!Drop, P!To, P!Step, P!AfterLook
  <2>4. CASE P!Reserve(r)
    BY <2>4 DEF P!Reserve, P!To, P!Step
  <2>5. CASE P!PutBinary(r)
    BY <2>5 DEF P!PutBinary, P!To, P!Step
  <2>6. CASE P!CommitShot(r)
    BY <2>6 DEF P!CommitShot, P!To, P!Step
  <2> QED
    BY <2>2, <2>3, <2>4, <2>5, <2>6
<1>3. {"pc", "blind", "id", "old"} \subseteq DOMAIN old /\ old.blind \in BOOLEAN
  BY <1>1 DEF PartInv, PartFits
<1>4. \A ph : DOMAIN at(ph) = DOMAIN old /\ at(ph).pc = ph /\ at(ph).blind = old.blind
  BY <1>3
<1>5. /\ DOMAIN unread = DOMAIN old /\ unread.pc = "reserve" /\ unread.blind = TRUE
      /\ DOMAIN drop = DOMAIN old /\ drop.pc = "drop" /\ drop.blind = old.blind
      /\ DOMAIN put = DOMAIN old /\ put.pc = "put" /\ put.blind = old.blind
  BY <1>3
<1>6. ~together =>
        /\ old.pc = "reserve" => old.blind \/ reviewShot = P!NoShot
        /\ old.pc \in {"put", "commit"} => reviewShot = [id |-> r, whole |-> FALSE]
  BY DEF PartInv, PartSettled
<1> HIDE DEF at, unread, drop, put
<1>7. CASE partRun' = [partRun EXCEPT ![r] = P!Idle]
  BY <1>1, <1>7, PartEnds
<1>8. CASE reviewShot' = P!NoShot /\ partRun' = [partRun EXCEPT ![r] = at("reserve")]
  BY ZenonT(120), <1>1, <1>3, <1>4, <1>8, ShotMoves DEF PartSettled, ShotSteps
<1>9. CASE partRun' = [partRun EXCEPT ![r] = drop]
  BY <1>1, <1>3, <1>5, <1>9, ShotMoves DEF PartSettled, ShotSteps
<1>10. CASE partRun' = [partRun EXCEPT ![r] = unread]
  BY <1>1, <1>5, <1>10, ShotMoves DEF PartSettled, ShotSteps
<1>11. CASE /\ old.pc = "reserve" /\ reviewShot # P!NoShot /\ reviewShot' = reviewShot
            /\ partRun' = [partRun EXCEPT ![r] = at("taken")]
  <2>1. ~together => at("taken").blind
    BY <1>4, <1>6, <1>11, Zenon
  <2>2. ~together => PartSettled(at("taken"), r, parts, reviewShot')
    BY <1>4, <2>1 DEF PartSettled
  <2> QED
    BY <1>1, <1>3, <1>4, <1>11, <2>2, ShotMoves DEF PartSettled, ShotSteps
<1>12. CASE /\ reviewShot' = [id |-> r, whole |-> FALSE]
            /\ partRun' = [partRun EXCEPT ![r] = put]
  BY <1>1, <1>3, <1>5, <1>12, ShotMoves DEF PartSettled, ShotSteps
<1>13. CASE /\ old.pc = "put" /\ reviewShot' = reviewShot
            /\ partRun' = [partRun EXCEPT ![r] = at("commit")]
  BY <1>1, <1>3, <1>4, <1>6, <1>13, ShotMoves DEF PartSettled, ShotSteps
<1>14. CASE /\ old.pc = "commit" /\ reviewShot' = [reviewShot EXCEPT !.whole = TRUE]
            /\ partRun' = [partRun EXCEPT ![r] = at("shown")]
  <2>1. ~together => reviewShot' = [id |-> r, whole |-> TRUE]
    <3>1. ASSUME ~together PROVE reviewShot = [id |-> r, whole |-> FALSE]
      BY <1>6, <1>14, <3>1
    <3>2. ~together => reviewShot' = [[id |-> r, whole |-> FALSE] EXCEPT !.whole = TRUE]
      BY <1>14, <3>1
    <3> QED
      BY <3>2
  <2>2. ~together => PartSettled(at("shown"), r, parts, reviewShot')
    BY <1>4, <2>1 DEF PartSettled
  <2> QED
    BY <1>1, <1>3, <1>4, <1>14, <2>2, ShotMoves DEF PartSettled, ShotSteps
<1> QED
  BY <1>2, <1>7, <1>8, <1>9, <1>10, <1>11, <1>12, <1>13, <1>14

-----------------------------------------------------------------------------
LEMMA PartPerson == ASSUME PartInv, P!Person PROVE PartInv'
<1>1. PICK p \in Products, t \in Locales : P!Add(p, t, <<"person", t>>)
  BY DEF P!Person
<1>2. /\ UNCHANGED <<reviewShot, partRun, written>>
      /\ together' = (together \/ \E s \in Run : partRun[s] # P!Idle)
  BY DEF P!Person, P!Busy
<1>3. PartsKept
  BY <1>1, AddKeeps DEF Words
<1>4. \A s \in Run : PartFits(partRun'[s], parts')
  BY <1>2, <1>3, PartStillFits DEF PartInv
<1>5. ASSUME ~together'
      PROVE  PartAlone' /\ \A s \in Run : PartSettled(partRun'[s], s, parts', reviewShot')
  <2>1. \A s \in Run : partRun'[s] = P!Idle
    BY <1>2, <1>5
  <2> QED
    BY <2>1, PartIdle DEF PartAlone
<1> QED
  BY <1>2, <1>3, <1>4, <1>5 DEF PartInv, PartsKept

LEMMA PartsRest == ASSUME PartInv, UNCHANGED partVars PROVE PartInv'
<1>1. UNCHANGED <<parts, reviewShot, partRun, written, together>>
  BY DEF partVars
<1> QED
  BY <1>1 DEF PartInv, PartAlone

LEMMA PartsStep == PartInv /\ [P!Next]_partVars => PartInv'
<1> SUFFICES ASSUME PartInv, [P!Next]_partVars PROVE PartInv'
  OBVIOUS
<1>1. ASSUME NEW r \in Run,
             \/ P!create_subscription_localization(r) \/ P!create_iap_localization(r)
             \/ P!create_subscription_group_localization(r) \/ P!create_subscription_intro_offer(r)
             \/ P!pricing_create_subscription_localization(r) \/ P!pricing_create_iap_localization(r)
             \/ P!pricing_create_subscription_group_localization(r)
             \/ P!pricing_create_subscription_intro_offer(r)
      PROVE  PartInv'
  BY <1>1, OneStarts DEF P!create_subscription_localization, P!create_iap_localization,
     P!create_subscription_group_localization, P!create_subscription_intro_offer,
     P!pricing_create_subscription_localization, P!pricing_create_iap_localization,
     P!pricing_create_subscription_group_localization, P!pricing_create_subscription_intro_offer
<1>2. ASSUME NEW r \in Run,
             \/ P!update_subscription_localization(r) \/ P!update_iap_localization(r)
             \/ P!update_subscription_group_localization(r)
             \/ P!pricing_update_subscription_localization(r) \/ P!pricing_update_iap_localization(r)
             \/ P!pricing_update_subscription_group_localization(r)
      PROVE  PartInv'
  BY <1>2, OneStarts DEF P!update_subscription_localization, P!update_iap_localization,
     P!update_subscription_group_localization, P!pricing_update_subscription_localization,
     P!pricing_update_iap_localization, P!pricing_update_subscription_group_localization
<1>3. ASSUME NEW r \in Run,
             \/ P!delete_subscription_localization(r) \/ P!delete_iap_localization(r)
             \/ P!delete_subscription_group_localization(r) \/ P!delete_subscription_intro_offer(r)
             \/ P!pricing_delete_subscription_localization(r) \/ P!pricing_delete_iap_localization(r)
             \/ P!pricing_delete_subscription_group_localization(r)
             \/ P!pricing_delete_subscription_intro_offer(r)
      PROVE  PartInv'
  BY <1>3, OneStarts DEF P!delete_subscription_localization, P!delete_iap_localization,
     P!delete_subscription_group_localization, P!delete_subscription_intro_offer,
     P!pricing_delete_subscription_localization, P!pricing_delete_iap_localization,
     P!pricing_delete_subscription_group_localization, P!pricing_delete_subscription_intro_offer
<1>4. ASSUME NEW r \in Run,
             \/ P!bulk_sync_subscription_localizations(r) \/ P!bulk_sync_iap_localizations(r)
             \/ P!pricing_bulk_sync_subscription_localizations(r)
             \/ P!pricing_bulk_sync_iap_localizations(r)
      PROVE  PartInv'
  BY <1>4, BulkStarts DEF P!bulk_sync_subscription_localizations, P!bulk_sync_iap_localizations,
     P!pricing_bulk_sync_subscription_localizations, P!pricing_bulk_sync_iap_localizations
<1>5. ASSUME NEW r \in Run,
             \/ P!upload_subscription_review_screenshot(r) \/ P!upload_iap_review_screenshot(r)
             \/ P!pricing_upload_subscription_review_screenshot(r)
             \/ P!pricing_upload_iap_review_screenshot(r)
      PROVE  PartInv'
  BY <1>5, UploadStarts DEF P!upload_subscription_review_screenshot,
     P!upload_iap_review_screenshot, P!pricing_upload_subscription_review_screenshot,
     P!pricing_upload_iap_review_screenshot
<1>6. ASSUME NEW r \in Run,
             \/ P!PostSubText(r) \/ P!PostIapText(r) \/ P!PostGroupText(r) \/ P!PostOffer(r)
             \/ P!PatchSubText(r) \/ P!PatchIapText(r) \/ P!PatchGroupText(r)
             \/ P!DropSubText(r) \/ P!DropIapText(r) \/ P!DropGroupText(r) \/ P!DropOffer(r)
      PROVE  PartInv'
  BY <1>6, CreatesKeep, UpdatesKeep DEF P!PostSubText, P!PostIapText, P!PostGroupText,
     P!PostOffer, P!PatchSubText, P!PatchIapText, P!PatchGroupText, P!DropSubText,
     P!DropIapText, P!DropGroupText, P!DropOffer
<1>7. ASSUME NEW r \in Run, P!ListingFails(r) \/ P!Answer(r) \/ P!Dies(r)
      PROVE  PartInv'
  <2>1. /\ partRun' = [partRun EXCEPT ![r] = P!Idle] /\ UNCHANGED <<together, parts, written>>
        /\ partRun[r].pc # "idle" \/ partRun[r] # P!Idle
    BY <1>7 DEF P!ListingFails, P!Answer, P!Dies, P!To, P!Calling
  <2>2. partRun[r].pc # "idle"
    BY <2>1 DEF PartInv, PartFits
  <2> QED
    BY <2>1, <2>2, PartEnds
<1>8. ASSUME NEW r \in Run,
             \/ P!AssertMember(r) \/ P!ListAll(r) \/ P!Item(r) \/ P!BulkDone(r)
             \/ P!LookSub(r) \/ P!LookIap(r) \/ P!Drop(r) \/ P!Reserve(r) \/ P!PutBinary(r)
             \/ P!CommitShot(r)
      PROVE  PartInv'
  BY <1>8, AssertKeeps, ListKeeps, ItemKeeps, BulkDoneKeeps, ShotKeeps
<1> QED
  BY <1>1, <1>2, <1>3, <1>4, <1>5, <1>6, <1>7, <1>8, PartPerson, PartsRest DEF P!Next

LEMMA AnswersFollow == PartInv => P!AnsweredIsThere
<1> SUFFICES ASSUME PartInv PROVE P!AnsweredIsThere
  OBVIOUS
<1>1. ASSUME NEW r \in Run, partRun[r].pc = "answer"
      PROVE  /\ partRun[r].saved \cup partRun[r].failed = partRun[r].asked
             /\ ~together => \A t \in partRun[r].saved :
                  \/ \E u \in partRun[r].asked \ {t} : Lang[u] = Lang[t]
                  \/ \E i \in P!Of(partRun[r].of) :
                       parts[i].text = <<r, t>> /\ Lang[parts[i].locale] = Lang[t]
  <2>1. BulkOK(partRun[r], parts) /\ Left(<< >>) = {}
    BY <1>1 DEF PartInv, PartFits, Left
  <2>2. partRun[r].saved \cup partRun[r].failed = partRun[r].asked
    BY <1>1, <2>1 DEF BulkOK
  <2>3. ~together => Saved(partRun[r], r, parts)
    BY <1>1 DEF PartInv, PartSettled
  <2> QED
    BY <2>2, <2>3 DEF Saved, P!Of
<1>2. P!SavedIsThere
  BY <1>1 DEF PartInv, P!SavedIsThere
<1>3. P!ShotArrives
  BY DEF PartInv, PartSettled, P!ShotArrives
<1> QED
  BY <1>2, <1>3 DEF P!AnsweredIsThere

\* PartInv: whose parts a request holds, and what one that is alone has done.
THEOREM PartsInductive == MCSpec => []PartInv
<1>1. MCInit => PartInv
  BY PartsInitially DEF MCInit, Resting
<1>2. [MCNext]_<<explored, vars, catalogVars, partVars>> => [P!Next]_partVars
  BY DEF MCNext, CloneRuns, CatalogStep, PartStep, partVars
<1> QED
  BY <1>1, <1>2, PartsStep, PTL DEF MCSpec

\* No request changes a part of another product; a bulk write answers for every locale it
\* was asked for, and unless something overlapped, what it counted as saved is there, and
\* the screenshot that an upload answers for is there and whole.
THEOREM AnswersHold == MCSpec => []AnsweredIsThere
<1>1. PartInv => AnsweredIsThere
  BY AnswersFollow DEF AnsweredIsThere
<1> QED
  BY <1>1, PartsInductive, PTL

-----------------------------------------------------------------------------
(***************************************************************************)
(* The services.  A step is one of theirs or leaves all of theirs alone,   *)
(* so that what RcSwapProofs proves of each holds here.                    *)
(***************************************************************************)

LEMMA ServicesBegin == AllInit => Services!MCInit
  BY DEF AllInit

LEMMA ServicesMove ==
  [AllNext]_<<beside, appStoreVars, serviceVars>> =>
    [Services!MCNext]_<<service, Services!vars, Services!surfaceVars, Services!adVars>>
  BY DEF AllNext, AppStoreStep, ServiceStep, serviceVars, Services!vars,
     Services!surfaceVars, Services!adVars

LEMMA ServicesRun == AllSpec => Services!MCSpec
  BY ServicesBegin, ServicesMove, PTL DEF AllSpec, Services!MCSpec

LEMMA SwapsRun == AllSpec => Services!Spec
<1>1. AllInit => Services!Init
  BY DEF AllInit, Services!MCInit
<1>2. [AllNext]_<<beside, appStoreVars, serviceVars>> => [Services!Next]_(Services!vars)
  BY ServicesMove DEF Services!MCNext, Services!SwapStep, Services!CallStep,
     Services!AdStep
<1> QED
  BY <1>1, <1>2, PTL DEF AllSpec, Services!Spec

\* Overlapping and repeated RevenueCat swaps implement Handover: the old product is taken
\* from a holder only where the new one was given to it, or a failure is on record.
THEOREM SwapHandsOver == AllSpec => HandsOver
  BY SwapsRun, ServicesSetting, Services!SwapHandsOver, PTL DEF HandsOver

\* A RevenueCat swap that reports no error has moved every holder it found.
THEOREM CleanSwapCorrect == AllSpec => []CleanSwapMovesWhatItFound
  BY SwapsRun, ServicesSetting, Services!CleanSwapCorrect, PTL
     DEF CleanSwapMovesWhatItFound

\* A holder left with neither product is on some run's record, or a run has died.
THEOREM LossReported == AllSpec => []LossIsReported
  BY SwapsRun, ServicesSetting, Services!LossReported, PTL DEF LossIsReported

\* Unless two requests change it at the same time, an app has the credential it is linked
\* to and no other secret of its own is kept, whoever sets, changes, tests or deletes it.
THEOREM OneSecretKept == AllSpec => []OneSecret
  BY ServicesRun, ServicesSetting, Services!OneSecretKept, PTL DEF OneSecret

\* What a call answers is what RevenueCat did, however often it was rate limited, failed
\* or was cut off, for lists of any number of pages.
THEOREM CallsSayWhatWasDone == AllSpec => []CallSaysWhatWasDone
  BY ServicesRun, ServicesSetting, Services!CallsSayWhatWasDone, PTL
     DEF CallSaysWhatWasDone

\* Whatever is changed at Apple meanwhile and whatever other requests do, a Search Ads sync
\* that has recorded no error commits the account it listed, with every day of its window;
\* and no row is removed of a negative that Apple still has.
THEOREM AccountKept == AllSpec => []AccountIsMirrored
  BY ServicesRun, ServicesSetting, Services!AccountKept, PTL DEF AccountIsMirrored

=============================================================================
