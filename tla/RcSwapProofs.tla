---------------------------- MODULE RcSwapProofs -----------------------------
(***************************************************************************)
(* What holds of the two services beside App Store Connect, for every      *)
(* number of requests, overlapping in any way.                             *)
(***************************************************************************)
EXTENDS MCRcSwap, TLAPS

-----------------------------------------------------------------------------
(***************************************************************************)
(* The RevenueCat swap.  Its inductive invariant follows each run through  *)
(* its two loops: what it found held the old product at the start, what    *)
(* the attach loop has left behind holds the new product, what the detach  *)
(* loop has left behind does not hold the old one -- unless the run has an *)
(* error on record.                                                        *)
(***************************************************************************)

FoundHeld ==
  \A r \in Run : /\ found[r] \subseteq Held
                 /\ pc[r] \in {"attach", "detach"} => todo[r] \subseteq found[r]

NothingFoundYet == \A r \in Run : pc[r] \in {"idle", "find_old"} => found[r] = {}

AttachedSoFar ==
  \A r \in Run : pc[r] \in {"attach", "detach", "archive", "done"} /\ ~errs[r] =>
    \A h \in found[r] : (pc[r] = "attach" /\ h \in todo[r]) \/ "new" \in att[h]

DetachedSoFar ==
  \A r \in Run : pc[r] \in {"detach", "archive", "done"} /\ ~errs[r] =>
    \A h \in found[r] : (pc[r] = "detach" /\ h \in todo[r]) \/ "old" \notin att[h]

RcInv ==
  /\ TypeOK
  /\ FoundHeld
  /\ NothingFoundYet
  /\ AttachedSoFar
  /\ DetachedSoFar
  /\ NothingGained
  /\ LossIsReported

-----------------------------------------------------------------------------
LEMMA RcInitially == ASSUME Setting PROVE Init => RcInv
  BY ZenonT(120) DEF Setting, Init, RcInv, TypeOK, FoundHeld, NothingFoundYet,
     AttachedSoFar, DetachedSoFar, NothingGained, LossIsReported, Phase,
     Holder

\* What lists as holding the old product held it at the start.
LEMMA HoldingHeld == ASSUME RcInv, NEW T \in SUBSET Holder
                     PROVE  Holding(T) \subseteq Held /\ Holding(T) \subseteq Holder
  BY DEF Holding, RcInv, NothingGained

LEMMA RcStep == ASSUME Setting PROVE RcInv /\ [Next]_vars => RcInv'
<1> SUFFICES ASSUME RcInv, [Next]_vars PROVE RcInv'
  OBVIOUS
<1> USE DEF Holder, Phase, Goto, Record, GiveUp, rcVars
<1>u. CASE UNCHANGED vars
  BY <1>u DEF vars, RcInv, TypeOK, FoundHeld, NothingFoundYet, AttachedSoFar,
     DetachedSoFar, NothingGained, LossIsReported
<1>1. ASSUME NEW r \in Run,
             StartSwap(r) \/ FindOld(r) \/ FindNew(r) \/ CreateNew(r)
               \/ StartArchive(r) \/ ArchiveOld(r) \/ Abort(r)
      PROVE  RcInv'
  <2>1. TypeOK'
    <3>1. CASE StartSwap(r) \/ StartArchive(r)
      BY <3>1 DEF RcInv, TypeOK, StartSwap, StartArchive
    <3>2. CASE FindOld(r) \/ FindNew(r)
      BY <3>2 DEF RcInv, TypeOK, FindOld, FindNew
    <3>3. CASE Abort(r)
      BY <3>3 DEF RcInv, TypeOK, Abort
    <3>4. CASE CreateNew(r)
      <4>1. product' \in [{"old", "new"} -> {"none", "active", "archived"}]
        BY <3>4 DEF RcInv, TypeOK, CreateNew
      <4>2. /\ pc' \in [Run -> Phase] /\ errs' \in [Run -> BOOLEAN]
            /\ UNCHANGED <<att, found, todo>>
        BY <3>4 DEF RcInv, TypeOK, CreateNew
      <4> QED
        BY <4>1, <4>2 DEF RcInv, TypeOK
    <3>5. CASE ArchiveOld(r)
      <4>1. product' \in [{"old", "new"} -> {"none", "active", "archived"}]
        BY <3>5 DEF RcInv, TypeOK, ArchiveOld
      <4>2. /\ pc' \in [Run -> Phase] /\ errs' \in [Run -> BOOLEAN]
            /\ UNCHANGED <<att, found, todo>>
        BY <3>5 DEF RcInv, TypeOK, ArchiveOld
      <4> QED
        BY <4>1, <4>2 DEF RcInv, TypeOK
    <3> QED
      BY <1>1, <3>1, <3>2, <3>3, <3>4, <3>5
  <2> QED
    BY <1>1, <2>1 DEF RcInv, TypeOK, FoundHeld, NothingFoundYet, AttachedSoFar,
       DetachedSoFar, NothingGained, LossIsReported, StartSwap, FindOld,
       FindNew, CreateNew, StartArchive, ArchiveOld, Abort
<1>2. ASSUME NEW r \in Run, ListEntitlements(r) PROVE RcInv'
  <2>1. Holding(Entitlement) \subseteq Held /\ Holding(Entitlement) \subseteq Holder
    BY HoldingHeld
  <2>a. found' \in [Run -> SUBSET Holder]
    <3>1. Holding(Entitlement) \in SUBSET Holder
      BY <2>1
    <3> QED
      BY <1>2, <3>1 DEF RcInv, TypeOK, ListEntitlements
  <2>2. TypeOK'
    BY <1>2, <2>a DEF RcInv, TypeOK, ListEntitlements
  <2> QED
    BY <1>2, <2>1, <2>2 DEF RcInv, TypeOK, FoundHeld, NothingFoundYet,
       AttachedSoFar, DetachedSoFar, NothingGained, LossIsReported,
       ListEntitlements
<1>3. ASSUME NEW r \in Run, ListPackages(r) PROVE RcInv'
  <2>1. Holding(Package) \subseteq Held /\ Holding(Package) \subseteq Holder
    BY HoldingHeld
  <2>2. PICK listed \in SUBSET Offering :
          LET all == found[r] \cup {p \in Holding(Package) : OfferingOf[p] \in listed}
          IN  /\ found' = [found EXCEPT ![r] = all]
              /\ todo' = [todo EXCEPT ![r] = all]
    BY <1>3 DEF ListPackages
  <2>3. TypeOK'
    BY <1>3, <2>1, <2>2 DEF RcInv, TypeOK, ListPackages
  <2> QED
    BY <1>3, <2>1, <2>2, <2>3 DEF RcInv, TypeOK, FoundHeld, NothingFoundYet,
       AttachedSoFar, DetachedSoFar, NothingGained, LossIsReported,
       ListPackages
<1>4. ASSUME NEW r \in Run, NEW h \in Holder, AttachNew(r, h) PROVE RcInv'
  <2>a. att[h] \cup {"new"} \in SUBSET {"old", "new"} /\ todo[r] \ {h} \in SUBSET Holder
    BY DEF RcInv, TypeOK
  <2>b. att' \in {att, [att EXCEPT ![h] = att[h] \cup {"new"}]}
    BY <1>4 DEF AttachNew
  <2>1. TypeOK'
    <3>1. att' \in [Holder -> SUBSET {"old", "new"}]
      BY <2>a, <2>b DEF RcInv, TypeOK
    <3>2. todo' \in [Run -> SUBSET Holder]
      BY <1>4, <2>a DEF RcInv, TypeOK, AttachNew
    <3>3. errs' \in [Run -> BOOLEAN]
      BY <1>4 DEF RcInv, TypeOK, AttachNew
    <3> QED
      BY <1>4, <3>1, <3>2, <3>3 DEF RcInv, TypeOK, AttachNew
  <2>2. FoundHeld' /\ NothingFoundYet' /\ NothingGained'
    <3>1. FoundHeld' /\ NothingFoundYet'
      BY <1>4 DEF RcInv, TypeOK, FoundHeld, NothingFoundYet, AttachNew
    <3>2. h \in Held
      BY <1>4 DEF RcInv, FoundHeld, AttachNew
    <3>3. NothingGained'
      BY <2>b, <3>2 DEF RcInv, TypeOK, NothingGained
    <3> QED
      BY <3>1, <3>3
  <2>3. AttachedSoFar' /\ DetachedSoFar'
    BY <1>4 DEF RcInv, TypeOK, AttachedSoFar, DetachedSoFar, AttachNew
  <2>4. LossIsReported'
    <3>1. \A q \in Run : errs[q] => errs'[q]
      BY <1>4 DEF RcInv, TypeOK, AttachNew
    <3>2. \A g \in Held : att'[g] = {} => att[g] = {}
      BY <2>b DEF Setting, RcInv, TypeOK
    <3> QED
      BY <1>4, <3>1, <3>2 DEF RcInv, LossIsReported, AttachNew
  <2> QED
    BY <2>1, <2>2, <2>3, <2>4 DEF RcInv
<1>5. ASSUME NEW r \in Run, StartDetach(r) PROVE RcInv'
  <2>1. TypeOK'
    BY <1>5 DEF RcInv, TypeOK, StartDetach
  <2> QED
    BY <1>5, <2>1 DEF RcInv, TypeOK, FoundHeld, NothingFoundYet, AttachedSoFar,
       DetachedSoFar, NothingGained, LossIsReported, StartDetach
<1>6. ASSUME NEW r \in Run, NEW h \in Holder, DetachOld(r, h) PROVE RcInv'
  <2>a. att[h] \ {"old"} \in SUBSET {"old", "new"} /\ todo[r] \ {h} \in SUBSET Holder
    BY DEF RcInv, TypeOK
  <2>b. att' \in {att, [att EXCEPT ![h] = att[h] \ {"old"}]}
    BY <1>6 DEF DetachOld
  <2>1. TypeOK'
    <3>1. att' \in [Holder -> SUBSET {"old", "new"}]
      BY <2>a, <2>b DEF RcInv, TypeOK
    <3>2. todo' \in [Run -> SUBSET Holder]
      BY <1>6, <2>a DEF RcInv, TypeOK, DetachOld
    <3>3. errs' \in [Run -> BOOLEAN]
      BY <1>6 DEF RcInv, TypeOK, DetachOld
    <3> QED
      BY <1>6, <3>1, <3>2, <3>3 DEF RcInv, TypeOK, DetachOld
  <2>2. FoundHeld' /\ NothingFoundYet' /\ NothingGained'
    <3>1. FoundHeld' /\ NothingFoundYet'
      BY <1>6 DEF RcInv, TypeOK, FoundHeld, NothingFoundYet, DetachOld
    <3>2. h \in Held
      BY <1>6 DEF RcInv, FoundHeld, DetachOld
    <3>3. NothingGained'
      BY <2>b, <3>2 DEF RcInv, TypeOK, NothingGained
    <3> QED
      BY <3>1, <3>3
  <2>3. AttachedSoFar' /\ DetachedSoFar'
    BY <1>6 DEF RcInv, TypeOK, AttachedSoFar, DetachedSoFar, DetachOld
  <2>4. LossIsReported'
    <3>1. \A q \in Run : errs[q] => errs'[q]
      BY <1>6 DEF RcInv, TypeOK, DetachOld
    <3>2. CASE errs[r]
      BY <3>1, <3>2 DEF LossIsReported
    <3>3. CASE ~errs[r]
      <4>1. h \in found[r] => "new" \in att[h]
        BY <1>6, <3>3 DEF RcInv, AttachedSoFar, DetachOld
      <4>2. h \in found[r]
        BY <1>6 DEF RcInv, FoundHeld, DetachOld
      <4>3. \A g \in Held : att'[g] = {} => att[g] = {}
        BY <2>b, <4>1, <4>2 DEF Setting, RcInv, TypeOK
      <4> QED
        BY <1>6, <3>1, <4>3 DEF RcInv, LossIsReported, DetachOld
    <3> QED
      BY <3>2, <3>3
  <2> QED
    BY <2>1, <2>2, <2>3, <2>4 DEF RcInv
<1> QED
  BY <1>u, <1>1, <1>2, <1>3, <1>4, <1>5, <1>6 DEF Next, Step

\* RcInv ties what each holder references to where every run is.
THEOREM RcInductive == ASSUME Setting PROVE Spec => []RcInv
  BY RcInitially, RcStep, PTL DEF Spec
\* A failure on record stays on record, if only as a run that died.
LEMMA BlameStays ==
  ASSUME TypeOK, [Next]_vars, NEW r \in Run, errs[r] \/ pc[r] = "aborted"
  PROVE  errs'[r] \/ pc'[r] = "aborted"
<1> USE DEF TypeOK, Phase, Goto, Record, GiveUp, rcVars, Active
<1>u. CASE UNCHANGED vars
  BY <1>u DEF vars
<1>1. ASSUME NEW q \in Run, StartSwap(q) PROVE errs'[r] \/ pc'[r] = "aborted"
  BY <1>1 DEF StartSwap
<1>2. ASSUME NEW q \in Run, FindOld(q) PROVE errs'[r] \/ pc'[r] = "aborted"
  BY <1>2 DEF FindOld
<1>3. ASSUME NEW q \in Run, FindNew(q) PROVE errs'[r] \/ pc'[r] = "aborted"
  BY <1>3 DEF FindNew
<1>4. ASSUME NEW q \in Run, CreateNew(q) PROVE errs'[r] \/ pc'[r] = "aborted"
  BY <1>4 DEF CreateNew
<1>5. ASSUME NEW q \in Run, ListEntitlements(q) PROVE errs'[r] \/ pc'[r] = "aborted"
  BY <1>5 DEF ListEntitlements
<1>6. ASSUME NEW q \in Run, ListPackages(q) PROVE errs'[r] \/ pc'[r] = "aborted"
  BY <1>6 DEF ListPackages
<1>7. ASSUME NEW q \in Run, NEW h \in Holder, AttachNew(q, h) \/ DetachOld(q, h)
      PROVE  errs'[r] \/ pc'[r] = "aborted"
  BY <1>7 DEF AttachNew, DetachOld
<1>8. ASSUME NEW q \in Run, StartDetach(q) \/ StartArchive(q)
      PROVE  errs'[r] \/ pc'[r] = "aborted"
  BY <1>8 DEF StartDetach, StartArchive
<1>9. ASSUME NEW q \in Run, ArchiveOld(q) PROVE errs'[r] \/ pc'[r] = "aborted"
  BY <1>9 DEF ArchiveOld
<1>10. ASSUME NEW q \in Run, Abort(q) PROVE errs'[r] \/ pc'[r] = "aborted"
  BY <1>10 DEF Abort
<1> QED
  BY <1>u, <1>1, <1>2, <1>3, <1>4, <1>5, <1>6, <1>7, <1>8, <1>9, <1>10 DEF Next, Step

\* What a step does to the holders: it gives a holder of the old product the new one,
\* or takes the old one where the new one is or an error is on record.
LEMMA HolderSteps ==
  ASSUME RcInv, [Next]_vars
  PROVE  UNCHANGED att \/ \E h \in Held : Access!Give(h) \/ Access!Take(h)
<1>1. ASSUME NEW r \in Run, NEW h \in Holder, AttachNew(r, h)
      PROVE  UNCHANGED att \/ (h \in Held /\ Access!Give(h))
  BY <1>1 DEF RcInv, FoundHeld, AttachNew, Access!Give
<1>2. ASSUME NEW r \in Run, NEW h \in Holder, DetachOld(r, h)
      PROVE  UNCHANGED att \/ (h \in Held /\ Access!Take(h))
  <2>1. h \in Held /\ h \in found[r] /\ h \in todo[r] /\ pc[r] = "detach"
    BY <1>2 DEF RcInv, FoundHeld, DetachOld
  <2>2. errs[r] \/ "new" \in att[h]
    BY <2>1 DEF RcInv, AttachedSoFar
  <2>3. UNCHANGED att \/ att' = [att EXCEPT ![h] = @ \ {"old"}]
    BY <1>2 DEF DetachOld
  <2> QED
    BY <2>1, <2>2, <2>3 DEF Access!Take
<1>3. ASSUME NEW r \in Run,
             \/ StartSwap(r) \/ FindOld(r) \/ FindNew(r) \/ CreateNew(r) \/ ListEntitlements(r)
             \/ ListPackages(r) \/ StartDetach(r) \/ StartArchive(r) \/ ArchiveOld(r) \/ Abort(r)
      PROVE  UNCHANGED att
  BY <1>3 DEF rcVars, StartSwap, FindOld, FindNew, CreateNew, ListEntitlements, ListPackages,
     StartDetach, StartArchive, ArchiveOld, Abort
<1> QED
  BY <1>1, <1>2, <1>3 DEF Next, Step, vars

LEMMA HandoverBegins == Init => Access!Init
  BY DEF Init, Access!Init

LEMMA HandoverSteps == ASSUME RcInv, [Next]_vars PROVE [Access!Next]_(Access!vars)
<1>1. (\E r \in Run : errs[r] \/ pc[r] = "aborted")
        => \E r \in Run : errs'[r] \/ pc'[r] = "aborted"
  BY BlameStays DEF RcInv
<1> QED
  BY <1>1, HolderSteps DEF Access!Next

\* The swap implements Handover, for any number of overlapping or repeated runs and
\* whatever RevenueCat refuses: no step takes the old product from a holder that has
\* not the new one without an error on record (swap.py, steps 4 to 6).
THEOREM SwapHandsOver == ASSUME Setting PROVE Spec => HandsOver
<1>1. RcInv /\ [Next]_vars => RcInv' /\ [Access!Next]_(Access!vars)
  BY RcStep, HandoverSteps
<1> QED
  BY <1>1, RcInitially, HandoverBegins, PTL DEF Spec, HandsOver, Access!Spec

-----------------------------------------------------------------------------
LEMMA CleanSwapFollows == RcInv => CleanSwapMovesWhatItFound
  BY DEF RcInv, TypeOK, FoundHeld, AttachedSoFar, DetachedSoFar,
     CleanSwapMovesWhatItFound

\* A swap that reports no error has moved every holder it found, for any
\* number of overlapping or repeated swaps (swap.py, steps 4 to 6).
THEOREM CleanSwapCorrect == ASSUME Setting PROVE Spec => []CleanSwapMovesWhatItFound
  BY CleanSwapFollows, RcInductive, PTL

\* No entitlement or package that did not hold the old product comes to hold
\* the new one.
THEOREM NothingGainedCorrect == ASSUME Setting PROVE Spec => []NothingGained
<1>1. RcInv => NothingGained
  BY DEF RcInv
<1> QED
  BY <1>1, RcInductive, PTL

\* A holder left with neither product has a run that reported an error or died.
THEOREM LossReported == ASSUME Setting PROVE Spec => []LossIsReported
<1>1. RcInv => LossIsReported
  BY DEF RcInv
<1> QED
  BY <1>1, RcInductive, PTL
-----------------------------------------------------------------------------
(***************************************************************************)
(* The calls that are passed on to RevenueCat, and the credential they are *)
(* passed on with.  The invariant: what a call has done and what is left   *)
(* of it make its size until it is answered; and as long as no two         *)
(* requests have changed the credential at once, the one that is at it     *)
(* has read what is linked now.                                            *)
(***************************************************************************)

Answering == {"ok", "refused", "429", "5xx", "network"}

\* The state of a request has the fields its step reads, and its counts agree.
CallOK(c) ==
  /\ "pc" \in DOMAIN c
  /\ c.pc \in {"idle", "commit", "send"} \cup Answering
  /\ c.pc = "idle" => c = S!Idle
  /\ c.pc = "commit" => {"change", "seen"} \subseteq DOMAIN c
  /\ c.pc \in {"send"} \cup Answering =>
       /\ {"did", "left", "size", "do", "tries"} \subseteq DOMAIN c
       /\ c.did \in Nat /\ c.size \in Nat /\ c.did <= c.size
       /\ c.do # "list" => c.size = 1
  /\ c.pc = "send" => c.left \in Nat \ {0} /\ c.did + c.left = c.size
  /\ c.pc = "ok" => c.did = c.size
  /\ c.pc \in {"refused", "429"} /\ c.do # "list" => c.did = 0

\* Without an overlap one request at a time is at the credential, and it has
\* read what is linked now.
OneWriter ==
  ~overlap =>
    \A r \in Run : run[r].pc = "commit" =>
      /\ run[r].seen = link
      /\ \A s \in Run \ {r} : run[s].pc # "commit"

SurfaceInv ==
  /\ rows \in Nat /\ link \in 0..rows /\ overlap \in BOOLEAN
  /\ DOMAIN run = Run
  /\ \A r \in Run : CallOK(run[r])
  /\ OneWriter
  /\ S!OneSecret

LEMMA SurfaceInitially == S!Init => SurfaceInv
<1> SUFFICES ASSUME S!Init PROVE SurfaceInv
  OBVIOUS
<1>1. \A r \in Run : run[r] = S!Idle /\ run[r].pc = "idle" /\ "pc" \in DOMAIN run[r]
  BY DEF S!Init, S!Idle
<1>2. DOMAIN run = Run /\ (\A r \in Run : CallOK(run[r])) /\ OneWriter
  BY <1>1 DEF S!Init, CallOK, OneWriter, Answering
<1>3. rows \in Nat /\ link \in 0..rows
  BY DEF S!Init
<1>4. overlap \in BOOLEAN /\ S!OneSecret
  BY Zenon DEF S!Init, S!OneSecret
<1> QED
  BY <1>2, <1>3, <1>4 DEF SurfaceInv

\* A request goes on and leaves the credential alone.
LEMMA CallMoves ==
  ASSUME SurfaceInv, NEW r \in Run, NEW c, CallOK(c), c.pc # "commit",
         run' = [run EXCEPT ![r] = c], UNCHANGED <<creds, link, rows, overlap>>
  PROVE  SurfaceInv'
<1>1. /\ DOMAIN run' = Run /\ run'[r] = c
      /\ \A s \in Run \ {r} : run'[s] = run[s]
  BY DEF SurfaceInv
<1>2. \A s \in Run : CallOK(run'[s])
  BY <1>1 DEF SurfaceInv
<1>3. OneWriter'
  BY <1>1 DEF SurfaceInv, OneWriter
<1>4. S!OneSecret'
  BY DEF SurfaceInv, S!OneSecret
<1> QED
  BY <1>1, <1>2, <1>3, <1>4, Zenon DEF SurfaceInv, CallOK

LEMMA IdleCallOK == CallOK(S!Idle) /\ S!Idle.pc = "idle"
  BY DEF CallOK, S!Idle, Answering

LEMMA CallStarts ==
  ASSUME CallSetting, SurfaceInv, NEW r \in Run, NEW thing, NEW do, S!Calls(r, thing, do)
  PROVE  SurfaceInv'
<1>1. PICK p \in RcProducts, n \in 1..MaxPages :
        /\ do # "list" => n = 1
        /\ run' = [run EXCEPT ![r] =
                     [pc |-> "send", thing |-> thing, do |-> do, product |-> p, tries |-> 0,
                      did |-> 0, left |-> n, size |-> n]]
  BY DEF S!Calls, S!Start, S!To
<1> DEFINE c == [pc |-> "send", thing |-> thing, do |-> do, product |-> p, tries |-> 0,
                 did |-> 0, left |-> n, size |-> n]
<1>2. n \in Nat \ {0}
  BY DEF CallSetting
<1>3. CallOK(c) /\ c.pc = "send"
  BY <1>1, <1>2 DEF CallOK, Answering
<1>4. UNCHANGED <<creds, link, rows, overlap>>
  BY DEF S!Calls, S!Start, S!dbVars
<1> HIDE DEF c
<1> QED
  BY <1>1, <1>3, <1>4, CallMoves DEF c

LEMMA WriteStarts ==
  ASSUME SurfaceInv, NEW r \in Run, NEW change, S!Writes(r, change)
  PROVE  SurfaceInv'
<1> DEFINE c == [pc |-> "commit", change |-> change,
                 seen |-> IF S!Linked THEN link ELSE 0, had |-> link]
<1>1. run' = [run EXCEPT ![r] = c] /\ UNCHANGED <<creds, link, rows>>
  BY DEF S!Writes, S!Start, S!To, S!dbVars
<1>2. overlap' \in BOOLEAN /\ (overlap => overlap')
      /\ (~overlap' => \A s \in Run : run[s].pc # "commit")
  BY Zenon DEF S!Writes
<1>3. CallOK(c) /\ c.pc = "commit" /\ c.seen = IF S!Linked THEN link ELSE 0
  BY DEF CallOK, Answering
<1> HIDE DEF c
<1>4. /\ DOMAIN run' = Run /\ run'[r] = c
      /\ \A s \in Run \ {r} : run'[s] = run[s]
  BY <1>1 DEF SurfaceInv
<1>5. \A s \in Run : CallOK(run'[s])
  BY <1>3, <1>4 DEF SurfaceInv
<1>6. S!OneSecret'
  BY <1>1, <1>2 DEF SurfaceInv, S!OneSecret
<1>7. ~overlap => c.seen = link
  BY <1>3 DEF SurfaceInv, S!OneSecret, S!Linked
<1>8. OneWriter'
  BY <1>1, <1>2, <1>4, <1>7 DEF OneWriter
<1>9. (rows \in Nat /\ link \in 0..rows)'
  BY <1>1 DEF SurfaceInv
<1> QED
  BY <1>2, <1>4, <1>5, <1>6, <1>8, <1>9, Zenon DEF SurfaceInv, CallOK

LEMMA CommitKeeps == ASSUME SurfaceInv, NEW r \in Run, S!Commit(r) PROVE SurfaceInv'
<1>1. run[r].pc = "commit" /\ run' = [run EXCEPT ![r] = S!Idle] /\ overlap' = overlap
  BY DEF S!Commit, S!To
<1>2. /\ DOMAIN run' = Run /\ run'[r] = S!Idle
      /\ \A s \in Run \ {r} : run'[s] = run[s]
  BY <1>1 DEF SurfaceInv
<1>3. \A s \in Run : CallOK(run'[s])
  BY <1>2, IdleCallOK DEF SurfaceInv
<1>4. \/ run[r].seen = 0 /\ creds' = creds \cup {rows + 1} /\ rows' = rows + 1 /\ link' = rows + 1
      \/ link' = 0 /\ creds' = creds \ {run[r].seen} /\ rows' = rows
      \/ UNCHANGED <<creds, link, rows>>
  BY DEF S!Commit, S!Insert, S!Unlinked, S!dbVars
<1>5. (rows \in Nat /\ link \in 0..rows)'
  BY <1>4 DEF SurfaceInv
<1>6. ~overlap => run[r].seen = link /\ \A s \in Run \ {r} : run[s].pc # "commit"
  BY <1>1 DEF SurfaceInv, OneWriter
<1>7. S!OneSecret'
  BY <1>1, <1>4, <1>6 DEF SurfaceInv, S!OneSecret
<1>8. OneWriter'
  BY <1>1, <1>2, <1>6, IdleCallOK DEF OneWriter
<1>9. overlap' \in BOOLEAN
  BY <1>1 DEF SurfaceInv
<1> QED
  BY <1>2, <1>3, <1>5, <1>7, <1>8, <1>9, Zenon DEF SurfaceInv, CallOK

LEMMA SendKeeps ==
  ASSUME SurfaceInv, NEW r \in Run,
         S!Done(r) \/ S!Refused(r) \/ S!RateLimited(r) \/ S!Unknown(r)
  PROVE  SurfaceInv'
<1> DEFINE c == run[r]
<1>0. /\ CallOK(c) /\ c.pc = "send" /\ UNCHANGED <<creds, link, rows, overlap>>
  BY DEF SurfaceInv, S!Done, S!Refused, S!RateLimited, S!Unknown, S!dbVars
<1>1. /\ {"pc", "did", "left", "size", "do", "tries"} \subseteq DOMAIN c
      /\ c.did \in Nat /\ c.size \in Nat /\ c.left \in Nat \ {0} /\ c.did + c.left = c.size
      /\ c.do # "list" => c.size = 1
  BY <1>0 DEF CallOK
<1>2. ASSUME NEW d, run' = [run EXCEPT ![r] = d], d.pc # "commit", CallOK(d)
      PROVE  SurfaceInv'
  BY <1>0, <1>2, CallMoves
<1>3. CASE S!Done(r)
  <2> DEFINE done == [c EXCEPT !.did = @ + 1, !.left = @ - 1]
             d == IF done.left > 0 THEN [done EXCEPT !.tries = 0] ELSE [done EXCEPT !.pc = "ok"]
  <2>1. run' = [run EXCEPT ![r] = d]
    BY <1>3 DEF S!Done, S!Did, S!To
  <2>2. /\ DOMAIN done = DOMAIN c /\ done.pc = "send" /\ done.did = c.did + 1
        /\ done.left = c.left - 1 /\ done.size = c.size /\ done.do = c.do
    BY <1>0, <1>1
  <2> HIDE DEF done, c
  <2>3. CASE done.left > 0
    <3>1. /\ DOMAIN d = DOMAIN c /\ d.pc = "send" /\ d.did = c.did + 1
          /\ d.left = c.left - 1 /\ d.size = c.size /\ d.do = c.do
      BY <2>2, <2>3
    <3> HIDE DEF d
    <3>2. CallOK(d)
      BY <1>1, <2>2, <2>3, <3>1 DEF CallOK, Answering
    <3> QED
      BY <1>2, <2>1, <3>1, <3>2
  <2>4. CASE ~(done.left > 0)
    <3>1. /\ DOMAIN d = DOMAIN c /\ d.pc = "ok" /\ d.did = c.did + 1
          /\ d.left = c.left - 1 /\ d.size = c.size /\ d.do = c.do
      BY <1>1, <2>2, <2>4
    <3> HIDE DEF d
    <3>2. CallOK(d)
      BY <1>1, <2>2, <2>4, <3>1 DEF CallOK, Answering
    <3> QED
      BY <1>2, <2>1, <3>1, <3>2
  <2> QED
    BY <2>3, <2>4
<1>4. ASSUME NEW d, NEW k \in {0, 1}, DOMAIN d = DOMAIN c, d.pc \in Answering \ {"ok"},
             d.did = c.did + k, d.size = c.size, d.do = c.do,
             d.pc \in {"refused", "429"} => k = 0, run' = [run EXCEPT ![r] = d]
      PROVE  SurfaceInv'
  <2>1. CallOK(d)
    <3> HIDE DEF c
    <3> QED
      BY <1>1, <1>4 DEF CallOK, Answering
  <2> QED
    BY <1>2, <1>4, <2>1 DEF Answering
<1>5. CASE S!Refused(r)
  <2>1. run' = [run EXCEPT ![r] = [c EXCEPT !.pc = "refused"]]
    BY <1>5 DEF S!Refused, S!Ends, S!To
  <2> DEFINE d == [c EXCEPT !.pc = "refused"]
  <2>2. /\ DOMAIN d = DOMAIN c /\ d.pc = "refused" /\ d.did = c.did + 0
        /\ d.size = c.size /\ d.do = c.do /\ run' = [run EXCEPT ![r] = d]
    BY <1>1, <2>1
  <2> HIDE DEF d, c
  <2> QED
    BY <1>4, <2>2 DEF Answering
<1>6. CASE S!RateLimited(r)
  <2>1. \/ run' = [run EXCEPT ![r] = [c EXCEPT !.pc = "429"]]
        \/ run' = [run EXCEPT ![r] = [c EXCEPT !.tries = @ + 1]]
    BY <1>6 DEF S!RateLimited, S!Failed, S!TriesAgain, S!To
  <2>2. CASE run' = [run EXCEPT ![r] = [c EXCEPT !.pc = "429"]]
    <3> DEFINE d == [c EXCEPT !.pc = "429"]
    <3>1. /\ DOMAIN d = DOMAIN c /\ d.pc = "429" /\ d.did = c.did + 0
          /\ d.size = c.size /\ d.do = c.do /\ run' = [run EXCEPT ![r] = d]
      BY <1>1, <2>2
    <3> HIDE DEF d, c
    <3> QED
      BY <1>4, <3>1 DEF Answering
  <2>3. CASE run' = [run EXCEPT ![r] = [c EXCEPT !.tries = @ + 1]]
    <3> DEFINE d == [c EXCEPT !.tries = @ + 1]
    <3>1. /\ DOMAIN d = DOMAIN c /\ d.pc = "send" /\ d.did = c.did
          /\ d.left = c.left /\ d.size = c.size /\ d.do = c.do
      BY <1>0, <1>1
    <3>2. run' = [run EXCEPT ![r] = d]
      BY <2>3
    <3> HIDE DEF d, c
    <3>3. CallOK(d)
      BY <1>1, <3>1 DEF CallOK, Answering
    <3> QED
      BY <1>2, <3>1, <3>2, <3>3
  <2> QED
    BY <2>1, <2>2, <2>3
<1>7. CASE S!Unknown(r)
  <2>1. PICK did \in BOOLEAN, reply \in {"5xx", "network"} : S!Failed(r, did, reply)
    BY <1>7 DEF S!Unknown
  <2>2. run' = [run EXCEPT ![r] = [(IF did THEN [c EXCEPT !.did = @ + 1] ELSE c)
                                   EXCEPT !.pc = reply]]
    BY <2>1 DEF S!Failed, S!TriesAgain, S!To
  <2> DEFINE was == IF did THEN [c EXCEPT !.did = @ + 1] ELSE c
             d == [was EXCEPT !.pc = reply]
  <2>3. /\ DOMAIN was = DOMAIN c /\ was.did = c.did + (IF did THEN 1 ELSE 0)
        /\ was.size = c.size /\ was.do = c.do
    BY <1>1
  <2>4. /\ DOMAIN d = DOMAIN was /\ d.pc = reply /\ d.did = was.did
        /\ d.size = was.size /\ d.do = was.do /\ run' = [run EXCEPT ![r] = d]
    BY <1>1, <2>2, <2>3
  <2> HIDE DEF d, was, c
  <2> QED
    BY <1>4, <2>1, <2>3, <2>4 DEF Answering
<1> QED
  BY <1>3, <1>5, <1>6, <1>7

LEMMA SurfaceKeeps == ASSUME CallSetting PROVE SurfaceInv /\ [S!Next]_(S!vars) => SurfaceInv'
<1> SUFFICES ASSUME SurfaceInv, [S!Next]_(S!vars) PROVE SurfaceInv'
  OBVIOUS
<1>1. ASSUME NEW r \in Run, NEW thing, NEW dos, S!Does(r, thing, dos) PROVE SurfaceInv'
  BY <1>1, CallStarts DEF S!Does
<1>2. ASSUME NEW r \in Run,
             \/ S!products(r) \/ S!entitlements(r) \/ S!offerings(r) \/ S!packages(r)
             \/ S!revenuecat_products(r) \/ S!revenuecat_entitlements(r)
             \/ S!revenuecat_offerings(r) \/ S!revenuecat_packages(r)
      PROVE  SurfaceInv'
  BY <1>1, <1>2 DEF S!products, S!entitlements, S!offerings, S!packages,
     S!revenuecat_products, S!revenuecat_entitlements, S!revenuecat_offerings,
     S!revenuecat_packages
<1>3. ASSUME NEW r \in Run, S!test_credential(r) \/ S!revenuecat_test_credential(r)
      PROVE  SurfaceInv'
  BY <1>3, CallStarts DEF S!test_credential, S!revenuecat_test_credential
<1>4. ASSUME NEW r \in Run,
             \/ S!create_or_update_credential(r) \/ S!revenuecat_set_credential(r)
             \/ S!update_credential(r) \/ S!revenuecat_update_credential(r)
             \/ S!delete_credential(r) \/ S!revenuecat_delete_credential(r)
      PROVE  SurfaceInv'
  BY <1>4, WriteStarts DEF S!create_or_update_credential, S!revenuecat_set_credential,
     S!update_credential, S!revenuecat_update_credential, S!delete_credential,
     S!revenuecat_delete_credential
<1>5. ASSUME NEW r \in Run, S!Answered(r) \/ S!Dies(r) PROVE SurfaceInv'
  <2>1. run' = [run EXCEPT ![r] = S!Idle] /\ UNCHANGED <<creds, link, rows, overlap>>
    BY <1>5 DEF S!Answered, S!Dies, S!To, S!dbVars
  <2> QED
    BY <2>1, IdleCallOK, CallMoves
<1>6. CASE UNCHANGED S!vars
  <2>1. OneWriter' /\ S!OneSecret'
    BY <1>6 DEF SurfaceInv, OneWriter, S!OneSecret, S!vars
  <2>2. (\A r \in Run : CallOK(run[r]))' /\ (DOMAIN run = Run)'
    BY <1>6 DEF SurfaceInv, S!vars
  <2>3. (rows \in Nat /\ link \in 0..rows /\ overlap \in BOOLEAN)'
    BY <1>6 DEF SurfaceInv, S!vars
  <2> QED
    BY <2>1, <2>2, <2>3, Zenon DEF SurfaceInv
<1> QED
  BY <1>2, <1>3, <1>4, <1>5, <1>6, CommitKeeps, SendKeeps DEF S!Next

\* SurfaceInv ties what a call has done to what it will answer, and the credential to the
\* one request that is changing it.
THEOREM SurfaceInductive == ASSUME CallSetting PROVE MCSpec => []SurfaceInv
<1>1. MCInit => SurfaceInv
  BY SurfaceInitially DEF MCInit
<1>2. [MCNext]_<<part, vars, surfaceVars, adVars>> => [S!Next]_(S!vars)
  BY DEF MCNext, SwapStep, CallStep, AdStep, surfaceVars, S!vars
<1> QED
  BY <1>1, <1>2, SurfaceKeeps, PTL DEF MCSpec

\* Unless two requests change it at the same time, an app has the credential it is linked
\* to and no other secret of its own is kept, whoever sets, changes, tests or deletes it.
THEOREM OneSecretKept == ASSUME CallSetting PROVE MCSpec => []OneSecret
<1>1. SurfaceInv => OneSecret
  BY DEF SurfaceInv, OneSecret
<1> QED
  BY <1>1, SurfaceInductive, PTL

\* What a call answers is what RevenueCat did, however often it was rate limited, failed
\* or was cut off, for lists of any number of pages.
THEOREM CallsSayWhatWasDone == ASSUME CallSetting PROVE MCSpec => []CallSaysWhatWasDone
<1>1. SurfaceInv => CallSaysWhatWasDone
  BY DEF SurfaceInv, CallOK, Answering, CallSaysWhatWasDone, S!CallSaysWhatWasDone
<1> QED
  BY <1>1, SurfaceInductive, PTL

-----------------------------------------------------------------------------
(***************************************************************************)
(* Search Ads.  The invariant follows a sync that has not failed through   *)
(* its steps: past the list of campaigns its transaction has what Apple    *)
(* listed, past the ad groups the groups of those, past each report its    *)
(* days.  Ids are never used again, so a negative that was seen to go at   *)
(* Apple does not come back while its row waits to be removed.             *)
(***************************************************************************)

SyncPhases == {"orgs", "campaigns", "groups", "report", "groupReport", "finish", "commit"}

InGroup(c) == {x \in DOMAIN c.tx.group : c.tx.group[x] = "live"}

\* What the transaction of a sync that has not failed holds.
SyncOK(c) ==
  /\ {"cred", "from", "until", "tx", "todo", "seen", "failed"} \subseteq DOMAIN c
  /\ {"camp", "group", "metrics", "org"} \subseteq DOMAIN c.tx
  /\ c.pc = "finish" => c.failed
  /\ ~c.failed =>
       /\ c.pc \in {"groups", "report", "groupReport", "commit"} =>
            /\ DOMAIN c.tx.camp = Campaigns
            /\ c.seen = {x \in Campaigns : c.tx.camp[x] = "live"}
       /\ c.pc = "groups" => c.seen \ c.todo \subseteq InGroup(c)
       /\ c.pc \in {"report", "groupReport", "commit"} => c.seen \subseteq InGroup(c)
       /\ c.pc \in {"groupReport", "commit"} =>
            A!Days(c.seen, "campaign", c.from, c.until) \subseteq c.tx.metrics
       /\ c.pc = "groupReport" =>
            A!Days(c.seen \ c.todo, "group", c.from, c.until) \subseteq c.tx.metrics
       /\ c.pc = "commit" =>
            A!Days(c.seen, "group", c.from, c.until) \subseteq c.tx.metrics

\* A row that is to be removed is of something that Apple no longer has.
RowOK(c, made, all) ==
  /\ {"do", "kind", "of", "id", "tries"} \subseteq DOMAIN c
  /\ c.id \in 0..made
  /\ c.pc = "row" /\ c.do # "add" => \A n \in all : n.id # c.id

AdFits(c, made, all) ==
  /\ "pc" \in DOMAIN c
  /\ c.pc \in {"idle", "validate", "forget", "send", "row"} \cup SyncPhases
  /\ c.pc = "idle" => c = A!Idle
  /\ c.pc \in SyncPhases => SyncOK(c)
  /\ c.pc \in {"send", "row"} => RowOK(c, made, all)

AdOK(c) == AdFits(c, ids.things, things)

DbOK ==
  /\ {"camp", "group", "metrics", "org", "last", "negatives", "cred"} \subseteq DOMAIN db
  /\ \A row \in db.negatives : row.id \in 0..ids.things

ThingsOK ==
  /\ {"things", "creds"} \subseteq DOMAIN ids /\ ids.things \in Nat
  /\ \A n \in things : n.id \in 1..ids.things /\ n.id \notin dropped
  /\ dropped \subseteq 0..ids.things

AdsInv ==
  /\ live \subseteq Campaigns
  /\ ThingsOK /\ DbOK
  /\ DOMAIN adRun = Run
  /\ \A r \in Run : AdOK(adRun[r])

-----------------------------------------------------------------------------
LEMMA IdleAdOK == AdOK(A!Idle) /\ A!Idle.pc = "idle" /\ "tx" \notin DOMAIN A!Idle
  BY DEF AdOK, AdFits, A!Idle, SyncPhases

LEMMA UnsyncedOK ==
  ASSUME NEW cred
  PROVE  /\ {"camp", "group", "metrics", "org", "last", "negatives", "cred"}
              \subseteq DOMAIN A!Unsynced(cred)
         /\ A!Unsynced(cred).negatives = {}
  BY DEF A!Unsynced

LEMMA AdsInitially == A!Init => AdsInv
<1> SUFFICES ASSUME A!Init PROVE AdsInv
  OBVIOUS
<1>1. ThingsOK
  BY DEF A!Init, ThingsOK
<1>2. DbOK
  BY UnsyncedOK DEF A!Init, DbOK
<1>3. DOMAIN adRun = Run /\ \A r \in Run : AdOK(adRun[r])
  BY IdleAdOK DEF A!Init
<1> QED
  BY <1>1, <1>2, <1>3 DEF A!Init, AdsInv

\* A request goes on; Apple's side stays as it is.
LEMMA AdMoves ==
  ASSUME AdsInv, NEW r \in Run, NEW c, AdOK(c), adRun' = [adRun EXCEPT ![r] = c],
         UNCHANGED <<live, things, ids, dropped>>, DbOK'
  PROVE  AdsInv'
<1>1. /\ DOMAIN adRun' = Run /\ adRun'[r] = c
      /\ \A s \in Run \ {r} : adRun'[s] = adRun[s]
  BY DEF AdsInv
<1>2. ASSUME NEW s \in Run PROVE AdOK(adRun[s])'
  <2>1. AdOK(adRun'[s])
    BY <1>1 DEF AdsInv
  <2> QED
    BY <2>1 DEF AdOK, AdFits, SyncOK, RowOK, InGroup
<1>3. ThingsOK' /\ (live \subseteq Campaigns)'
  BY DEF AdsInv, ThingsOK
<1> QED
  BY <1>1, <1>2, <1>3 DEF AdsInv

\* What a step may do to Apple's negatives and ads.
Grows == /\ ids'.things >= ids.things
         /\ \A n \in things' : n \in things \/ n.id > ids.things

LEMMA ThingsMove ==
  ASSUME AdsInv, NEW r \in Run, NEW c, AdFits(c, ids'.things, things'),
         adRun' = [adRun EXCEPT ![r] = c], live' = live, Grows, ThingsOK', DbOK'
  PROVE  AdsInv'
<1>1. /\ DOMAIN adRun' = Run /\ adRun'[r] = c
      /\ \A s \in Run \ {r} : adRun'[s] = adRun[s]
  BY DEF AdsInv
<1>2. ASSUME NEW s \in Run PROVE AdOK(adRun[s])'
  <2>1. AdFits(adRun'[s], ids'.things, things')
    <3>1. CASE s = r
      BY <1>1, <3>1
    <3>2. CASE s # r
      <4>1. ids.things \in Nat /\ ids'.things \in Nat
        BY DEF AdsInv, ThingsOK
      <4>2. AdFits(adRun[s], ids.things, things)
        BY DEF AdsInv, AdOK
      <4>3. RowOK(adRun[s], ids.things, things) => RowOK(adRun[s], ids'.things, things')
        BY <4>1 DEF RowOK, Grows
      <4> QED
        BY <1>1, <3>2, <4>2, <4>3 DEF AdFits
    <3> QED
      BY <3>1, <3>2
  <2> QED
    BY <2>1 DEF AdOK
<1> QED
  BY <1>1, <1>2 DEF AdsInv

LEMMA DbKept == ASSUME DbOK, UNCHANGED <<db, ids>> PROVE DbOK'
  BY DEF DbOK

LEMMA DaysOf ==
  ASSUME NEW these, NEW those, NEW level, NEW from, NEW until
  PROVE  /\ A!Days(these, level, from, until) \subseteq
              A!Days(those, level, from, until) \cup A!Days(these \ those, level, from, until)
         /\ these \subseteq those =>
              A!Days(these, level, from, until) \subseteq A!Days(those, level, from, until)
  BY DEF A!Days

\* One more ad group reported: what is reported so far, when the report covers
\* what the listing gained by it.
LEMMA DaysGrow ==
  ASSUME NEW more, NEW so, NEW of, NEW level, NEW from, NEW until, NEW had,
         more \ so \subseteq of, A!Days(so, level, from, until) \subseteq had
  PROVE  A!Days(more, level, from, until) \subseteq had \cup A!Days(of, level, from, until)
<1>1. A!Days(more \ so, level, from, until) \subseteq A!Days(of, level, from, until)
  BY DaysOf
<1>2. A!Days(more, level, from, until) \subseteq
        A!Days(so, level, from, until) \cup A!Days(more \ so, level, from, until)
  BY DaysOf
<1> QED
  BY <1>1, <1>2

-----------------------------------------------------------------------------
(* A sync *)

LEMMA SyncStarts == ASSUME AdsInv, NEW r \in Run, A!run_sync(r) PROVE AdsInv'
<1>1. PICK full \in BOOLEAN :
        adRun' = [adRun EXCEPT ![r] =
          [pc |-> "orgs", cred |-> db.cred, from |-> A!FirstDay(full), until |-> 0,
           tx |-> A!Nothing, todo |-> {}, seen |-> {}, failed |-> FALSE]]
  BY DEF A!run_sync, A!Start, A!To
<1> DEFINE c == [pc |-> "orgs", cred |-> db.cred, from |-> A!FirstDay(full), until |-> 0,
                 tx |-> A!Nothing, todo |-> {}, seen |-> {}, failed |-> FALSE]
<1>2. SyncOK(c) /\ c.pc = "orgs" /\ "pc" \in DOMAIN c
  BY DEF SyncOK, A!Nothing
<1> HIDE DEF c
<1>3. AdOK(c)
  BY <1>2 DEF AdOK, AdFits, SyncPhases
<1>4. UNCHANGED <<live, things, ids, dropped, db>>
  BY DEF A!run_sync, A!Start, A!appleVars
<1> QED
  BY <1>1, <1>3, <1>4, DbKept, AdMoves DEF AdsInv, c

\* A step of a sync that only fails keeps what it must.
LEMMA FailedOK ==
  ASSUME NEW c, SyncOK(c), "pc" \in DOMAIN c, NEW d, DOMAIN d = DOMAIN c,
         d.failed = TRUE, d.pc \in SyncPhases,
         {"camp", "group", "metrics", "org"} \subseteq DOMAIN d.tx
  PROVE  AdOK(d)
  BY DEF AdOK, AdFits, SyncOK, SyncPhases

LEMMA SyncMoves ==
  ASSUME AdsInv, NEW r \in Run, NEW c, AdOK(c), adRun' = [adRun EXCEPT ![r] = c],
         A!Syncing, UNCHANGED db
  PROVE  AdsInv'
<1>1. UNCHANGED <<live, things, ids, dropped>>
  BY DEF A!Syncing, A!appleVars
<1> QED
  BY <1>1, AdMoves, DbKept DEF AdsInv

\* The next record keeps the transaction's columns and its request's.
LEMMA OrgsKeep == ASSUME AdsInv, NEW r \in Run, A!Orgs(r) PROVE AdsInv'
<1> DEFINE old == adRun[r]
           tx == [old.tx EXCEPT !.org = TRUE]
           moved == [[old EXCEPT !.pc = "campaigns"] EXCEPT !.tx = tx]
           off(ph) == [[old EXCEPT !.pc = ph] EXCEPT !.failed = TRUE]
<1>1. old.pc = "orgs" /\ SyncOK(old) /\ "pc" \in DOMAIN old
  BY DEF A!Orgs, AdsInv, AdOK, AdFits, SyncPhases
<1>2. AdOK(moved)
  <2>1. DOMAIN tx = DOMAIN old.tx
    OBVIOUS
  <2>2. /\ DOMAIN moved = DOMAIN old /\ moved.pc = "campaigns" /\ moved.tx = tx
    BY <1>1 DEF SyncOK
  <2>3. SyncOK(moved)
    BY <1>1, <2>1, <2>2 DEF SyncOK
  <2> QED
    BY <2>2, <2>3, <1>1 DEF AdOK, AdFits, SyncPhases
<1>3. \A ph \in {"campaigns", "finish"} : AdOK(off(ph))
  <2> TAKE ph \in {"campaigns", "finish"}
  <2>1. /\ DOMAIN off(ph) = DOMAIN old /\ off(ph).failed = TRUE /\ off(ph).pc = ph
        /\ off(ph).tx = old.tx
    BY <1>1 DEF SyncOK
  <2> HIDE DEF off
  <2> QED
    BY <1>1, <2>1, FailedOK DEF SyncOK, SyncPhases
<1>4. \/ adRun' = [adRun EXCEPT ![r] = moved]
      \/ \E ph \in {"campaigns", "finish"} : adRun' = [adRun EXCEPT ![r] = off(ph)]
  BY DEF A!Orgs, A!Writes, A!To, A!Step, A!Failed
<1>5. A!Syncing /\ UNCHANGED db
  BY DEF A!Orgs
<1> HIDE DEF moved, off
<1> QED
  BY <1>2, <1>3, <1>4, <1>5, SyncMoves

LEMMA CampaignsKeep == ASSUME AdsInv, NEW r \in Run, A!ListCampaigns(r) PROVE AdsInv'
<1> DEFINE old == adRun[r]
           now == [x \in Campaigns |-> IF x \in live THEN "live"
                                      ELSE IF A!Camp(r)[x] = "live" THEN "archived" ELSE A!Camp(r)[x]]
           tx == [old.tx EXCEPT !.camp = now]
           some == [[old EXCEPT !.pc = "groups"] EXCEPT !.seen = live,
                     !.todo = {x \in Campaigns : now[x] = "live"}]
           moved == [some EXCEPT !.tx = tx]
           off == [[old EXCEPT !.pc = "report"] EXCEPT !.failed = TRUE]
<1>1. old.pc = "campaigns" /\ SyncOK(old) /\ "pc" \in DOMAIN old
  BY DEF A!ListCampaigns, AdsInv, AdOK, AdFits, SyncPhases
<1>2. AdOK(moved)
  <2>1. /\ DOMAIN tx = DOMAIN old.tx /\ tx.camp = now
    BY <1>1 DEF SyncOK
  <2>2. /\ DOMAIN now = Campaigns
        /\ live = {x \in Campaigns : now[x] = "live"}
    BY DEF AdsInv
  <2>3. /\ DOMAIN moved = DOMAIN old /\ moved.pc = "groups" /\ moved.tx = tx
        /\ moved.seen = live /\ moved.todo = live
    BY <1>1, <2>2 DEF SyncOK
  <2>4. SyncOK(moved)
    <3> HIDE DEF tx, now, moved
    <3> QED
      BY <1>1, <2>1, <2>2, <2>3 DEF SyncOK
  <2> QED
    BY <2>3, <2>4, <1>1 DEF AdOK, AdFits, SyncPhases
<1>3. AdOK(off)
  <2>1. /\ DOMAIN off = DOMAIN old /\ off.failed = TRUE /\ off.pc = "report" /\ off.tx = old.tx
    BY <1>1 DEF SyncOK
  <2> HIDE DEF off
  <2> QED
    BY <1>1, <2>1, FailedOK DEF SyncOK, SyncPhases
<1>4. \/ adRun' = [adRun EXCEPT ![r] = moved]
      \/ adRun' = [adRun EXCEPT ![r] = off]
  BY DEF A!ListCampaigns, A!Writes, A!To, A!Step, A!Failed
<1>5. A!Syncing /\ UNCHANGED db
  BY DEF A!ListCampaigns
<1> HIDE DEF moved, off
<1> QED
  BY <1>2, <1>3, <1>4, <1>5, SyncMoves

LEMMA GroupsKeep == ASSUME AdsInv, NEW r \in Run, A!ListGroups(r) PROVE AdsInv'
<1> DEFINE old == adRun[r]
           tx(x) == [old.tx EXCEPT !.group = A!Over([d \in {x} |-> "live"], @)]
           moved(x) == [old EXCEPT !.tx = tx(x), !.todo = @ \ {x}]
           off(kept) == [[[old EXCEPT !.pc = "report"] EXCEPT !.failed = TRUE] EXCEPT !.tx = kept]
<1>1. old.pc = "groups" /\ SyncOK(old) /\ "pc" \in DOMAIN old
  BY DEF A!ListGroups, AdsInv, AdOK, AdFits, SyncPhases
<1>2. PICK x \in old.todo :
        \/ adRun' = [adRun EXCEPT ![r] = moved(x)]
        \/ adRun' = [adRun EXCEPT ![r] = A!Idle]
        \/ adRun' = [adRun EXCEPT ![r] = off(tx(x))]
        \/ adRun' = [adRun EXCEPT ![r] = off(old.tx)]
  BY DEF A!ListGroups, A!To, A!Step, A!Failed
<1>3. /\ DOMAIN tx(x) = DOMAIN old.tx /\ tx(x).camp = old.tx.camp
      /\ tx(x).group = A!Over([d \in {x} |-> "live"], old.tx.group)
      /\ tx(x).metrics = old.tx.metrics
  BY <1>1 DEF SyncOK
<1>4. /\ x \in DOMAIN tx(x).group /\ tx(x).group[x] = "live"
      /\ \A y \in DOMAIN old.tx.group : y \in DOMAIN tx(x).group
           /\ (old.tx.group[y] = "live" => tx(x).group[y] = "live")
  BY <1>3 DEF A!Over
<1> HIDE DEF tx
<1>5. /\ DOMAIN moved(x) = DOMAIN old /\ moved(x).pc = "groups" /\ moved(x).tx = tx(x)
      /\ moved(x).seen = old.seen /\ moved(x).todo = old.todo \ {x}
      /\ moved(x).failed = old.failed
  BY <1>1 DEF SyncOK
<1>6. AdOK(moved(x))
  <2> HIDE DEF moved
  <2>1. InGroup(old) \cup {x} \subseteq InGroup(moved(x))
    BY <1>4, <1>5 DEF InGroup
  <2>2. SyncOK(moved(x))
    BY <1>1, <1>3, <1>5, <2>1 DEF SyncOK
  <2> QED
    BY <1>5, <2>2, <1>1 DEF AdOK, AdFits, SyncPhases
<1>7. \A kept \in {tx(x), old.tx} : AdOK(off(kept))
  <2> TAKE kept \in {tx(x), old.tx}
  <2>1. /\ DOMAIN off(kept) = DOMAIN old /\ off(kept).failed = TRUE
        /\ off(kept).pc = "report" /\ off(kept).tx = kept
    BY <1>1 DEF SyncOK
  <2> HIDE DEF off
  <2> QED
    BY <1>1, <1>3, <2>1, FailedOK DEF SyncOK, SyncPhases
<1>8. A!Syncing /\ UNCHANGED db
  BY DEF A!ListGroups
<1> HIDE DEF moved, off
<1> QED
  BY <1>2, <1>6, <1>7, <1>8, SyncMoves, IdleAdOK

LEMMA GroupsDoneKeeps == ASSUME AdsInv, NEW r \in Run, A!GroupsDone(r) PROVE AdsInv'
<1> DEFINE old == adRun[r]
           moved == [old EXCEPT !.pc = "report"]
<1>1. old.pc = "groups" /\ SyncOK(old) /\ "pc" \in DOMAIN old /\ old.todo = {}
  BY DEF A!GroupsDone, AdsInv, AdOK, AdFits, SyncPhases
<1>2. /\ DOMAIN moved = DOMAIN old /\ moved.pc = "report" /\ moved.tx = old.tx
      /\ moved.seen = old.seen /\ moved.failed = old.failed
  BY <1>1 DEF SyncOK
<1>3. adRun' = [adRun EXCEPT ![r] = moved] /\ A!Syncing /\ UNCHANGED db
  BY DEF A!GroupsDone, A!To, A!Step
<1> HIDE DEF moved
<1>4. SyncOK(moved)
  BY <1>1, <1>2 DEF SyncOK, InGroup
<1> QED
  BY <1>1, <1>2, <1>3, <1>4, SyncMoves DEF AdOK, AdFits, SyncPhases

\* What is live in a transaction that listed the campaigns is what it saw.
LEMMA SeenIsLive ==
  ASSUME AdsInv, NEW r \in Run, SyncOK(adRun[r]), ~adRun[r].failed,
         adRun[r].pc \in {"groups", "report", "groupReport", "commit"}
  PROVE  A!LiveRows(r) = adRun[r].seen
<1>1. /\ DOMAIN adRun[r].tx.camp = Campaigns
      /\ adRun[r].seen = {x \in Campaigns : adRun[r].tx.camp[x] = "live"}
  BY DEF SyncOK
<1>2. \A x \in Campaigns : A!Camp(r)[x] = adRun[r].tx.camp[x]
  BY <1>1 DEF A!Camp, A!Over
<1> QED
  BY <1>1, <1>2 DEF A!LiveRows

LEMMA ReportKeeps == ASSUME AdsInv, NEW r \in Run, A!Report(r) PROVE AdsInv'
<1> DEFINE old == adRun[r]
           seen == A!LiveRows(r)
           days == A!Days(seen, "campaign", old.from, today)
           tx == [old.tx EXCEPT !.metrics = @ \cup days]
           next == [[old EXCEPT !.pc = "groupReport"] EXCEPT !.until = today, !.todo = seen]
           moved == [next EXCEPT !.tx = tx]
           off == [next EXCEPT !.failed = TRUE]
<1>1. old.pc = "report" /\ SyncOK(old) /\ "pc" \in DOMAIN old
  BY DEF A!Report, AdsInv, AdOK, AdFits, SyncPhases
<1>2. /\ DOMAIN tx = DOMAIN old.tx /\ tx.camp = old.tx.camp /\ tx.group = old.tx.group
      /\ tx.metrics = old.tx.metrics \cup days
  BY <1>1 DEF SyncOK
<1> HIDE DEF tx
<1>3. /\ DOMAIN moved = DOMAIN old /\ moved.pc = "groupReport" /\ moved.tx = tx
      /\ moved.seen = old.seen /\ moved.todo = seen /\ moved.failed = old.failed
      /\ moved.from = old.from /\ moved.until = today
  BY <1>1 DEF SyncOK
<1>4. AdOK(moved)
  <2>1. ~old.failed => seen = old.seen
    BY <1>1, SeenIsLive
  <2> HIDE DEF moved, seen
  <2>2. ~old.failed => InGroup(moved) = InGroup(old)
    BY <1>2, <1>3 DEF InGroup
  <2>3. A!Days(old.seen \ old.seen, "group", old.from, today) = {}
    BY DEF A!Days
  <2>4. SyncOK(moved)
    BY <1>1, <1>2, <1>3, <2>1, <2>2, <2>3 DEF SyncOK
  <2> QED
    BY <1>1, <1>3, <2>4 DEF AdOK, AdFits, SyncPhases
<1>5. AdOK(off)
  <2>1. /\ DOMAIN off = DOMAIN old /\ off.failed = TRUE /\ off.pc = "groupReport" /\ off.tx = old.tx
    BY <1>1 DEF SyncOK
  <2> HIDE DEF off
  <2> QED
    BY <1>1, <2>1, FailedOK DEF SyncOK, SyncPhases
<1>6. \/ adRun' = [adRun EXCEPT ![r] = moved]
      \/ adRun' = [adRun EXCEPT ![r] = off]
  BY DEF A!Report, A!Writes, A!To, A!Step, A!Failed, A!Upsert, tx
<1>7. A!Syncing /\ UNCHANGED db
  BY DEF A!Report
<1> HIDE DEF moved, off
<1> QED
  BY <1>4, <1>5, <1>6, <1>7, SyncMoves

LEMMA GroupReportKeeps == ASSUME AdsInv, NEW r \in Run, A!GroupReport(r) PROVE AdsInv'
<1> DEFINE old == adRun[r]
           of(x) == IF A!Group(r)[x] = "live" THEN {x} ELSE {}
           days(x) == A!Days(of(x), "group", old.from, old.until)
           tx(x) == [old.tx EXCEPT !.metrics = @ \cup days(x)]
           next(x) == [old EXCEPT !.todo = @ \ {x}]
           moved(x) == [next(x) EXCEPT !.tx = tx(x)]
           off(x) == [next(x) EXCEPT !.failed = TRUE]
<1>1. old.pc = "groupReport" /\ SyncOK(old) /\ "pc" \in DOMAIN old
  BY DEF A!GroupReport, AdsInv, AdOK, AdFits, SyncPhases
<1>2. PICK x \in old.todo :
        \/ adRun' = [adRun EXCEPT ![r] = moved(x)]
        \/ adRun' = [adRun EXCEPT ![r] = off(x)]
  BY DEF A!GroupReport, A!Writes, A!To, A!Step, A!Failed, A!Upsert
<1>3. /\ DOMAIN tx(x) = DOMAIN old.tx /\ tx(x).camp = old.tx.camp /\ tx(x).group = old.tx.group
      /\ tx(x).metrics = old.tx.metrics \cup days(x)
  BY <1>1 DEF SyncOK
<1> HIDE DEF tx
<1>4. /\ DOMAIN moved(x) = DOMAIN old /\ moved(x).pc = "groupReport" /\ moved(x).tx = tx(x)
      /\ moved(x).seen = old.seen /\ moved(x).todo = old.todo \ {x}
      /\ moved(x).failed = old.failed
      /\ moved(x).from = old.from /\ moved(x).until = old.until
  BY <1>1 DEF SyncOK
<1>5. AdOK(moved(x))
  <2> HIDE DEF moved
  <2>1. ~old.failed => InGroup(moved(x)) = InGroup(old)
    BY <1>3, <1>4 DEF InGroup
  <2>2. ~old.failed => A!Days(old.seen \ (old.todo \ {x}), "group", old.from, old.until)
                        \subseteq tx(x).metrics
    <3> SUFFICES ASSUME ~old.failed
                 PROVE  A!Days(old.seen \ (old.todo \ {x}), "group", old.from, old.until)
                          \subseteq tx(x).metrics
      OBVIOUS
    <3>1. x \in old.seen => of(x) = {x}
      <4>1. old.seen \subseteq InGroup(old)
        BY <1>1 DEF SyncOK
      <4> QED
        BY <4>1 DEF InGroup, A!Group, A!Over
    <3>2. A!Days(old.seen \ old.todo, "group", old.from, old.until) \subseteq old.tx.metrics
      BY <1>1 DEF SyncOK
    <3>3. (old.seen \ (old.todo \ {x})) \ (old.seen \ old.todo) \subseteq of(x)
      BY <3>1
    <3> HIDE DEF of
    <3>4. A!Days(old.seen \ (old.todo \ {x}), "group", old.from, old.until)
            \subseteq old.tx.metrics \cup days(x)
      <4> DEFINE more == old.seen \ (old.todo \ {x})
                 so == old.seen \ old.todo
      <4>1. more \ so \subseteq of(x) /\ A!Days(so, "group", old.from, old.until) \subseteq old.tx.metrics
        BY <3>2, <3>3
      <4> HIDE DEF more, so, old
      <4>2. A!Days(more, "group", old.from, old.until) \subseteq old.tx.metrics \cup days(x)
        BY <4>1, DaysGrow
      <4> QED BY <4>2 DEF more
    <3> QED
      BY <3>4, <1>3
  <2> HIDE DEF old, days
  <2>3. SyncOK(moved(x))
    <3>1. /\ {"cred", "from", "until", "tx", "todo", "seen", "failed"} \subseteq DOMAIN moved(x)
          /\ {"camp", "group", "metrics", "org"} \subseteq DOMAIN moved(x).tx
      BY <1>1, <1>3, <1>4 DEF SyncOK
    <3>2. ASSUME ~old.failed
          PROVE  /\ DOMAIN moved(x).tx.camp = Campaigns
                 /\ moved(x).seen = {y \in Campaigns : moved(x).tx.camp[y] = "live"}
                 /\ moved(x).seen \subseteq InGroup(moved(x))
      BY <1>1, <1>3, <1>4, <2>1, <3>2 DEF SyncOK
    <3>3. ASSUME ~old.failed
          PROVE  A!Days(moved(x).seen, "campaign", moved(x).from, moved(x).until)
                   \subseteq moved(x).tx.metrics
      BY <1>1, <1>3, <1>4, <3>3 DEF SyncOK
    <3>4. ASSUME ~old.failed
          PROVE  A!Days(moved(x).seen \ moved(x).todo, "group", moved(x).from, moved(x).until)
                   \subseteq moved(x).tx.metrics
      BY <1>4, <2>2, <3>4
    <3> QED
      BY <1>4, <3>1, <3>2, <3>3, <3>4 DEF SyncOK
  <2> QED
    BY <1>1, <1>4, <2>3 DEF AdOK, AdFits, SyncPhases
<1>6. AdOK(off(x))
  <2>1. /\ DOMAIN off(x) = DOMAIN old /\ off(x).failed = TRUE
        /\ off(x).pc = "groupReport" /\ off(x).tx = old.tx
    BY <1>1 DEF SyncOK
  <2> HIDE DEF off
  <2> QED
    BY <1>1, <2>1, FailedOK DEF SyncOK, SyncPhases
<1>7. A!Syncing /\ UNCHANGED db
  BY DEF A!GroupReport
<1> HIDE DEF moved, off
<1> QED
  BY <1>2, <1>5, <1>6, <1>7, SyncMoves

LEMMA FinishKeeps == ASSUME AdsInv, NEW r \in Run, A!Finish(r) PROVE AdsInv'
<1> DEFINE old == adRun[r]
           moved == [old EXCEPT !.pc = "commit"]
<1>1. /\ old.pc = "finish" \/ (old.pc = "groupReport" /\ old.todo = {})
      /\ SyncOK(old) /\ "pc" \in DOMAIN old
  BY DEF A!Finish, AdsInv, AdOK, AdFits, SyncPhases
<1>2. /\ DOMAIN moved = DOMAIN old /\ moved.pc = "commit" /\ moved.tx = old.tx
      /\ moved.seen = old.seen /\ moved.failed = old.failed
      /\ moved.from = old.from /\ moved.until = old.until
  BY <1>1 DEF SyncOK
<1>3. adRun' = [adRun EXCEPT ![r] = moved] /\ A!Syncing /\ UNCHANGED db
  BY DEF A!Finish, A!To, A!Step
<1> HIDE DEF moved
<1>4. SyncOK(moved)
  <2>1. old.seen \ {} = old.seen
    OBVIOUS
  <2> QED
    BY SMTT(60), <1>1, <1>2, <2>1 DEF SyncOK, InGroup
<1> QED
  BY <1>1, <1>2, <1>3, <1>4, SyncMoves DEF AdOK, AdFits, SyncPhases

LEMMA SyncCommitKeeps == ASSUME AdsInv, NEW r \in Run, A!Commit(r) PROVE AdsInv'
<1>1. adRun' = [adRun EXCEPT ![r] = A!Idle] /\ UNCHANGED <<live, things, ids, dropped>>
  BY DEF A!Commit, A!To, A!Syncing, A!appleVars
<1>2. DOMAIN db' = DOMAIN db /\ db'.negatives = db.negatives
  BY DEF A!Commit, AdsInv, DbOK
<1>3. DbOK'
  BY <1>1, <1>2 DEF AdsInv, DbOK
<1> QED
  BY <1>1, <1>3, IdleAdOK, AdMoves

-----------------------------------------------------------------------------
(* The credential, the negatives and ads, what people do *)

LEMMA CredentialKeeps ==
  ASSUME AdsInv, NEW r \in Run,
         \/ A!create_credential(r) \/ A!Validate(r)
         \/ A!delete_credential(r) \/ A!Forget(r)
  PROVE  AdsInv'
<1>1. CASE A!create_credential(r)
  <2> DEFINE c == [pc |-> "validate"]
  <2>1. AdOK(c)
    BY DEF AdOK, AdFits, SyncPhases
  <2>2. adRun' = [adRun EXCEPT ![r] = c] /\ UNCHANGED <<live, things, ids, dropped, db>>
    BY <1>1 DEF A!create_credential, A!Start, A!To, A!appleVars
  <2> HIDE DEF c
  <2> QED
    BY <2>1, <2>2, AdMoves, DbKept DEF AdsInv
<1>2. CASE A!delete_credential(r)
  <2> DEFINE c == [pc |-> "forget"]
  <2>1. AdOK(c)
    BY DEF AdOK, AdFits, SyncPhases
  <2>2. adRun' = [adRun EXCEPT ![r] = c] /\ UNCHANGED <<live, things, ids, dropped, db>>
    BY <1>2 DEF A!delete_credential, A!Start, A!To, A!appleVars
  <2> HIDE DEF c
  <2> QED
    BY <2>1, <2>2, AdMoves, DbKept DEF AdsInv
<1>3. CASE A!Forget(r)
  <2>1. adRun' = [adRun EXCEPT ![r] = A!Idle] /\ UNCHANGED <<live, things, ids, dropped>>
        /\ db' = A!Unsynced(0)
    BY <1>3 DEF A!Forget, A!To, A!Syncing, A!appleVars
  <2>2. DbOK'
    BY <2>1, UnsyncedOK DEF DbOK
  <2> QED
    BY <2>1, <2>2, IdleAdOK, AdMoves
<1>4. CASE A!Validate(r)
  <2>1. /\ adRun' = [adRun EXCEPT ![r] = A!Idle] /\ UNCHANGED <<live, things, dropped>>
        /\ \/ ids' = [ids EXCEPT !.creds = @ + 1] /\ db' = A!Unsynced(ids.creds + 1)
           \/ UNCHANGED <<ids, db>>
    BY <1>4 DEF A!Validate, A!To, A!appleVars
  <2>2. ids'.things = ids.things /\ DOMAIN ids' = DOMAIN ids
    BY <2>1 DEF AdsInv, ThingsOK
  <2>3. ThingsOK' /\ DbOK'
    BY <2>1, <2>2, UnsyncedOK DEF AdsInv, ThingsOK, DbOK
  <2>4. Grows /\ AdFits(A!Idle, ids'.things, things')
    BY <2>1, <2>2, IdleAdOK DEF Grows, AdsInv, ThingsOK, AdOK
  <2> QED
    BY <2>1, <2>3, <2>4, ThingsMove
<1> QED
  BY <1>1, <1>2, <1>3, <1>4

LEMMA AsksKeeps ==
  ASSUME AdsInv, NEW r \in Run, NEW do, NEW kind, NEW of, NEW id \in 0..ids.things,
         A!Start(r, [pc |-> "send", do |-> do, kind |-> kind, of |-> of, id |-> id, tries |-> 0])
  PROVE  AdsInv'
<1> DEFINE c == [pc |-> "send", do |-> do, kind |-> kind, of |-> of, id |-> id, tries |-> 0]
<1>1. AdOK(c)
  BY DEF AdOK, AdFits, RowOK, SyncPhases
<1>2. adRun' = [adRun EXCEPT ![r] = c] /\ UNCHANGED <<live, things, ids, dropped, db>>
  BY DEF A!Start, A!To, A!appleVars
<1> HIDE DEF c
<1> QED
  BY <1>1, <1>2, AdMoves, DbKept DEF AdsInv

LEMMA RequestsKeep ==
  ASSUME AdsInv, NEW r \in Run,
         \/ A!add_negative_keywords(r) \/ A!remove_negative_keyword(r)
         \/ A!assign_cpp(r) \/ A!unassign_cpp(r)
  PROVE  AdsInv'
<1>1. ids.things \in Nat /\ (\A row \in db.negatives : row.id \in 0..ids.things)
      /\ (\A n \in things : n.id \in 0..ids.things) /\ 0 \in 0..ids.things
  BY DEF AdsInv, ThingsOK, DbOK
<1>2. \E do, kind, of : \E id \in 0..ids.things :
        A!Start(r, [pc |-> "send", do |-> do, kind |-> kind, of |-> of, id |-> id, tries |-> 0])
  <2>1. CASE A!add_negative_keywords(r)
    BY <1>1, <2>1, Zenon DEF A!add_negative_keywords, A!Asks
  <2>2. CASE A!assign_cpp(r)
    BY <1>1, <2>2, Zenon DEF A!assign_cpp, A!Asks
  <2>3. CASE A!remove_negative_keyword(r)
    BY <1>1, <2>3, Zenon DEF A!remove_negative_keyword
  <2>4. CASE A!unassign_cpp(r)
    BY <1>1, <2>4, Zenon DEF A!unassign_cpp
  <2> QED
    BY <2>1, <2>2, <2>3, <2>4
<1> QED
  BY <1>2, AsksKeeps

\* Row: Apple does not have what a row is removed for.
LEMMA RowKeeps == ASSUME AdsInv, NEW r \in Run, A!Row(r) PROVE AdsInv'
<1> DEFINE old == adRun[r]
<1>1. old.pc = "row" /\ RowOK(old, ids.things, things)
  BY DEF A!Row, AdsInv, AdOK, AdFits, SyncPhases
<1>2. /\ adRun' = [adRun EXCEPT ![r] = A!Idle] /\ UNCHANGED <<live, things, ids>>
      /\ \/ UNCHANGED <<db, dropped>>
         \/ /\ db' = [db EXCEPT !.negatives = @ \cup {[id |-> old.id, of |-> old.of]}]
            /\ UNCHANGED dropped
         \/ /\ old.do = "remove" \/ old.do # "add"
            /\ db' = [db EXCEPT !.negatives = @ \ {[id |-> old.id, of |-> old.of]}]
            /\ dropped' = dropped \cup {old.id}
  BY DEF A!Row, A!To, A!appleVars
<1>3. DbOK' /\ ThingsOK'
  BY <1>1, <1>2 DEF AdsInv, DbOK, ThingsOK, RowOK
<1>4. Grows /\ AdFits(A!Idle, ids'.things, things')
  BY <1>2, IdleAdOK DEF Grows, AdsInv, ThingsOK, AdOK
<1> QED
  BY <1>2, <1>3, <1>4, ThingsMove

LEMMA ThingKeeps == ASSUME AdsInv, NEW r \in Run, A!Send(r) PROVE AdsInv'
<1> DEFINE old == adRun[r]
           again == [old EXCEPT !.tries = @ + 1]
           row == [[old EXCEPT !.pc = "row"] EXCEPT
                     !.id = IF old.do = "add" THEN ids'.things ELSE @]
           done == A!Adds(old) \/ A!Removes(old)
<1>1. old.pc = "send" /\ RowOK(old, ids.things, things) /\ "pc" \in DOMAIN old
  BY DEF A!Send, AdsInv, AdOK, AdFits, SyncPhases
<1>2. /\ UNCHANGED <<live, db, dropped>>
      /\ \/ /\ done
            /\ \/ adRun' = [adRun EXCEPT ![r] = A!Idle]
               \/ adRun' = [adRun EXCEPT ![r] = row]
               \/ adRun' = [adRun EXCEPT ![r] = again]
         \/ /\ UNCHANGED <<things, ids>>
            /\ \/ adRun' = [adRun EXCEPT ![r] = A!Idle]
               \/ adRun' = [adRun EXCEPT ![r] = again]
  BY DEF A!Send, A!To, A!Step, A!AfterRefusal
<1>3. ids.things \in Nat /\ DOMAIN ids = DOMAIN ids
  BY DEF AdsInv, ThingsOK
<1>4. ASSUME done
      PROVE  /\ {"things", "creds"} \subseteq DOMAIN ids' /\ ids'.things \in Nat
             /\ ids'.things >= ids.things
             /\ \A n \in things' : n \in things \/ (n.id = ids'.things /\ n.id > ids.things)
             /\ old.do = "add" \/ (\A n \in things' : n.id # old.id)
  <2>1. CASE A!Adds(old)
    BY <2>1, <1>3 DEF A!Adds, AdsInv, ThingsOK
  <2>2. CASE A!Removes(old)
    BY <2>2, <1>3 DEF A!Removes, AdsInv, ThingsOK
  <2> QED
    BY <1>4, <2>1, <2>2
<1>5. Grows /\ ids'.things \in Nat
  BY <1>2, <1>3, <1>4 DEF Grows, AdsInv, ThingsOK
<1>6. AdFits(again, ids'.things, things')
  <2>1. /\ DOMAIN again = DOMAIN old /\ again.pc = "send" /\ again.id = old.id
    BY <1>1 DEF RowOK
  <2> HIDE DEF again
  <2>2. again.id \in 0..ids'.things
    BY <1>1, <1>3, <1>5, <2>1 DEF RowOK, AdsInv, Grows
  <2> QED
    BY <1>1, <2>1, <2>2 DEF AdFits, RowOK, SyncPhases
<1>7. ASSUME done PROVE AdFits(row, ids'.things, things')
  <2>1. /\ DOMAIN row = DOMAIN old /\ row.pc = "row" /\ row.do = old.do
        /\ row.id = IF old.do = "add" THEN ids'.things ELSE old.id
    BY <1>1 DEF RowOK
  <2> HIDE DEF row
  <2>2. row.id \in 0..ids'.things
    BY <1>1, <1>3, <1>4, <1>7, <2>1 DEF RowOK
  <2> QED
    BY <1>1, <1>4, <1>7, <2>1, <2>2 DEF AdFits, RowOK, SyncPhases
<1>8. ThingsOK'
  BY <1>2, <1>3, <1>4 DEF AdsInv, ThingsOK
<1>9. DbOK'
  BY <1>2, <1>3, <1>5 DEF AdsInv, DbOK, Grows, ThingsOK
<1>10. AdFits(A!Idle, ids'.things, things')
  BY IdleAdOK DEF AdOK, AdFits, SyncPhases
<1> HIDE DEF again, row, done
<1> QED
  BY <1>2, <1>5, <1>6, <1>7, <1>8, <1>9, <1>10, ThingsMove

LEMMA PersonKeeps == ASSUME AdsInv, A!Person PROVE AdsInv'
<1>1. /\ live' \subseteq Campaigns /\ things' \subseteq things
      /\ UNCHANGED <<ids, db, adRun, dropped>>
  BY DEF A!Person, AdsInv
<1>2. \A s \in Run : AdFits(adRun[s], ids.things, things')
  BY <1>1 DEF AdsInv, AdOK, AdFits, RowOK
<1>3. ThingsOK' /\ DbOK'
  BY <1>1 DEF AdsInv, ThingsOK, DbOK
<1>4. \A s \in Run : AdOK(adRun[s])'
  BY <1>1, <1>2 DEF AdOK
<1> QED
  BY <1>1, <1>3, <1>4 DEF AdsInv

LEMMA SameAds ==
  ASSUME AdsInv, UNCHANGED <<live, things, ids, db, adRun, dropped>> PROVE AdsInv'
<1>1. ThingsOK' /\ DbOK'
  BY DEF AdsInv, ThingsOK, DbOK
<1>2. \A s \in Run : AdOK(adRun[s])'
  BY DEF AdsInv, AdOK
<1> QED
  BY <1>1, <1>2 DEF AdsInv

LEMMA AdsKept == AdsInv /\ [A!Next]_adVars => AdsInv'
<1> SUFFICES ASSUME AdsInv, [A!Next]_adVars PROVE AdsInv'
  OBVIOUS
<1>1. ASSUME NEW r \in Run, A!Dies(r) PROVE AdsInv'
  BY <1>1, IdleAdOK, AdMoves, DbKept DEF A!Dies, A!To, A!Syncing, A!appleVars, AdsInv
<1>2. ASSUME NEW r \in Run,
             \/ A!create_credential(r) \/ A!Validate(r)
             \/ A!delete_credential(r) \/ A!asa_delete_credential(r) \/ A!Forget(r)
      PROVE  AdsInv'
  BY <1>2, CredentialKeeps DEF A!asa_delete_credential
<1>3. ASSUME NEW r \in Run,
             \/ A!sync_credential(r) \/ A!asa_sync(r) \/ A!Orgs(r) \/ A!ListCampaigns(r)
             \/ A!ListGroups(r) \/ A!GroupsDone(r) \/ A!Report(r) \/ A!GroupReport(r)
             \/ A!Finish(r) \/ A!Commit(r)
      PROVE  AdsInv'
  BY <1>3, SyncStarts, OrgsKeep, CampaignsKeep, GroupsKeep, GroupsDoneKeeps, ReportKeeps,
     GroupReportKeeps, FinishKeeps, SyncCommitKeeps DEF A!sync_credential, A!asa_sync
<1>4. ASSUME NEW r \in Run,
             \/ A!add_negative_keywords(r) \/ A!asa_add_negative_keywords(r)
             \/ A!remove_negative_keyword(r) \/ A!asa_remove_negative_keyword(r)
             \/ A!asa_assign_cpp(r) \/ A!asa_unassign_cpp(r) \/ A!Send(r) \/ A!Row(r)
      PROVE  AdsInv'
  BY <1>4, RequestsKeep, ThingKeeps, RowKeeps
  DEF A!asa_add_negative_keywords, A!asa_remove_negative_keyword, A!asa_assign_cpp,
      A!asa_unassign_cpp
<1>5. CASE A!NextDay
  BY <1>5, SameAds DEF A!NextDay, A!appleVars
<1>6. CASE UNCHANGED adVars
  BY <1>6, SameAds DEF adVars
<1> QED
  BY <1>1, <1>2, <1>3, <1>4, <1>5, <1>6, PersonKeeps DEF A!Next

LEMMA MirrorFollows == AdsInv => A!AccountIsMirrored
<1> SUFFICES ASSUME AdsInv PROVE A!AccountIsMirrored
  OBVIOUS
<1>1. ASSUME NEW r \in Run, adRun[r].pc = "commit", ~adRun[r].failed
      PROVE  /\ A!LiveRows(r) = adRun[r].seen
             /\ \A x \in adRun[r].seen : A!Group(r)[x] = "live"
             /\ \A level \in {"campaign", "group"} :
                  A!Days(adRun[r].seen, level, adRun[r].from, adRun[r].until) \subseteq A!Metrics(r)
  <2>1. SyncOK(adRun[r])
    BY <1>1 DEF AdsInv, AdOK, AdFits, SyncPhases
  <2>2. A!LiveRows(r) = adRun[r].seen
    BY <1>1, <2>1, SeenIsLive
  <2>3. adRun[r].seen \subseteq InGroup(adRun[r])
    BY <1>1, <2>1 DEF SyncOK
  <2>4. \A x \in adRun[r].seen : A!Group(r)[x] = "live"
    BY <2>3 DEF InGroup, A!Group, A!Over
  <2>5. \A level \in {"campaign", "group"} :
          A!Days(adRun[r].seen, level, adRun[r].from, adRun[r].until) \subseteq adRun[r].tx.metrics
    BY <1>1, <2>1 DEF SyncOK
  <2> QED
    BY <2>2, <2>4, <2>5 DEF A!Metrics
<1> QED
  BY <1>1 DEF AdsInv, ThingsOK, A!AccountIsMirrored

\* AdsInv follows a sync from its lists to its commit, and keeps ids apart.
THEOREM AdsInductive == MCSpec => []AdsInv
<1>1. MCInit => AdsInv
  BY AdsInitially DEF MCInit
<1>2. [MCNext]_<<part, vars, surfaceVars, adVars>> => [A!Next]_adVars
  BY DEF MCNext, SwapStep, CallStep, AdStep, adVars
<1> QED
  BY <1>1, <1>2, AdsKept, PTL DEF MCSpec

\* Whatever is changed at Apple meanwhile and whatever other requests do, a sync that has
\* recorded no error commits the account it listed, with every day of its window; and no
\* row is removed of a negative that Apple still has.
THEOREM AccountKept == MCSpec => []AccountIsMirrored
<1>1. AdsInv => AccountIsMirrored
  BY MirrorFollows DEF AccountIsMirrored
<1> QED
  BY <1>1, AdsInductive, PTL

=============================================================================
