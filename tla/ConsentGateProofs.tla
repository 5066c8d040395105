-------------------------- MODULE ConsentGateProofs --------------------------
(***************************************************************************)
(* What the overlapping calls of one process share, for every number of    *)
(* calls: the consent gate, the client of App Store Connect, the cache of  *)
(* price ladders, and the tables about reviews.                               *)
(*                                                                         *)
(* The gate's inductive invariant adds to the properties that a token in   *)
(* the store, and one that has let a call run, was minted, so that minting *)
(* another never touches its record.                                       *)
(***************************************************************************)
EXTENDS MCConsentGate, Sequences, FiniteSetTheorems, TLAPS

Minted == /\ \A t \in pending : entry[t] \in Entry
          /\ \A e \in ran : entry[e.token] \in Entry

IInv ==
  /\ TypeOK
  /\ Minted
  /\ PresentedIsSpent
  /\ RunsWithinTtl

-----------------------------------------------------------------------------
LEMMA NoEntryIsNone == NoEntry \notin Entry
<1> SUFFICES ASSUME NoEntry \in Entry PROVE FALSE
  OBVIOUS
<1>1. PICK u \in User, c \in Call, x \in Nat :
        NoEntry = [user |-> u, call |-> c, expires_at |-> x]
  BY DEF Entry
<1>2. DOMAIN NoEntry = {"user"}
  BY DEF NoEntry
<1>3. DOMAIN NoEntry = {"user", "call", "expires_at"}
  BY <1>1
<1> QED
  BY <1>2, <1>3

LEMMA PrunedShrinks == ASSUME NEW kept \in Pruned PROVE kept \subseteq pending
  BY DEF Pruned

LEMMA DeadlineNat == ASSUME TypeOK PROVE Deadline \in Nat
  BY BoundsAssumption DEF TypeOK, Deadline

LEMMA InitIInv == Init => IInv
  BY DEF Init, IInv, TypeOK, Minted, PresentedIsSpent, RunsWithinTtl

LEMMA NextIInv == IInv /\ [Next]_vars => IInv'
<1> SUFFICES ASSUME IInv, [Next]_vars PROVE IInv'
  OBVIOUS
<1> USE DEF IInv
<1>1. ASSUME NEW u \in User, NEW c \in Call, Mint(u, c) PROVE IInv'
  <2>1. PICK t \in Token, kept \in Pruned :
          /\ entry[t] = NoEntry /\ t \notin presented
          /\ pending' = kept \cup {t}
          /\ entry' = [entry EXCEPT ![t] =
               [user |-> u, call |-> c, expires_at |-> Deadline]]
    BY <1>1 DEF Mint
  <2>2. kept \subseteq pending
    BY <2>1, PrunedShrinks
  <2>3. [user |-> u, call |-> c, expires_at |-> Deadline] \in Entry
    BY DeadlineNat DEF Entry
  <2>4. UNCHANGED <<now, presented, ran>>
    BY <1>1 DEF Mint
  <2>5. \A s \in Token : entry[s] \in Entry => entry'[s] = entry[s]
    BY <2>1, NoEntryIsNone DEF TypeOK
  <2>6. entry' \in [Token -> Entry \cup {NoEntry}] /\ entry'[t] \in Entry
    BY <2>1, <2>3 DEF TypeOK
  <2>7. TypeOK'
    BY <2>1, <2>2, <2>4, <2>6 DEF TypeOK
  <2>8. \A e \in ran : e.token \in Token
    BY DEF TypeOK, Ran
  <2>9. Minted' /\ RunsWithinTtl'
    BY <2>1, <2>2, <2>4, <2>5, <2>6, <2>8 DEF TypeOK, Minted, RunsWithinTtl
  <2>10. PresentedIsSpent'
    BY <2>1, <2>2, <2>4 DEF PresentedIsSpent
  <2> QED
    BY <2>7, <2>9, <2>10
<1>2. ASSUME NEW u \in User, NEW c \in Call, NEW t \in Token, Present(u, c, t)
      PROVE  IInv'
  <2> DEFINE e0 == [token |-> t, user |-> u, call |-> c, at |-> now]
  <2>1. UNCHANGED <<now, entry>> /\ pending' = pending \ {t}
        /\ presented' = presented \cup {t}
    BY <1>2 DEF Present
  <2>2. PresentedIsSpent'
    BY <2>1 DEF PresentedIsSpent
  <2>3. CASE Accepts(u, c, t)
    <3>1. ran' = ran \cup {e0}
      BY <1>2, <2>3 DEF Present, HandOn
    <3>2. e0 \in Ran
      BY DEF TypeOK, Ran
    <3>3. entry[t] \in Entry
      BY <2>3 DEF Minted, Accepts
    <3>4. now < entry[t].expires_at
      BY <2>3, <3>3 DEF Accepts, Expired, TypeOK, Entry
    <3> QED
      BY <2>1, <2>2, <3>1, <3>2, <3>3, <3>4 DEF TypeOK, Minted, RunsWithinTtl
  <2>4. CASE ~Accepts(u, c, t)
    <3>1. UNCHANGED ran
      BY <1>2, <2>4 DEF Present
    <3> QED
      BY <2>1, <2>2, <3>1 DEF TypeOK, Minted, RunsWithinTtl
  <2> QED
    BY <2>3, <2>4
<1>3. CASE Tick
  BY <1>3 DEF Tick, TypeOK, Minted, PresentedIsSpent, RunsWithinTtl
<1>4. CASE Restart
  BY <1>4 DEF Restart, TypeOK, Minted, PresentedIsSpent, RunsWithinTtl
<1>5. CASE UNCHANGED vars
  BY <1>5 DEF vars, TypeOK, Minted, PresentedIsSpent, RunsWithinTtl
<1> QED
  BY <1>1, <1>2, <1>3, <1>4, <1>5 DEF Next

\* The inductive invariant holds in every reachable state.
THEOREM InductiveInvariant == Spec => []IInv
  BY InitIInv, NextIInv, PTL DEF Spec

\* A token that has come back with any call, by anyone, is no longer in the
\* store ("a token is spent by being presented").
THEOREM PresentedSpent == Spec => []PresentedIsSpent
<1>1. IInv => PresentedIsSpent
  BY DEF IInv
<1> QED
  BY <1>1, InductiveInvariant, PTL

\* No call runs on a token whose time is over, whenever the prune last ran.
THEOREM WithinTtl == Spec => []RunsWithinTtl
<1>1. IInv => RunsWithinTtl
  BY DEF IInv
<1> QED
  BY <1>1, InductiveInvariant, PTL

-----------------------------------------------------------------------------
\* The store: the prune leaves at most the limit, the mint adds one.

Bounded == IsFiniteSet(pending) /\ Cardinality(pending) <= MaxPending + 1

LEMMA PrunedBounded ==
  ASSUME Bounded, NEW kept \in Pruned
  PROVE  IsFiniteSet(kept) /\ Cardinality(kept) <= MaxPending
<1> DEFINE live == {t \in pending : ~Expired(t)}
<1>1. PICK gone \in Surplus(live) : kept = live \ gone
  BY DEF Pruned
<1>2. IsFiniteSet(live) /\ IsFiniteSet(kept)
  BY <1>1, FS_Subset DEF Bounded
<1>3. Cardinality(live) \in Nat
  BY <1>2, FS_CardinalityType
<1> QED
  BY <1>1, <1>2, <1>3, BoundsAssumption DEF Surplus

LEMMA NextBounded == Bounded /\ [Next]_vars => Bounded'
<1> SUFFICES ASSUME Bounded, [Next]_vars PROVE Bounded'
  OBVIOUS
<1>1. ASSUME NEW u \in User, NEW c \in Call, Mint(u, c) PROVE Bounded'
  <2>1. PICK t \in Token, kept \in Pruned : pending' = kept \cup {t}
    BY <1>1 DEF Mint
  <2>2. IsFiniteSet(kept) /\ Cardinality(kept) <= MaxPending
    BY PrunedBounded
  <2>3. /\ IsFiniteSet(kept \cup {t})
        /\ Cardinality(kept \cup {t}) \in {Cardinality(kept), Cardinality(kept) + 1}
    BY <2>2, FS_AddElement
  <2>4. Cardinality(kept) \in Nat
    BY <2>2, FS_CardinalityType
  <2> QED
    BY <2>1, <2>2, <2>3, <2>4, BoundsAssumption DEF Bounded
<1>2. ASSUME pending' \subseteq pending PROVE Bounded'
  <2>1. IsFiniteSet(pending') /\ Cardinality(pending') <= Cardinality(pending)
    BY <1>2, FS_Subset DEF Bounded
  <2>2. Cardinality(pending) \in Nat /\ Cardinality(pending') \in Nat
    BY <2>1, FS_CardinalityType DEF Bounded
  <2> QED
    BY <2>1, <2>2, BoundsAssumption DEF Bounded
<1>3. CASE (\E u \in User, c \in Call, t \in Token : Present(u, c, t))
           \/ Tick \/ Restart \/ UNCHANGED vars
  BY <1>2, <1>3 DEF Present, Tick, Restart, vars
<1> QED
  BY <1>1, <1>3 DEF Next

\* The store never holds more than one token above _MAX_PENDING.
THEOREM StoreStaysBounded == Spec => []StoreBounded
<1>1. Init => Bounded
  BY FS_EmptySet, BoundsAssumption DEF Init, Bounded
<1>2. Bounded => StoreBounded
  BY DEF Bounded, StoreBounded
<1> QED
  BY <1>1, <1>2, NextBounded, PTL DEF Spec

-----------------------------------------------------------------------------
\* The gate implements the one-shot promise: initial states are initial, and
\* a step grants, lapses or uses a consent, or is invisible.

LEMMA InitRefines == Init => Promise!Init
  BY DEF Init, Promise!Init, Promise!Nobody

LEMMA StepRefines == IInv /\ [Next]_vars => [Promise!Next]_(Promise!vars)
<1> SUFFICES ASSUME IInv, [Next]_vars PROVE [Promise!Next]_(Promise!vars)
  OBVIOUS
<1> USE DEF IInv
<1> DEFINE askedMap == [t \in Token |->
             IF entry[t] = NoEntry THEN <<>> ELSE <<entry[t].user, entry[t].call>>]
           ranMap == {<<e.token, e.user, e.call>> : e \in ran}
<1>1. ASSUME NEW u \in User, NEW c \in Call, Mint(u, c)
      PROVE  \E t \in Token : Promise!Ask(t, u, c)
  <2>1. PICK t \in Token, kept \in Pruned :
          /\ entry[t] = NoEntry /\ t \notin presented
          /\ pending' = kept \cup {t}
          /\ entry' = [entry EXCEPT ![t] =
               [user |-> u, call |-> c, expires_at |-> Deadline]]
    BY <1>1 DEF Mint
  <2>2. kept \subseteq pending
    BY <2>1, PrunedShrinks
  <2>3. [user |-> u, call |-> c, expires_at |-> Deadline] # NoEntry
    BY DeadlineNat, NoEntryIsNone DEF Entry
  <2>4. askedMap[t] = <<>>
    BY <2>1
  <2>5. askedMap' = [askedMap EXCEPT ![t] = <<u, c>>]
    BY <2>1, <2>3 DEF TypeOK
  <2>6. pending' = (pending \ (pending \ kept)) \cup {t}
    BY <2>1, <2>2
  <2>7. UNCHANGED ranMap
    BY <1>1 DEF Mint
  <2>8. \E lapsed \in SUBSET pending : pending' = (pending \ lapsed) \cup {t}
    BY <2>6
  <2> QED
    BY <2>4, <2>5, <2>7, <2>8 DEF Promise!Ask, Promise!Nobody
<1>2. ASSUME NEW u \in User, NEW c \in Call, NEW t \in Token, Present(u, c, t)
      PROVE  Promise!Run(t, u, c) \/ Promise!Lapse
  <2>1. UNCHANGED entry /\ pending' = pending \ {t}
    BY <1>2 DEF Present
  <2>2. CASE Accepts(u, c, t)
    <3>1. ran' = ran \cup {[token |-> t, user |-> u, call |-> c, at |-> now]}
      BY <1>2, <2>2 DEF Present, HandOn
    <3>2. ranMap' = ranMap \cup {<<t, u, c>>}
      <4> DEFINE e0 == [token |-> t, user |-> u, call |-> c, at |-> now]
      <4>1. ran' = ran \cup {e0} /\ <<e0.token, e0.user, e0.call>> = <<t, u, c>>
        BY <3>1
      <4> HIDE DEF e0
      <4>2. ranMap' = ranMap \cup {<<e0.token, e0.user, e0.call>>}
        BY <4>1
      <4> QED
        BY <4>1, <4>2
    <3>3. entry[t] \in Entry /\ entry[t] # NoEntry
      BY <2>2, NoEntryIsNone DEF Accepts, Minted
    <3>4. askedMap[t] = <<u, c>>
      BY <2>2, <3>3 DEF Accepts
    <3> QED
      BY <2>1, <2>2, <3>2, <3>4 DEF Promise!Run, Accepts
  <2>3. CASE ~Accepts(u, c, t)
    BY <1>2, <2>1, <2>3 DEF Present, Promise!Lapse
  <2> QED
    BY <2>2, <2>3
<1>3. CASE Tick
  BY <1>3 DEF Tick, Promise!vars
<1>4. CASE Restart
  BY <1>4 DEF Restart, Promise!Lapse, Promise!Next
<1>5. CASE UNCHANGED vars
  BY <1>5 DEF vars, Promise!vars
<1> QED
  BY <1>1, <1>2, <1>3, <1>4, <1>5 DEF Next, Promise!Next

\* Every destructive call runs on a consent of its own, asked for by the same
\* user for exactly that call.
THEOREM Implements == Spec => KeepsPromise
  BY InductiveInvariant, InitRefines, StepRefines, PTL
     DEF Spec, KeepsPromise, Promise!Spec

-----------------------------------------------------------------------------
(* The client of App Store Connect                                         *)

ReqType ==
  [pc : {"throttle", "connect", "renew", "sent", "end"}, method : C!Methods, tries : Nat,
   refreshed : BOOLEAN, done : Nat, via : Nat, answer : {"none", "ok", "refused", "network", "5xx"}]

\* What an answer says is so, and a POST on its way has not been done.
Truthful(x) ==
  /\ x.answer # "none" => x.pc = "end"
  /\ x.answer = "ok" => x.done >= 1
  /\ x.method = "POST" =>
       x.done <= 1 /\ (x.pc # "end" \/ x.answer = "refused" => x.done = 0)

ClientInv ==
  /\ req \in [Requests -> ReqType] /\ conn \in Nat /\ made \in Nat
  /\ \A r \in Requests : Truthful(req[r])

LEMMA ClientInit == C!Init => ClientInv
  <1> SUFFICES ASSUME C!Init PROVE ClientInv
    OBVIOUS
  <1>1. \A m \in C!Methods : C!Fresh(m) \in ReqType /\ Truthful(C!Fresh(m))
    BY DEF C!Fresh, ReqType, Truthful
  <1>2. \A r \in Requests : \E m \in C!Methods : req[r] = C!Fresh(m)
    BY DEF C!Init
  <1>3. req \in [Requests -> ReqType] /\ \A r \in Requests : Truthful(req[r])
    BY <1>1, <1>2 DEF C!Init
  <1> QED BY <1>3 DEF C!Init, ClientInv

LEMMA RequestMoves ==
  ASSUME ClientInv, NEW r \in Requests, NEW x \in ReqType, C!To(r, x), Truthful(x),
         conn' \in Nat, made' \in Nat
  PROVE  ClientInv'
  BY DEF C!To, ClientInv

LEMMA ClientStepHolds == ASSUME ClientInv, [C!Next]_(C!vars) PROVE ClientInv'
  <1>1. CASE UNCHANGED C!vars
    BY <1>1 DEF C!vars, ClientInv
  <1>2. CASE C!Exit
    BY <1>2 DEF C!Exit, ClientInv
  <1>3. ASSUME NEW r \in Requests,
               \/ C!LeaveTurn(r) \/ C!Connect(r) \/ C!Renew(r) \/ C!Renewed(r)
               \/ C!NotSent(r) \/ C!NoAnswer(r) \/ C!Done(r) \/ C!RefusedByApple(r)
               \/ C!Unauthorized(r) \/ C!RateLimited(r) \/ C!ServerError(r)
        PROVE  ClientInv'
    <2>0. req[r] \in ReqType /\ Truthful(req[r]) /\ conn \in Nat /\ made \in Nat
      BY DEF ClientInv
    <2> USE DEF C!Step, C!connVars, ReqType, Truthful
    <2>1. CASE C!LeaveTurn(r)
      <3> DEFINE x == [C!Step(r, "connect") EXCEPT !.tries = @ + 1]
      <3>0. req[r].tries + 1 \in Nat /\ C!Step(r, "connect") \in ReqType
        BY <2>0
      <3>1. x \in ReqType /\ Truthful(x)
        BY <2>0, <2>1, <3>0 DEF C!LeaveTurn
      <3>2. C!To(r, x) /\ conn' = conn /\ made' = made
        BY <2>1 DEF C!LeaveTurn
      <3> HIDE DEF x
      <3> QED BY <2>0, <3>1, <3>2, RequestMoves
    <2>2. CASE C!Connect(r)
      <3> DEFINE x == [C!Step(r, "sent") EXCEPT !.via = conn]
      <3>1. x \in ReqType /\ Truthful(x)
        BY <2>0, <2>2 DEF C!Connect
      <3>2. C!To(r, x) /\ conn' = conn /\ made' = made
        BY <2>2 DEF C!Connect
      <3> HIDE DEF x
      <3> QED BY <2>0, <3>1, <3>2, RequestMoves
    <2>3. CASE C!Renew(r)
      <3>1. C!Step(r, "renew") \in ReqType /\ Truthful(C!Step(r, "renew"))
        BY <2>0, <2>3 DEF C!Renew
      <3>2. C!To(r, C!Step(r, "renew")) /\ conn' = conn /\ made' = made
        BY <2>3 DEF C!Renew
      <3> QED BY <2>0, <3>1, <3>2, RequestMoves
    <2>4. CASE C!Renewed(r)
      <3> DEFINE x == [C!Step(r, "sent") EXCEPT !.via = made + 1]
      <3>0. made + 1 \in Nat /\ C!Step(r, "sent") \in ReqType
        BY <2>0
      <3>1. x \in ReqType /\ Truthful(x)
        BY <2>0, <2>4, <3>0 DEF C!Renewed
      <3>2. C!To(r, x) /\ conn' = made + 1 /\ made' = made + 1
        BY <2>4 DEF C!Renewed
      <3> HIDE DEF x
      <3> QED BY <2>0, <3>1, <3>2, RequestMoves
    <2>5. ASSUME NEW a \in {"ok", "refused", "network", "5xx"}
          PROVE  /\ C!Ends(r, a) \in ReqType /\ C!Ends(r, a).answer = a /\ C!Ends(r, a).pc = "end"
                 /\ C!Ends(r, a).done = req[r].done /\ C!Ends(r, a).method = req[r].method
      BY <2>0 DEF C!Ends
    <2>6. /\ C!Retry(r) \in ReqType /\ C!Retry(r).pc = "throttle"
          /\ C!Retry(r).answer = req[r].answer
          /\ C!Retry(r).done = req[r].done /\ C!Retry(r).method = req[r].method
      BY <2>0 DEF C!Retry
    <2>7. CASE C!NotSent(r)
      <3> DEFINE x == IF C!MayRetry(r, FALSE) THEN C!Retry(r) ELSE C!Ends(r, "network")
      <3>1. x \in ReqType /\ Truthful(x)
        BY ZenonT(120), <2>0, <2>5, <2>6, <2>7 DEF C!NotSent
      <3>2. C!To(r, x) /\ conn' = conn /\ made' = made
        BY <2>7 DEF C!NotSent
      <3> HIDE DEF x
      <3> QED BY <2>0, <3>1, <3>2, RequestMoves
    <2>8. ASSUME NEW did \in 0..1, req[r].pc = "sent", NEW a \in {"network", "5xx"}
          PROVE  LET now1 == [req[r] EXCEPT !.done = @ + did]
                     again == [now1 EXCEPT !.pc = "throttle", !.via = 0]
                     over == [now1 EXCEPT !.pc = "end", !.via = 0, !.answer = a]
                 IN  /\ req[r].method # "POST" => again \in ReqType /\ Truthful(again)
                     /\ over \in ReqType /\ Truthful(over)
      <3> DEFINE now1 == [req[r] EXCEPT !.done = @ + did]
                 again == [now1 EXCEPT !.pc = "throttle", !.via = 0]
                 over == [now1 EXCEPT !.pc = "end", !.via = 0, !.answer = a]
      <3>1. req[r].done + did \in Nat
        BY <2>0
      <3>2. now1 \in ReqType /\ now1.done = req[r].done + did /\ now1.method = req[r].method
            /\ now1.answer = req[r].answer
        BY <2>0, <3>1
      <3> HIDE DEF now1
      <3>3. again \in ReqType /\ over \in ReqType
        BY <3>2
      <3>4. again.done = now1.done /\ again.method = now1.method /\ again.answer = now1.answer
        BY <3>2
      <3>5. over.done = now1.done /\ over.method = now1.method /\ over.answer = a /\ over.pc = "end"
        BY <3>2
      <3> HIDE DEF again, over
      <3>6. req[r].method # "POST" => Truthful(again)
        BY <2>0, <2>8, <3>2, <3>4
      <3>7. Truthful(over)
        BY <2>0, <2>8, <3>2, <3>5
      <3> QED BY <3>3, <3>6, <3>7 DEF now1, again, over
    <2>9. CASE C!NoAnswer(r)
      <3>1. PICK did \in 0..1 :
              LET now1 == [req[r] EXCEPT !.done = @ + did]
                  again == [now1 EXCEPT !.pc = "throttle", !.via = 0]
                  over == [now1 EXCEPT !.pc = "end", !.via = 0, !.answer = "network"]
              IN  C!To(r, IF C!MayRetry(r, TRUE) THEN again ELSE over)
        BY <2>9 DEF C!NoAnswer
      <3>2. C!MayRetry(r, TRUE) => req[r].method # "POST"
        BY DEF C!MayRetry, C!IDEMPOTENT
      <3>3. conn' = conn /\ made' = made /\ req[r].pc = "sent"
        BY <2>9 DEF C!NoAnswer
      <3> QED BY ZenonT(120), <2>0, <2>8, <3>1, <3>2, <3>3, RequestMoves
    <2>10. CASE C!Done(r)
      <3>1. CASE req[r].method = "DELETE" /\ req[r].done > 0
        <4>1. C!To(r, C!Ends(r, "refused")) /\ conn' = conn /\ made' = made
          BY <2>10, <3>1 DEF C!Done
        <4>2. Truthful(C!Ends(r, "refused"))
          BY <3>1, <2>5
        <4> QED BY <2>0, <2>5, <4>1, <4>2, RequestMoves
      <3>2. CASE ~(req[r].method = "DELETE" /\ req[r].done > 0)
        <4> DEFINE x == [C!Ends(r, "ok") EXCEPT !.done = @ + 1]
        <4>1. C!To(r, x) /\ conn' = conn /\ made' = made
          BY <2>10, <3>2 DEF C!Done
        <4>2. x \in ReqType /\ x.done = req[r].done + 1 /\ x.answer = "ok" /\ x.pc = "end"
              /\ x.method = req[r].method
          BY <2>0, <2>5
        <4>3. Truthful(x)
          <5> HIDE DEF x
          <5> QED BY <2>0, <2>10, <4>2 DEF C!Done, C!Answers
        <4> HIDE DEF x
        <4> QED BY <2>0, <4>1, <4>2, <4>3, RequestMoves
      <3> QED BY <3>1, <3>2
    <2>11. req[r].pc = "sent" => Truthful(C!Ends(r, "refused")) /\ Truthful(C!Retry(r))
      BY <2>0, <2>5, <2>6
    <2>12. CASE C!RefusedByApple(r)
      <3>1. C!To(r, C!Ends(r, "refused")) /\ conn' = conn /\ made' = made /\ req[r].pc = "sent"
        BY <2>12 DEF C!RefusedByApple, C!Answers
      <3> QED BY <2>0, <2>5, <2>11, <3>1, RequestMoves
    <2>13. CASE C!Unauthorized(r)
      <3>1. req[r].pc = "sent" /\ made' = made /\ conn' \in {0, conn}
        BY <2>13 DEF C!Unauthorized, C!Answers
      <3> DEFINE x == [C!Retry(r) EXCEPT !.refreshed = TRUE]
      <3>2. C!To(r, x) \/ C!To(r, C!Ends(r, "refused"))
        BY <2>13 DEF C!Unauthorized
      <3>3. x \in ReqType /\ Truthful(x)
        BY <2>0, <2>6, <3>1
      <3> HIDE DEF x
      <3> QED BY <2>0, <2>5, <2>11, <3>1, <3>2, <3>3, RequestMoves
    <2>14. CASE C!RateLimited(r)
      <3>1. /\ C!To(r, C!Ends(r, "refused")) \/ C!To(r, C!Retry(r))
            /\ conn' = conn /\ made' = made /\ req[r].pc = "sent"
        BY <2>14 DEF C!RateLimited, C!Answers
      <3> QED BY <2>0, <2>5, <2>6, <2>11, <3>1, RequestMoves
    <2>15. CASE C!ServerError(r)
      <3>1. PICK did \in 0..1 :
              LET now1 == [req[r] EXCEPT !.done = @ + did]
                  again == [now1 EXCEPT !.pc = "throttle", !.via = 0]
                  over == [now1 EXCEPT !.pc = "end", !.via = 0, !.answer = "5xx"]
              IN  C!To(r, IF ~C!Last(r) /\ req[r].method \in C!IDEMPOTENT THEN again ELSE over)
        BY <2>15 DEF C!ServerError
      <3>2. req[r].method \in C!IDEMPOTENT => req[r].method # "POST"
        BY DEF C!IDEMPOTENT
      <3>3. conn' = conn /\ made' = made /\ req[r].pc = "sent"
        BY <2>15 DEF C!ServerError, C!Answers
      <3> QED BY ZenonT(120), <2>0, <2>8, <3>1, <3>2, <3>3, RequestMoves
    <2> QED BY <1>3, <2>1, <2>2, <2>3, <2>4, <2>7, <2>9, <2>10, <2>12, <2>13, <2>14, <2>15
  <1> QED BY <1>1, <1>2, <1>3 DEF C!Next

\* However requests share the connection, are retried, cut off and answered
\* late, an answer says what Apple did, and a POST is done at most once.
THEOREM ClientAnswersAreTrue == C!Spec => []C!AnswerIsTrue
  <1>1. ClientInv => C!AnswerIsTrue
    BY DEF ClientInv, Truthful, C!AnswerIsTrue
  <1> QED BY <1>1, ClientInit, ClientStepHolds, PTL DEF C!Spec

-----------------------------------------------------------------------------
(* The cache of price ladders                                              *)

\* The Cardinality of the module that PriceLadders extends is the usual one.
LEMMA SameCount == \A S : L!Cardinality(S) = Cardinality(S)
  BY Zenon DEF L!Cardinality, Cardinality

Contents == {L!Half, L!Garbled, L!Ladder(Pages)}
LadderReq ==
  {L!Idle} \cup
  [pc : {"listing", "fetch", "open", "write", "counted", "read", "unlink"},
   got : SUBSET Pages, at : Nat]

\* A file in the cache holds a whole ladder unless it was cut or written over;
\* who is about to write has all pages.
FilesSound ==
  /\ IsFiniteSet(DOMAIN disk) /\ DOMAIN disk \subseteq Nat
  /\ disk \in [DOMAIN disk -> Contents]
  /\ name \in DOMAIN disk \cup {0} /\ 0 \notin DOMAIN disk
  /\ served \subseteq {Pages} /\ disturbed \in BOOLEAN
  /\ run \in [Runs -> LadderReq]
  /\ \A r \in Runs :
       /\ run[r].pc \in {"open", "write"} => run[r].got = Pages
       /\ run[r].pc = "write" => run[r].at \in DOMAIN disk

\* A request that nobody disturbed is alone, has cut the file it writes, and
\* leaves a whole ladder under the name.
AloneIsWhole ==
  ~disturbed => \A r \in Runs : run[r] # L!Idle =>
    /\ \A s \in Runs \ {r} : run[s] = L!Idle
    /\ run[r].pc = "write" => name = run[r].at /\ disk[name] = L!Half
    /\ run[r].pc = "counted" => name # 0 /\ disk[name] = L!Ladder(Pages)

LadderInv == FilesSound /\ AloneIsWhole

LEMMA LadderInit == L!Init => LadderInv
  <1> SUFFICES ASSUME L!Init PROVE LadderInv
    OBVIOUS
  <1>1. DOMAIN disk = {} /\ disk = [f \in {} |-> L!Half]
    BY DEF L!Init
  <1>2. IsFiniteSet(DOMAIN disk)
    BY <1>1, FS_EmptySet
  <1>3. \A r \in Runs : run[r] = L!Idle /\ L!Idle.pc = "idle"
    BY DEF L!Init, L!Idle
  <1>4. AloneIsWhole
    BY <1>3 DEF AloneIsWhole
  <1> QED BY <1>1, <1>2, <1>3, <1>4 DEF L!Init, LadderInv, FilesSound, LadderReq

\* A step of one request that leaves the files alone.
LEMMA LadderMoves ==
  ASSUME LadderInv, NEW r \in Runs, NEW x \in LadderReq, L!To(r, x),
         UNCHANGED disk, name' = name \/ (name' = 0 /\ x = L!Idle /\ run[r] # L!Idle),
         served' \subseteq {Pages}, disturbed' \in BOOLEAN,
         x.pc # "write" /\ x.pc # "counted", x.pc = "open" => x.got = Pages,
         ~disturbed' => ~disturbed /\ (x # L!Idle => \A s \in Runs \ {r} : run[s] = L!Idle)
  PROVE  LadderInv'
  <1>1. /\ run' = [run EXCEPT ![r] = x]
        /\ run'[r] = x /\ \A s \in Runs \ {r} : run'[s] = run[s]
    BY DEF L!To, LadderInv, FilesSound
  <1>2. run' \in [Runs -> LadderReq]
    BY <1>1 DEF LadderInv, FilesSound
  <1>3. FilesSound'
    BY <1>1, <1>2 DEF LadderInv, FilesSound
  <1>4. AloneIsWhole'
    <2> SUFFICES ASSUME ~disturbed', NEW q \in Runs, run'[q] # L!Idle
                 PROVE  /\ \A s \in Runs \ {q} : run'[s] = L!Idle
                        /\ run'[q].pc = "write" => name' = run'[q].at /\ disk'[name'] = L!Half
                        /\ run'[q].pc = "counted" => name' # 0 /\ disk'[name'] = L!Ladder(Pages)
      BY DEF AloneIsWhole
    <2>1. ~disturbed
      OBVIOUS
    <2>2. CASE q = r
      BY <1>1, <2>2
    <2>3. CASE q # r
      <3>1. run[q] # L!Idle /\ run'[q] = run[q] /\ x = L!Idle
        BY <1>1, <2>3
      <3>2. run[r] = L!Idle
        BY <2>1, <2>3, <3>1 DEF LadderInv, AloneIsWhole
      <3> QED BY <1>1, <2>1, <2>3, <3>1, <3>2 DEF LadderInv, AloneIsWhole
    <2> QED BY <2>2, <2>3
  <1> QED BY <1>3, <1>4 DEF LadderInv

LEMMA LadderStepHolds == ASSUME LadderInv, [L!Next]_(L!vars) PROVE LadderInv'
  <1>1. CASE UNCHANGED L!vars
    BY <1>1 DEF L!vars, LadderInv, FilesSound, AloneIsWhole
  <1>2. ASSUME NEW r \in Runs,
               \/ L!sync_price_points(r) \/ L!sync_iap_price_points(r)
               \/ L!pricing_sync_subscription_price_points(r) \/ L!pricing_sync_iap_price_points(r)
               \/ L!SkipCached(r) \/ L!FetchPage(r) \/ L!OpenFile(r) \/ L!WriteFile(r)
               \/ L!Counted(r) \/ L!Read(r) \/ L!ReadFile(r) \/ L!Unlink(r) \/ L!Dies(r)
        PROVE  LadderInv'
    <2>0. /\ run[r] \in LadderReq /\ L!Idle \in LadderReq /\ L!Idle.pc = "idle"
          /\ served \subseteq {Pages} /\ disturbed \in BOOLEAN
          /\ ~disturbed /\ run[r] # L!Idle => \A s \in Runs \ {r} : run[s] = L!Idle
      BY DEF LadderInv, FilesSound, AloneIsWhole, LadderReq, L!Idle
    <2>1. ASSUME NEW x \in LadderReq, L!Start(r, x), x.pc \in {"listing", "read"}
          PROVE  LadderInv'
      BY <2>0, <2>1, LadderMoves DEF L!Start, L!Others
    <2>2. CASE \/ L!sync_price_points(r) \/ L!sync_iap_price_points(r)
               \/ L!pricing_sync_subscription_price_points(r) \/ L!pricing_sync_iap_price_points(r)
               \/ L!Read(r)
      <3> DEFINE x == [pc |-> "listing", got |-> {}, at |-> 0]
                 y == [pc |-> "read", got |-> {}, at |-> 0]
      <3>1. x \in LadderReq /\ x.pc = "listing" /\ y \in LadderReq /\ y.pc = "read"
        BY DEF LadderReq
      <3>2. L!Start(r, x) \/ L!Start(r, y)
        BY <2>2 DEF L!sync_price_points, L!sync_iap_price_points, L!Read,
                    L!pricing_sync_subscription_price_points, L!pricing_sync_iap_price_points
      <3> HIDE DEF x, y
      <3> QED BY <2>1, <3>1, <3>2
    <2>3. CASE L!SkipCached(r)
      <3>1. run[r] # L!Idle /\ L!Step(r, "fetch") \in LadderReq /\ L!Step(r, "fetch").pc = "fetch"
        BY <2>0, <2>3 DEF L!SkipCached, L!Step, LadderReq
      <3>2. \E x \in {L!Idle, L!Step(r, "fetch")} : L!To(r, x)
        BY <2>3 DEF L!SkipCached
      <3> QED BY <2>0, <2>3, <3>1, <3>2, LadderMoves DEF L!SkipCached
    <2>4. CASE L!FetchPage(r)
      <3>1. run[r] # L!Idle /\ run[r].pc = "fetch"
        BY <2>0, <2>4 DEF L!FetchPage
      <3>2. CASE \E p \in Pages \ run[r].got : L!To(r, [run[r] EXCEPT !.got = @ \cup {p}])
        <4>1. PICK p \in Pages : L!To(r, [run[r] EXCEPT !.got = @ \cup {p}])
          BY <3>2
        <4> DEFINE x == [run[r] EXCEPT !.got = @ \cup {p}]
        <4>2. x \in LadderReq /\ x.pc = "fetch"
          BY <2>0, <3>1 DEF LadderReq
        <4> HIDE DEF x
        <4>3. L!To(r, x)
          BY <4>1 DEF x
        <4> QED BY <2>0, <2>4, <3>1, <4>2, <4>3, LadderMoves DEF L!FetchPage
      <3>3. CASE run[r].got = Pages /\ L!To(r, L!Step(r, "open"))
        <4>1. /\ L!Step(r, "open") \in LadderReq /\ L!Step(r, "open").pc = "open"
              /\ L!Step(r, "open").got = Pages
          BY <2>0, <3>1, <3>3 DEF L!Step, LadderReq
        <4> QED BY <2>0, <2>4, <3>1, <3>3, <4>1, LadderMoves DEF L!FetchPage
      <3>4. CASE L!To(r, L!Idle)
        BY <2>0, <2>4, <3>1, <3>4, LadderMoves DEF L!FetchPage
      <3> QED BY <2>4, <3>2, <3>3, <3>4 DEF L!FetchPage, L!AfterFailedPage
    <2>5. CASE L!ReadFile(r)
      <3>1. run[r] # L!Idle /\ L!Step(r, "unlink") \in LadderReq /\ L!Step(r, "unlink").pc = "unlink"
        BY <2>0, <2>5 DEF L!ReadFile, L!Step, LadderReq
      <3>2. \E x \in {L!Idle, L!Step(r, "unlink")} : L!To(r, x)
        BY <2>5 DEF L!ReadFile
      <3>3. name # 0 /\ L!Parses(disk[name]) => disk[name].pages = Pages
        BY DEF LadderInv, FilesSound, Contents, L!Parses, L!Half, L!Garbled, L!Ladder
      <3>4. served' \subseteq {Pages}
        BY <2>0, <2>5, <3>3 DEF L!ReadFile
      <3> QED BY <2>0, <2>5, <3>1, <3>2, <3>4, LadderMoves DEF L!ReadFile
    <2>6. CASE L!Unlink(r)
      BY <2>0, <2>6, LadderMoves DEF L!Unlink
    <2>7. CASE L!Dies(r)
      BY <2>0, <2>7, LadderMoves DEF L!Dies
    <2>8. CASE L!Counted(r)
      BY <2>0, <2>8, LadderMoves DEF L!Counted
    <2>9. CASE L!OpenFile(r)
      <3> DEFINE at == IF name = 0 THEN Cardinality(DOMAIN disk) + 1 ELSE name
                 x == [L!Step(r, "write") EXCEPT !.at = at]
      <3>1. /\ name' = at /\ L!To(r, x) /\ run[r].pc = "open"
            /\ disk' = [f \in DOMAIN disk \cup {at} |-> IF f = at THEN L!Half ELSE disk[f]]
            /\ UNCHANGED <<served, disturbed>>
        BY <2>9, SameCount DEF L!OpenFile
      <3>2. at \in Nat \ {0}
        BY FS_CardinalityType DEF LadderInv, FilesSound
      <3>3. IsFiniteSet(DOMAIN disk \cup {at})
        BY FS_AddElement DEF LadderInv, FilesSound
      <3> HIDE DEF at
      <3>4. DOMAIN disk' = DOMAIN disk \cup {at} /\ disk'[at] = L!Half
        BY <3>1
      <3>5. disk' \in [DOMAIN disk' -> Contents]
        BY <3>1 DEF LadderInv, FilesSound, Contents
      <3>6. L!Step(r, "write") \in LadderReq /\ L!Step(r, "write") # L!Idle
            /\ L!Step(r, "write").pc = "write" /\ L!Step(r, "write").got = Pages
        BY <2>0, <3>1 DEF LadderReq, LadderInv, FilesSound, L!Step, L!Idle
      <3>7. x \in LadderReq /\ x.pc = "write" /\ x.got = Pages /\ x.at = at
        BY <3>2, <3>6 DEF LadderReq, L!Idle
      <3> HIDE DEF x
      <3>8. run'[r] = x /\ \A s \in Runs \ {r} : run'[s] = run[s]
        BY <3>1 DEF L!To, LadderInv, FilesSound
      <3>9. run' \in [Runs -> LadderReq]
        BY <3>1, <3>7 DEF L!To, LadderInv, FilesSound
      <3>10. FilesSound'
        BY SMTT(60), <2>0, <3>1, <3>2, <3>3, <3>4, <3>5, <3>7, <3>8, <3>9 DEF LadderInv, FilesSound
      <3>11. run[r] # L!Idle
        BY <2>0, <3>1
      <3>12. AloneIsWhole'
        BY <2>0, <3>1, <3>4, <3>7, <3>8, <3>11 DEF AloneIsWhole
      <3> QED BY <3>10, <3>12 DEF LadderInv
    <2>10. CASE L!WriteFile(r)
      <3> DEFINE x == [L!Step(r, "counted") EXCEPT !.got = {}]
      <3>1. /\ L!To(r, x) /\ run[r].pc = "write" /\ UNCHANGED <<name, served, disturbed>>
            /\ \/ disk' = [disk EXCEPT ![run[r].at] = L!Ladder(run[r].got)]
               \/ L!Parses(disk[run[r].at]) /\ disk' = [disk EXCEPT ![run[r].at] = L!Garbled]
        BY <2>10 DEF L!WriteFile
      <3>2. run[r].got = Pages /\ run[r].at \in DOMAIN disk /\ run[r] # L!Idle
        BY <2>0, <3>1 DEF LadderInv, FilesSound
      <3>3. DOMAIN disk' = DOMAIN disk /\ disk' \in [DOMAIN disk -> Contents]
        BY <3>1, <3>2 DEF LadderInv, FilesSound, Contents
      <3>4. /\ L!Step(r, "counted") \in LadderReq /\ L!Step(r, "counted") # L!Idle
            /\ L!Step(r, "counted").pc = "counted"
        BY <2>0, <3>2 DEF LadderReq, L!Step, L!Idle
      <3>5. x \in LadderReq /\ x.pc = "counted"
        BY <3>4 DEF LadderReq, L!Idle
      <3> HIDE DEF x
      <3>6. run'[r] = x /\ \A s \in Runs \ {r} : run'[s] = run[s]
        BY <3>1 DEF L!To, LadderInv, FilesSound
      <3>7. run' \in [Runs -> LadderReq]
        BY <3>1, <3>5 DEF L!To, LadderInv, FilesSound
      <3>8. FilesSound'
        BY <3>1, <3>3, <3>5, <3>6, <3>7 DEF LadderInv, FilesSound
      <3>9. ASSUME ~disturbed PROVE name # 0 /\ disk'[name] = L!Ladder(Pages)
        <4>1. name = run[r].at /\ disk[name] = L!Half
          BY <3>1, <3>2, <3>9 DEF LadderInv, AloneIsWhole
        <4>2. ~L!Parses(disk[run[r].at])
          BY <4>1 DEF L!Parses, L!Half
        <4> QED BY <3>1, <3>2, <4>1, <4>2 DEF LadderInv, FilesSound
      <3>10. AloneIsWhole'
        BY <2>0, <3>1, <3>2, <3>5, <3>6, <3>9 DEF AloneIsWhole
      <3> QED BY <3>8, <3>10 DEF LadderInv
    <2> QED BY <1>2, <2>2, <2>3, <2>4, <2>5, <2>6, <2>7, <2>8, <2>9, <2>10
  <1> QED BY <1>1, <1>2 DEF L!Next

LEMMA LadderSound == LadderInv => L!LadderIsWhole
  BY DEF LadderInv, FilesSound, AloneIsWhole, L!LadderIsWhole, L!Idle

-----------------------------------------------------------------------------
(* Requests about reviews. *)


\* An id of Apple's is never the absence of one; a reply can be written.
ReplySetting ==
  /\ R!None \notin Reviews /\ R!None \notin Apps
  /\ MaxReplies \in Nat \ {0}

AskType ==
  [pc : {"sent", "look", "record", "forget", "end"},
   op : {R!None, "list", "get", "reviews_get", "create", "update", "delete"},
   app : Apps \cup {R!None}, review : Reviews \cup {R!None}, id : Nat,
   page : SUBSET (Reviews \X Nat), newReviews : SUBSET Reviews, newReplies : SUBSET Nat,
   hit : Reviews \cup {R!None}, answer : {R!None, "ok", "failed"}]

ReplyTypes ==
  /\ written \in Seq(Reviews) /\ Len(written) <= MaxReplies
  /\ reply \in [Reviews -> Nat]
  /\ appMap \in [Reviews -> Apps \cup {R!None}]
  /\ respMap \in [1..MaxReplies -> Reviews \cup {R!None}]
  /\ ask \in [Asks -> AskType]

\* A reply answers the review it was written for, which has it or has it no
\* longer.
RepliesSound == \A v \in Reviews : reply[v] # 0 => reply[v] \in 1..Len(written) /\ written[reply[v]] = v

\* Both tables hold what is so at Apple.
TablesSound ==
  /\ \A v \in Reviews : appMap[v] # R!None => v \in R!At(appMap[v])
  /\ \A i \in 1..MaxReplies : respMap[i] # R!None => i <= Len(written) /\ respMap[i] = written[i]

\* A request in progress has been let through by the tables.
Admitted(a) ==
  ask[a].pc # "end" =>
    /\ ask[a].app \in Apps
    /\ ask[a].pc = "sent" /\ ask[a].op \in {"get", "reviews_get", "create"} =>
         ask[a].review \in R!At(ask[a].app) /\ appMap[ask[a].review] # R!None
    /\ ask[a].op \in {"update", "delete"} =>
         /\ ask[a].id \in 1..Len(written) /\ written[ask[a].id] \in R!At(ask[a].app)
         /\ ask[a].review \in {R!None, written[ask[a].id]}

\* A page is of the app asked for, and its replies answer its reviews.
PageSound(a) ==
  /\ \A p \in ask[a].page :
       /\ p[1] \in R!At(ask[a].app)
       /\ p[2] # 0 => p[2] \in 1..Len(written) /\ written[p[2]] = p[1]
  /\ ask[a].pc \in {"look", "record"} /\ ask[a].op = "create" =>
       \A p \in ask[a].page : appMap[p[1]] # R!None
  /\ ask[a].pc \in {"sent", "forget"} => ask[a].page = {}

\* What is forgotten is gone, and its number is not used again.
ForgetsWhatIsGone(a) ==
  ask[a].pc = "forget" => ask[a].id \in 1..Len(written) /\ reply[written[ask[a].id]] # ask[a].id

AskHits(a) ==
  ask[a].hit # R!None =>
    ask[a].hit \in R!At(ask[a].app) /\ ask[a].review \in {R!None, ask[a].hit}

AskShown(a) ==
  ask[a].answer = "ok" => \A p \in ask[a].page :
    /\ appMap[p[1]] # R!None
    /\ reply[p[1]] = p[2] /\ p[2] # 0 => respMap[p[2]] = p[1]

\* Nothing is answered before the end.
AskWaits(a) == ask[a].pc # "end" => ask[a].answer = R!None

AskSound(a) == AskWaits(a) /\ Admitted(a) /\ PageSound(a) /\ ForgetsWhatIsGone(a) /\ AskHits(a) /\ AskShown(a)

ReplyInv == ReplyTypes /\ RepliesSound /\ TablesSound /\ \A a \in Asks : AskSound(a)

\* What no step undoes: replies stay replies to their reviews and their numbers
\* are not used again; a review on record stays on record, and so does the
\* reply a review has.
MadeGrows ==
  /\ Len(written) <= Len(written') /\ \A i \in 1..Len(written) : written'[i] = written[i]
  /\ \A v \in Reviews : appMap[v] # R!None => appMap'[v] # R!None
  /\ \A v \in Reviews : reply'[v] \in 1..Len(written) => reply'[v] = reply[v]
  /\ \A i \in 1..Len(written) :
       respMap[i] # R!None /\ reply'[written[i]] = i => respMap'[i] = respMap[i]

\* What is known of a request outlives the steps of the others.
LEMMA OtherAsksKeep ==
  ASSUME ReplySetting, ReplyTypes, ReplyTypes', MadeGrows, NEW b \in Asks, AskSound(b), ask'[b] = ask[b]
  PROVE  AskSound(b)'
  <1> USE DEF ReplySetting
  <1>t. ask[b] \in AskType /\ written \in Seq(Reviews) /\ written' \in Seq(Reviews)
        /\ Len(written) \in Nat /\ Len(written') \in Nat
    BY DEF ReplyTypes
  <1>r. ask[b].id \in Nat /\ ask[b].page \subseteq Reviews \X Nat /\ ask[b].review \in Reviews \cup {R!None}
    BY <1>t DEF AskType
  <1>1. Admitted(b)'
    <2> SUFFICES ASSUME ask[b].pc # "end" PROVE Admitted(b)'
      BY DEF Admitted
    <2>1. ask[b].app \in Apps
      BY DEF AskSound, Admitted
    <2>2. CASE ask[b].pc = "sent" /\ ask[b].op \in {"get", "reviews_get", "create"}
      <3>1. ask[b].review \in R!At(ask[b].app) /\ appMap[ask[b].review] # R!None
        BY <2>2 DEF AskSound, Admitted
      <3>2. appMap'[ask[b].review] # R!None
        BY <3>1 DEF MadeGrows, R!At
      <3> QED BY <2>1, <2>2, <3>1, <3>2 DEF Admitted
    <2>3. CASE ask[b].op \in {"update", "delete"}
      <3>1. ask[b].id \in 1..Len(written) /\ written[ask[b].id] \in R!At(ask[b].app)
            /\ ask[b].review \in {R!None, written[ask[b].id]}
        BY <2>3 DEF AskSound, Admitted
      <3>2. written'[ask[b].id] = written[ask[b].id] /\ ask[b].id \in 1..Len(written')
        BY <1>t, <3>1 DEF MadeGrows
      <3> QED BY <2>1, <2>3, <3>1, <3>2 DEF Admitted
    <2> QED BY <2>1, <2>2, <2>3 DEF Admitted
  <1>2. PageSound(b)'
    <2>1. ASSUME NEW p \in ask[b].page
          PROVE  /\ p[1] \in R!At(ask[b].app)
                 /\ p[2] # 0 => p[2] \in 1..Len(written') /\ written'[p[2]] = p[1]
      BY SMTT(60), <1>t, <1>r DEF AskSound, PageSound, MadeGrows
    <2>2. ASSUME ask[b].pc \in {"look", "record"}, ask[b].op = "create", NEW p \in ask[b].page
          PROVE  appMap'[p[1]] # R!None
      BY <1>r, <2>2 DEF AskSound, PageSound, MadeGrows
    <2> QED BY <2>1, <2>2 DEF AskSound, PageSound
  <1>3. ForgetsWhatIsGone(b)'
    <2> SUFFICES ASSUME ask[b].pc = "forget" PROVE ForgetsWhatIsGone(b)'
      BY DEF ForgetsWhatIsGone
    <2>1. ask[b].id \in 1..Len(written) /\ reply[written[ask[b].id]] # ask[b].id
      BY DEF AskSound, ForgetsWhatIsGone
    <2>2. written'[ask[b].id] = written[ask[b].id] /\ ask[b].id \in 1..Len(written') /\ written[ask[b].id] \in Reviews
      BY <1>t, <2>1 DEF MadeGrows
    <2> QED BY <2>1, <2>2 DEF MadeGrows, ForgetsWhatIsGone
  <1>4. AskHits(b)' /\ AskWaits(b)'
    BY DEF AskSound, AskHits, AskWaits
  <1>5. AskShown(b)'
    <2> SUFFICES ASSUME ask[b].answer = "ok", NEW p \in ask[b].page
                 PROVE  /\ appMap'[p[1]] # R!None
                        /\ reply'[p[1]] = p[2] /\ p[2] # 0 => respMap'[p[2]] = p[1]
      BY DEF AskShown
    <2>1. p[1] \in Reviews /\ p[2] \in Nat
      BY <1>r
    <2>2. appMap[p[1]] # R!None
      BY DEF AskSound, AskShown
    <2>3. ASSUME reply'[p[1]] = p[2], p[2] # 0 PROVE respMap'[p[2]] = p[1]
      <3>1. p[2] \in 1..Len(written) /\ written[p[2]] = p[1]
        BY <2>3 DEF AskSound, PageSound
      <3>2. reply[p[1]] = p[2]
        BY <2>1, <2>3, <3>1 DEF MadeGrows
      <3>3. respMap[p[2]] = p[1]
        BY <2>3, <3>2 DEF AskSound, AskShown
      <3> QED BY SMTT(60), <2>1, <2>3, <3>1, <3>3 DEF MadeGrows
    <2> QED BY <2>1, <2>2, <2>3 DEF MadeGrows
  <1> QED BY <1>1, <1>2, <1>3, <1>4, <1>5 DEF AskSound

LEMMA RepliesInitially == ASSUME ReplySetting, R!Init PROVE ReplyInv
  <1> USE DEF ReplySetting
  <1>1. \/ written = <<>> /\ \A v \in Reviews : written # <<v>>
        \/ \E v \in Reviews : written = <<v>>
    BY DEF R!Init
  <1>m. written \in Seq(Reviews) /\ Len(written) \in {0, 1}
    <2>1. CASE written = <<>>
      BY <2>1
    <2>2. ASSUME NEW v \in Reviews, written = <<v>> PROVE written \in Seq(Reviews) /\ Len(written) = 1
      BY <2>2
    <2> QED BY <1>1, <2>1, <2>2
  <1>2. R!Idle \in AskType
    BY DEF R!Idle, AskType
  <1>3. ReplyTypes
    <2>1. reply \in [Reviews -> Nat] /\ ask \in [Asks -> AskType]
      BY <1>2 DEF R!Init
    <2> QED BY <1>m, <2>1 DEF R!Init, ReplyTypes
  <1>4. RepliesSound
    <2> SUFFICES ASSUME NEW v \in Reviews, reply[v] # 0
                 PROVE  reply[v] \in 1..Len(written) /\ written[reply[v]] = v
      BY DEF RepliesSound
    <2>1. written = <<v>> /\ reply[v] = 1
      BY DEF R!Init
    <2> QED BY <2>1
  <1>5. TablesSound
    BY <1>m DEF R!Init, TablesSound
  <1>6. ASSUME NEW a \in Asks PROVE AskSound(a)
    BY DEF R!Init, R!Idle, AskSound, Admitted, PageSound, ForgetsWhatIsGone, AskHits, AskShown, AskWaits
  <1> QED BY <1>3, <1>4, <1>5, <1>6 DEF ReplyInv

\* A step of one request, which keeps Apple's side and the tables sound and
\* leaves the request sound.
LEMMA OneAskMoves ==
  ASSUME ReplySetting, ReplyInv, NEW a \in Asks, NEW rec \in AskType, R!To(a, rec),
         ReplyTypes', RepliesSound', TablesSound', MadeGrows, AskSound(a)'
  PROVE  ReplyInv'
  <1>1. ASSUME NEW b \in Asks, b # a PROVE AskSound(b)'
    <2>1. ask'[b] = ask[b]
      BY <1>1 DEF R!To, ReplyInv, ReplyTypes
    <2> QED BY <2>1, OtherAsksKeep DEF ReplyInv
  <1> QED BY <1>1 DEF ReplyInv

\* Where neither Apple's side nor the tables change.
LEMMA QuietAsk ==
  ASSUME ReplySetting, ReplyInv, UNCHANGED <<R!apple, R!tables>>, NEW a \in Asks, NEW rec \in AskType, R!To(a, rec)
  PROVE  ReplyTypes' /\ RepliesSound' /\ TablesSound' /\ MadeGrows /\ ask'[a] = rec
  <1>1. written' = written /\ reply' = reply /\ appMap' = appMap /\ respMap' = respMap
    BY DEF R!apple, R!tables
  <1>2. ReplyTypes' /\ ask'[a] = rec
    BY <1>1 DEF ReplyInv, ReplyTypes, R!To
  <1>3. RepliesSound' /\ TablesSound'
    BY <1>1 DEF ReplyInv, RepliesSound, TablesSound
  <1>4. MadeGrows
    <2>1. Len(written) \in Nat
      BY DEF ReplyInv, ReplyTypes
    <2> QED BY <1>1, <2>1 DEF MadeGrows
  <1> QED BY <1>2, <1>3, <1>4

LEMMA QuietAskStep ==
  ASSUME ReplySetting, ReplyInv, UNCHANGED <<R!apple, R!tables>>, NEW a \in Asks, NEW rec \in AskType, R!To(a, rec),
         ask'[a] = rec => AskSound(a)'
  PROVE  ReplyInv'
  BY QuietAsk, OneAskMoves

\* A request that has failed promises no more than where it wrote.
LEMMA AskFailed ==
  ASSUME NEW a \in Asks, ask'[a].pc = "end", ask'[a].answer = "failed", ask'[a].page = {}, AskHits(a)'
  PROVE  AskSound(a)'
  BY DEF AskSound, Admitted, PageSound, ForgetsWhatIsGone, AskShown, AskWaits

LEMMA EndsTyped ==
  ASSUME ReplyTypes, NEW a \in Asks, NEW answer \in {"ok", "failed"}
  PROVE  /\ R!Ends(a, answer) \in AskType
         /\ R!Ends(a, answer) = [ask[a] EXCEPT !.pc = "end", !.answer = answer,
              !.newReviews = {}, !.newReplies = {}, !.page = IF answer = "ok" THEN @ ELSE {}]
  <1>1. ask[a] \in AskType
    BY DEF ReplyTypes
  <1>2. ask[a].page \in SUBSET (Reviews \X Nat) /\ {} \in SUBSET (Reviews \X Nat)
    BY <1>1 DEF AskType
  <1>3. (IF answer = "ok" THEN ask[a].page ELSE {}) \in SUBSET (Reviews \X Nat)
    BY <1>2
  <1> QED BY ZenonT(120), <1>1, <1>3 DEF AskType, R!Ends

\* A request is let through.
LEMMA BeginKeeps ==
  ASSUME ReplySetting, ReplyInv, NEW a \in Asks, R!Begin(a) PROVE ReplyInv'
  <1> USE DEF ReplySetting
  <1>i. ReplyTypes /\ TablesSound /\ written \in Seq(Reviews) /\ Len(written) \in Nat
    BY DEF ReplyInv, ReplyTypes
  <1>1. ASSUME NEW app \in Apps, R!list_reviews(a, app) PROVE ReplyInv'
    <2> DEFINE rec == [R!Idle EXCEPT !.pc = "sent", !.op = "list", !.app = app]
    <2>1. rec \in AskType /\ R!To(a, rec) /\ UNCHANGED <<R!apple, R!tables>>
      BY <1>1 DEF R!list_reviews, R!Come, R!Idle, AskType
    <2>2. ASSUME ask'[a] = rec PROVE AskSound(a)'
      BY <2>2 DEF R!Idle, AskSound, Admitted, PageSound, ForgetsWhatIsGone, AskHits, AskShown, AskWaits
    <2> HIDE DEF rec
    <2> QED BY <2>1, <2>2, QuietAskStep
  <1>2. ASSUME NEW app \in Apps, NEW review \in Reviews, NEW op \in {"get", "reviews_get", "create"},
               R!OfApp(review, app),
               R!Come(a, [R!Idle EXCEPT !.pc = "sent", !.op = op, !.app = app, !.review = review])
        PROVE  ReplyInv'
    <2> DEFINE rec == [R!Idle EXCEPT !.pc = "sent", !.op = op, !.app = app, !.review = review]
    <2>1. rec \in AskType /\ R!To(a, rec) /\ UNCHANGED <<R!apple, R!tables>>
      BY <1>2 DEF R!Come, R!Idle, AskType
    <2>2. appMap[review] = app /\ app # R!None /\ review \in R!At(app)
      BY <1>i, <1>2 DEF R!OfApp, TablesSound
    <2>3. ASSUME ask'[a] = rec PROVE AskSound(a)'
      <3>1. appMap'[review] # R!None
        BY <2>1, <2>2 DEF R!tables
      <3> QED BY <2>2, <2>3, <3>1 DEF R!Idle, AskSound, Admitted, PageSound, ForgetsWhatIsGone, AskHits, AskShown, AskWaits
    <2> HIDE DEF rec
    <2> QED BY <2>1, <2>3, QuietAskStep
  <1>3. ASSUME NEW app \in Apps, NEW review \in Reviews \cup {R!None}, NEW id \in DOMAIN written,
               NEW op \in {"update", "delete"}, R!Change(a, op, app, review, id)
        PROVE  ReplyInv'
    <2> DEFINE rec == [R!Idle EXCEPT !.pc = "sent", !.op = op, !.app = app, !.review = review, !.id = id]
    <2>0. id \in 1..Len(written) /\ id \in 1..MaxReplies
      BY <1>i DEF ReplyTypes
    <2>a. id \in Nat /\ op \in {R!None, "list", "get", "reviews_get", "create", "update", "delete"}
      BY <2>0
    <2>b. rec \in AskType
      BY <2>a DEF R!Idle, AskType
    <2>1. R!To(a, rec) /\ UNCHANGED <<R!apple, R!tables>>
      BY <1>3 DEF R!Change, R!Come
    <2>2. respMap[id] = written[id] /\ review \in {R!None, written[id]} /\ written[id] \in Reviews
      BY <1>i, <1>3, <2>0 DEF R!Change, R!OfReview, TablesSound
    <2>3. written[id] \in R!At(app)
      BY <1>i, <1>3, <2>2 DEF R!Change, R!OfReview, R!OfApp, TablesSound
    <2>4. ASSUME ask'[a] = rec PROVE AskSound(a)'
      <3>1. written' = written
        BY <2>1 DEF R!apple
      <3> QED BY <2>0, <2>2, <2>3, <2>4, <3>1
          DEF R!Idle, AskSound, Admitted, PageSound, ForgetsWhatIsGone, AskHits, AskShown, AskWaits
    <2> HIDE DEF rec
    <2> QED BY <2>b, <2>1, <2>4, QuietAskStep
  <1> QED BY <1>1, <1>2, <1>3
      DEF R!Begin, R!get_review, R!reviews_get, R!create_reply, R!update_reply, R!delete_reply,
          R!reviews_update_response, R!reviews_delete_response

\* Apple reads, refuses, or the request dies.
LEMMA ReadKeeps ==
  ASSUME ReplySetting, ReplyInv, NEW a \in Asks, R!Read(a) PROVE ReplyInv'
  <1> USE DEF ReplySetting
  <1>i. ReplyTypes /\ RepliesSound /\ AskSound(a) /\ ask[a] \in AskType
    BY DEF ReplyInv, ReplyTypes
  <1>1. PICK got \in SUBSET (IF ask[a].op = "list" THEN R!At(ask[a].app) ELSE {ask[a].review}) :
          R!To(a, [ask[a] EXCEPT !.pc = "look", !.page = R!Page(got)])
    BY DEF R!Read
  <1> DEFINE rec == [ask[a] EXCEPT !.pc = "look", !.page = R!Page(got)]
  <1>2. ask[a].pc = "sent" /\ ask[a].op \in {"list", "get", "reviews_get"} /\ UNCHANGED <<R!apple, R!tables>>
    BY DEF R!Read
  <1>3. got \subseteq R!At(ask[a].app) /\ got \subseteq Reviews
    BY <1>i, <1>1, <1>2 DEF AskSound, Admitted, R!At
  <1>4. R!Page(got) \in SUBSET (Reviews \X Nat)
    BY <1>i, <1>3 DEF R!Page, ReplyTypes
  <1>5. rec \in AskType
    BY <1>i, <1>4 DEF AskType
  <1>6. ASSUME NEW p \in R!Page(got)
        PROVE  p[1] \in R!At(ask[a].app) /\ (p[2] # 0 => p[2] \in 1..Len(written) /\ written[p[2]] = p[1])
    <2>1. PICK v \in got : p = <<v, reply[v]>>
      BY <1>6 DEF R!Page
    <2> QED BY <1>i, <1>3, <2>1 DEF RepliesSound
  <1>7. ASSUME ask'[a] = rec PROVE AskSound(a)'
    <2>1. written' = written /\ appMap' = appMap
      BY <1>2 DEF R!apple, R!tables
    <2>2. /\ rec.pc = "look" /\ rec.page = R!Page(got) /\ rec.op = ask[a].op /\ rec.app = ask[a].app
          /\ rec.review = ask[a].review /\ rec.hit = ask[a].hit /\ rec.answer = ask[a].answer
      BY <1>i DEF AskType
    <2>3. ask[a].answer # "ok"
      BY <1>i, <1>2 DEF AskSound, AskWaits, R!None
    <2>4. Admitted(a)' /\ AskHits(a)' /\ AskWaits(a)'
      BY <1>i, <1>2, <1>7, <2>2, <2>3 DEF AskSound, Admitted, AskHits, AskWaits
    <2>5. PageSound(a)'
      BY <1>2, <1>6, <1>7, <2>1, <2>2 DEF PageSound
    <2> QED BY <1>7, <2>2, <2>3, <2>4, <2>5 DEF AskSound, ForgetsWhatIsGone, AskShown
  <1> HIDE DEF rec
  <1> QED BY <1>1, <1>2, <1>5, <1>7, QuietAskStep DEF rec

\* A request fails without having written anything: refused, or cancelled.
LEMMA FailureKeeps ==
  ASSUME ReplySetting, ReplyInv, NEW a \in Asks, R!Refuse(a) \/ R!Dies(a) PROVE ReplyInv'
  <1> DEFINE rec == R!Ends(a, "failed")
  <1>1. rec \in AskType /\ R!To(a, rec) /\ UNCHANGED <<R!apple, R!tables>>
    BY EndsTyped DEF ReplyInv, R!Refuse, R!Dies
  <1>2. ASSUME ask'[a] = rec PROVE AskSound(a)'
    <2>1. ask[a] \in AskType /\ AskHits(a)
      BY DEF ReplyInv, ReplyTypes, AskSound
    <2>2. rec.pc = "end" /\ rec.answer = "failed" /\ rec.page = {} /\ rec.hit = ask[a].hit
          /\ rec.app = ask[a].app /\ rec.review = ask[a].review
      BY <2>1 DEF AskType, R!Ends
    <2>3. AskHits(a)'
      BY <1>2, <2>1, <2>2 DEF AskHits
    <2> QED BY <1>2, <2>2, <2>3, AskFailed
  <1> HIDE DEF rec
  <1> QED BY <1>1, <1>2, QuietAskStep

\* A reply is made: it gets the next number, or the review keeps the one it has.
LEMMA ReplyGrows ==
  ASSUME ReplySetting, ReplyTypes, RepliesSound, TablesSound, NEW v \in Reviews, NEW i \in Nat,
         i = (IF reply[v] = 0 THEN Len(written) + 1 ELSE reply[v]), i <= MaxReplies,
         reply' = [reply EXCEPT ![v] = i],
         written' = (IF i > Len(written) THEN Append(written, v) ELSE written),
         UNCHANGED R!tables, ask' \in [Asks -> AskType]
  PROVE  /\ ReplyTypes' /\ RepliesSound' /\ TablesSound' /\ MadeGrows
         /\ i \in 1..Len(written') /\ written'[i] = v
  <1> USE DEF ReplySetting
  <1>i. written \in Seq(Reviews) /\ Len(written) \in Nat /\ Len(written) <= MaxReplies /\ MaxReplies \in Nat
    BY DEF ReplyTypes
  <1>1. \/ i = Len(written) + 1 /\ written' = Append(written, v) /\ reply[v] = 0
        \/ i \in 1..Len(written) /\ written' = written /\ reply[v] = i
    BY <1>i DEF RepliesSound
  <1>2. /\ written' \in Seq(Reviews) /\ Len(written') \in Nat
        /\ Len(written) <= Len(written') /\ Len(written') <= MaxReplies
        /\ \A k \in 1..Len(written) : written'[k] = written[k]
        /\ i \in 1..Len(written') /\ written'[i] = v
    <2>1. CASE i = Len(written) + 1 /\ written' = Append(written, v)
      BY <1>i, <2>1
    <2>2. CASE i \in 1..Len(written) /\ written' = written /\ reply[v] = i
      BY <1>i, <2>2 DEF RepliesSound
    <2> QED BY <1>1, <2>1, <2>2
  <1>3. appMap' = appMap /\ respMap' = respMap
    BY DEF R!tables
  <1>4. reply' \in [Reviews -> Nat]
    BY DEF ReplyTypes
  <1>5. ReplyTypes'
    BY <1>2, <1>3, <1>4 DEF ReplyTypes
  <1>6. RepliesSound'
    <2> SUFFICES ASSUME NEW w \in Reviews, reply'[w] # 0
                 PROVE  reply'[w] \in 1..Len(written') /\ written'[reply'[w]] = w
      BY DEF RepliesSound
    <2>1. CASE w = v
      BY <1>2, <2>1 DEF ReplyTypes
    <2>2. CASE w # v
      <3>1. reply'[w] = reply[w]
        BY <2>2 DEF ReplyTypes
      <3>2. reply[w] \in 1..Len(written) /\ written[reply[w]] = w
        BY <3>1 DEF RepliesSound
      <3> QED BY <1>i, <1>2, <3>1, <3>2
    <2> QED BY <2>1, <2>2
  <1>7. TablesSound'
    <2>1. ASSUME NEW k \in 1..MaxReplies, respMap[k] # R!None
          PROVE  k <= Len(written') /\ respMap[k] = written'[k]
      BY <1>i, <1>2, <2>1 DEF TablesSound
    <2> QED BY <1>3, <2>1 DEF TablesSound
  <1>8. MadeGrows
    <2>1. ASSUME NEW w \in Reviews, reply'[w] \in 1..Len(written) PROVE reply'[w] = reply[w]
      BY <1>i, <1>1, <2>1 DEF ReplyTypes
    <2> QED BY <1>2, <1>3, <2>1 DEF MadeGrows
  <1> QED BY <1>2, <1>5, <1>6, <1>7, <1>8

\* A reply is taken away.
LEMMA ReplyGoes ==
  ASSUME ReplySetting, ReplyTypes, RepliesSound, TablesSound, NEW v \in Reviews,
         reply' = [reply EXCEPT ![v] = 0], written' = written,
         UNCHANGED R!tables, ask' \in [Asks -> AskType]
  PROVE  ReplyTypes' /\ RepliesSound' /\ TablesSound' /\ MadeGrows
  <1>1. appMap' = appMap /\ respMap' = respMap /\ Len(written) \in Nat
    BY DEF R!tables, ReplyTypes
  <1>2. reply' \in [Reviews -> Nat]
    BY DEF ReplyTypes
  <1>3. \A w \in Reviews : reply'[w] \in {0, reply[w]}
    BY DEF ReplyTypes
  <1>4. ReplyTypes'
    BY <1>1, <1>2 DEF ReplyTypes
  <1>5. RepliesSound'
    BY <1>3 DEF RepliesSound
  <1>6. TablesSound'
    BY <1>1 DEF TablesSound
  <1>7. MadeGrows
    BY <1>1, <1>3 DEF MadeGrows
  <1> QED BY <1>4, <1>5, <1>6, <1>7

\* Somebody writes or removes a reply in App Store Connect.
LEMMA PersonKeeps ==
  ASSUME ReplySetting, ReplyInv, R!Person PROVE ReplyInv'
  <1> USE DEF ReplySetting
  <1>i. ReplyTypes /\ RepliesSound /\ TablesSound /\ Len(written) \in Nat /\ MaxReplies \in Nat
    BY DEF ReplyInv, ReplyTypes
  <1>1. UNCHANGED R!tables /\ ask' = ask /\ ask' \in [Asks -> AskType]
    BY <1>i DEF R!Person, ReplyTypes
  <1>2. PICK v \in Reviews :
          \/ /\ reply[v] = 0 /\ Len(written) < MaxReplies
             /\ written' = Append(written, v) /\ reply' = [reply EXCEPT ![v] = Len(written')]
          \/ reply[v] # 0 /\ reply' = [reply EXCEPT ![v] = 0] /\ UNCHANGED written
    BY DEF R!Person
  <1>3. ReplyTypes' /\ RepliesSound' /\ TablesSound' /\ MadeGrows
    <2>1. CASE reply[v] = 0 /\ Len(written) < MaxReplies
               /\ written' = Append(written, v) /\ reply' = [reply EXCEPT ![v] = Len(written')]
      <3>1. Len(written') = Len(written) + 1
        BY <1>i, <2>1 DEF ReplyTypes
      <3>2. /\ Len(written') = (IF reply[v] = 0 THEN Len(written) + 1 ELSE reply[v])
            /\ written' = (IF Len(written') > Len(written) THEN Append(written, v) ELSE written)
            /\ Len(written') \in Nat /\ Len(written') <= MaxReplies
        BY <1>i, <2>1, <3>1
      <3> QED BY <1>i, <1>1, <2>1, <3>2, ReplyGrows
    <2>2. CASE reply' = [reply EXCEPT ![v] = 0] /\ written' = written
      BY <1>i, <1>1, <2>2, ReplyGoes
    <2> QED BY <1>2, <2>1, <2>2
  <1>4. ASSUME NEW b \in Asks PROVE AskSound(b)'
    <2>1. ask'[b] = ask[b] /\ AskSound(b)
      BY <1>1 DEF ReplyInv
    <2> QED BY <1>i, <1>3, <2>1, OtherAsksKeep
  <1> QED BY <1>3, <1>4 DEF ReplyInv

\* A reply is sent: to the review that was admitted.
LEMMA WriteKeeps ==
  ASSUME ReplySetting, ReplyInv, NEW a \in Asks, R!Write(a) PROVE ReplyInv'
  <1> USE DEF ReplySetting
  <1> DEFINE v == ask[a].review
             i == IF reply[v] = 0 THEN Len(written) + 1 ELSE reply[v]
             good == [ask[a] EXCEPT !.pc = "look", !.page = {<<v, i>>}, !.hit = v]
             bad  == [R!Ends(a, "failed") EXCEPT !.hit = v]
  <1>i. /\ ReplyTypes /\ RepliesSound /\ TablesSound /\ AskSound(a)
        /\ ask[a] \in AskType /\ Len(written) \in Nat
    BY DEF ReplyInv, ReplyTypes
  <1>1. ask[a].pc = "sent" /\ ask[a].op = "create" /\ UNCHANGED R!tables
    BY DEF R!Write
  <1>2. v \in Reviews /\ v \in R!At(ask[a].app) /\ ask[a].app \in Apps /\ appMap[v] # R!None
    BY <1>i, <1>1 DEF AskSound, Admitted, R!At
  <1>3. i \in Nat
    BY <1>i, <1>2 DEF ReplyTypes
  <1>4. i <= MaxReplies /\ reply' = [reply EXCEPT ![v] = i]
        /\ written' = (IF i > Len(written) THEN Append(written, v) ELSE written)
        /\ (R!To(a, good) \/ R!To(a, bad))
    BY DEF R!Write
  <1>5. good \in AskType
    <2>1. {<<v, i>>} \in SUBSET (Reviews \X Nat)
      BY <1>2, <1>3
    <2> QED BY ZenonT(120), <1>i, <1>2, <2>1 DEF AskType
  <1>6. bad \in AskType
    BY ZenonT(120), <1>i, <1>2, EndsTyped DEF AskType
  <1> HIDE DEF good, bad
  <1>7. ask' \in [Asks -> AskType]
    BY <1>i, <1>4, <1>5, <1>6 DEF R!To, ReplyTypes
  <1>8. /\ ReplyTypes' /\ RepliesSound' /\ TablesSound' /\ MadeGrows
        /\ i \in 1..Len(written') /\ written'[i] = v
    BY <1>i, <1>1, <1>2, <1>3, <1>4, <1>7, ReplyGrows
  <1> HIDE DEF i
  <1>9. CASE R!To(a, good)
    <2>1. ask'[a] = good
      BY <1>i, <1>9 DEF R!To, ReplyTypes
    <2>2. /\ good.pc = "look" /\ good.page = {<<v, i>>} /\ good.hit = v /\ good.op = "create"
          /\ good.app = ask[a].app /\ good.review = v /\ good.answer = ask[a].answer
      BY <1>i, <1>1 DEF good, AskType
    <2>3. ask[a].answer = R!None /\ R!None # "ok"
      BY <1>i, <1>1 DEF AskSound, AskWaits, R!None
    <2>4. appMap'[v] # R!None
      BY <1>1, <1>2 DEF R!tables
    <2>5. PageSound(a)'
      BY <1>2, <1>8, <2>1, <2>2, <2>4 DEF PageSound
    <2>6. AskSound(a)'
      BY <1>2, <2>1, <2>2, <2>3, <2>5 DEF AskSound, AskWaits, Admitted, ForgetsWhatIsGone, AskHits, AskShown
    <2> QED BY <1>5, <1>8, <1>9, <2>6, OneAskMoves
  <1>10. CASE R!To(a, bad)
    <2>1. ask'[a] = bad
      BY <1>i, <1>10 DEF R!To, ReplyTypes
    <2>2. /\ bad.pc = "end" /\ bad.answer = "failed" /\ bad.page = {} /\ bad.hit = v
          /\ bad.app = ask[a].app /\ bad.review = v
      BY <1>i DEF bad, AskType, R!Ends
    <2>3. AskHits(a)'
      BY <1>2, <2>1, <2>2 DEF AskHits
    <2>4. AskSound(a)'
      BY <2>1, <2>2, <2>3, AskFailed
    <2> QED BY <1>6, <1>8, <1>10, <2>4, OneAskMoves
  <1> QED BY <1>4, <1>9, <1>10

\* A reply is edited: the one that was admitted, and so its review.
LEMMA EditKeeps ==
  ASSUME ReplySetting, ReplyInv, NEW a \in Asks, R!Edit(a) PROVE ReplyInv'
  <1> USE DEF ReplySetting
  <1> DEFINE v == written[ask[a].id]
  <1>i. /\ ReplyTypes /\ AskSound(a) /\ ask[a] \in AskType
    BY DEF ReplyInv, ReplyTypes
  <1>1. ask[a].pc = "sent" /\ ask[a].op = "update" /\ UNCHANGED <<R!apple, R!tables>>
    BY DEF R!Edit
  <1>2. PICK answer \in {"ok", "failed"} : R!To(a, [R!Ends(a, answer) EXCEPT !.hit = v])
    BY DEF R!Edit
  <1>3. v \in R!At(ask[a].app) /\ v \in Reviews /\ ask[a].review \in {R!None, v} /\ ask[a].page = {}
    BY <1>i, <1>1 DEF AskSound, Admitted, PageSound, R!At
  <1> DEFINE rec == [R!Ends(a, answer) EXCEPT !.hit = v]
  <1>4. rec \in AskType
    <2>1. R!Ends(a, answer) \in AskType
      BY <1>i, EndsTyped
    <2>2. v \in Reviews \cup {R!None}
      BY <1>3
    <2> HIDE DEF v
    <2> QED BY SMTT(60), <2>1, <2>2 DEF AskType
  <1>5. ASSUME ask'[a] = rec PROVE AskSound(a)'
    <2>1. /\ rec.pc = "end" /\ rec.answer \in {"ok", "failed"} /\ rec.page = {} /\ rec.hit = v
          /\ rec.app = ask[a].app /\ rec.review = ask[a].review
      BY <1>i, <1>3 DEF AskType, R!Ends
    <2> HIDE DEF rec, v
    <2> QED BY <1>3, <1>5, <2>1 DEF AskSound, AskWaits, Admitted, PageSound, ForgetsWhatIsGone, AskHits, AskShown
  <1> HIDE DEF rec
  <1> QED BY <1>1, <1>2, <1>4, <1>5, QuietAskStep DEF rec

\* A reply is removed: its number is not the review's any more.
LEMMA RemoveKeeps ==
  ASSUME ReplySetting, ReplyInv, NEW a \in Asks, R!Remove(a) PROVE ReplyInv'
  <1> USE DEF ReplySetting
  <1> DEFINE v == written[ask[a].id]
             good == [ask[a] EXCEPT !.pc = "forget", !.hit = v]
             bad  == [R!Ends(a, "failed") EXCEPT !.hit = v]
  <1>i. /\ ReplyTypes /\ RepliesSound /\ TablesSound /\ AskSound(a)
        /\ ask[a] \in AskType /\ Len(written) \in Nat
    BY DEF ReplyInv, ReplyTypes
  <1>1. ask[a].pc = "sent" /\ ask[a].op = "delete" /\ UNCHANGED R!tables /\ written' = written
    BY DEF R!Remove
  <1>2. reply' = [reply EXCEPT ![v] = 0] /\ (R!To(a, good) \/ R!To(a, bad))
    BY DEF R!Remove
  <1>3. /\ v \in R!At(ask[a].app) /\ v \in Reviews /\ ask[a].app \in Apps
        /\ ask[a].review \in {R!None, v} /\ ask[a].page = {} /\ ask[a].id \in 1..Len(written)
    BY <1>i, <1>1 DEF AskSound, Admitted, PageSound, R!At
  <1>4. good \in AskType /\ bad \in AskType
    <2>1. good \in AskType
      BY <1>i, <1>3 DEF AskType
    <2>2. bad \in AskType
      BY ZenonT(120), <1>i, <1>3, EndsTyped DEF AskType
    <2> QED BY <2>1, <2>2
  <1>5. /\ good.pc = "forget" /\ good.page = {} /\ good.hit = v /\ good.op = "delete" /\ good.id = ask[a].id
        /\ good.app = ask[a].app /\ good.review = ask[a].review /\ good.answer = ask[a].answer
    BY <1>i, <1>1, <1>3 DEF AskType
  <1>6. /\ bad.pc = "end" /\ bad.answer = "failed" /\ bad.page = {} /\ bad.hit = v
        /\ bad.app = ask[a].app /\ bad.review = ask[a].review
    BY <1>i DEF AskType, R!Ends
  <1> HIDE DEF good, bad
  <1>7. ask' \in [Asks -> AskType]
    BY <1>i, <1>2, <1>4 DEF R!To, ReplyTypes
  <1>8. ReplyTypes' /\ RepliesSound' /\ TablesSound' /\ MadeGrows
    BY <1>i, <1>1, <1>2, <1>3, <1>7, ReplyGoes
  <1>9. CASE R!To(a, good)
    <2>1. ask'[a] = good
      BY <1>i, <1>9 DEF R!To, ReplyTypes
    <2>2. ask[a].answer = R!None /\ R!None # "ok"
      BY <1>i, <1>1 DEF AskSound, AskWaits, R!None
    <2>3. ForgetsWhatIsGone(a)'
      <3>1. reply'[v] = 0
        BY <1>2, <1>3, <1>i DEF ReplyTypes
      <3> QED BY <1>1, <1>3, <1>5, <2>1, <3>1 DEF ForgetsWhatIsGone
    <2>4. Admitted(a)'
      BY <1>1, <1>3, <1>5, <2>1 DEF Admitted
    <2>5. AskSound(a)'
      BY <1>3, <1>5, <2>1, <2>2, <2>3, <2>4 DEF AskSound, AskWaits, PageSound, AskHits, AskShown
    <2> QED BY <1>4, <1>8, <1>9, <2>5, OneAskMoves
  <1>10. CASE R!To(a, bad)
    <2>1. ask'[a] = bad
      BY <1>i, <1>10 DEF R!To, ReplyTypes
    <2>2. AskHits(a)'
      BY <1>3, <1>6, <2>1 DEF AskHits
    <2>3. AskSound(a)'
      BY <1>6, <2>1, <2>2, AskFailed
    <2> QED BY <1>4, <1>8, <1>10, <2>3, OneAskMoves
  <1> QED BY <1>2, <1>9, <1>10

\* The SELECT of the upserts only adds to what the request knows.
LEMMA LookKeeps ==
  ASSUME ReplySetting, ReplyInv, NEW a \in Asks, R!Look(a) PROVE ReplyInv'
  <1> DEFINE page == ask[a].page
             unseen == IF ask[a].op = "create" THEN {} ELSE {p \in page : appMap[p[1]] = R!None}
             named == {p[1] : p \in unseen}
             replies == {p[2] : p \in {q \in R!Pairs(page) : respMap[q[2]] = R!None}}
             rec == [ask[a] EXCEPT !.pc = "record", !.newReviews = named, !.newReplies = replies]
  <1>i. AskSound(a) /\ ask[a] \in AskType
    BY DEF ReplyInv, ReplyTypes
  <1>1. ask[a].pc = "look" /\ R!To(a, rec) /\ UNCHANGED <<R!apple, R!tables>>
    BY DEF R!Look
  <1>2. page \subseteq Reviews \X Nat
    BY <1>i DEF AskType
  <1>3. named \subseteq Reviews /\ replies \subseteq Nat
    <2>1. unseen \subseteq page /\ R!Pairs(page) \subseteq page
      BY DEF R!Pairs
    <2> QED BY <1>2, <2>1
  <1> HIDE DEF named, replies, page
  <1>4. rec \in AskType
    BY <1>i, <1>3 DEF AskType
  <1>5. ASSUME ask'[a] = rec PROVE AskSound(a)'
    <2>1. /\ rec.pc = "record" /\ rec.page = ask[a].page /\ rec.op = ask[a].op /\ rec.app = ask[a].app
          /\ rec.review = ask[a].review /\ rec.hit = ask[a].hit /\ rec.id = ask[a].id
          /\ rec.answer = ask[a].answer
      BY <1>i DEF AskType
    <2>2. written' = written /\ appMap' = appMap
      BY <1>1 DEF R!apple, R!tables
    <2>3. ask[a].answer = R!None /\ R!None # "ok"
      BY <1>i, <1>1 DEF AskSound, AskWaits, R!None
    <2> HIDE DEF rec
    <2>4. Admitted(a)' /\ PageSound(a)'
      BY <1>i, <1>1, <1>5, <2>1, <2>2 DEF AskSound, Admitted, PageSound
    <2> QED BY <1>i, <1>5, <2>1, <2>3, <2>4 DEF AskSound, AskWaits, ForgetsWhatIsGone, AskHits, AskShown
  <1> HIDE DEF rec
  <1> QED BY <1>1, <1>4, <1>5, QuietAskStep

\* What was on the page goes on record, or the request fails.
LEMMA RecordKeeps ==
  ASSUME ReplySetting, ReplyInv, NEW a \in Asks, R!Record(a) PROVE ReplyInv'
  <1> USE DEF ReplySetting
  <1> DEFINE page == ask[a].page
             app  == ask[a].app
  <1>i. /\ ReplyTypes /\ RepliesSound /\ TablesSound /\ AskSound(a) /\ ask[a] \in AskType
        /\ Len(written) \in Nat /\ Len(written) <= MaxReplies
    BY DEF ReplyInv, ReplyTypes
  <1>1. ask[a].pc = "record" /\ written' = written /\ reply' = reply
    BY DEF R!Record, R!apple
  <1>2. PICK answer \in {"ok", "failed"} : R!To(a, R!Ends(a, answer)) /\ (R!Collides(a) => answer = "failed")
    BY SMTT(60) DEF R!Record
  <1>3. R!Ends(a, answer) \in AskType
    BY <1>i, EndsTyped
  <1>4. ask'[a] = R!Ends(a, answer) /\ ask' \in [Asks -> AskType]
    BY <1>i, <1>2, <1>3 DEF R!To, ReplyTypes
  <1>5. /\ ask'[a].pc = "end" /\ ask'[a].answer = answer /\ ask'[a].hit = ask[a].hit
        /\ ask'[a].page = (IF answer = "ok" THEN page ELSE {})
        /\ ask'[a].app = app /\ ask'[a].review = ask[a].review
    BY <1>i, <1>4 DEF AskType, R!Ends
  <1>6. AskHits(a)'
    BY <1>i, <1>5 DEF AskSound, AskHits
  <1>7. CASE R!Collides(a)
    <2>1. UNCHANGED <<R!apple, R!tables>>
      BY <1>7 DEF R!Record
    <2>2. AskSound(a)'
      BY <1>2, <1>5, <1>6, <1>7, AskFailed
    <2> QED BY <1>2, <1>3, <2>1, <2>2, QuietAskStep
  <1>8. CASE ~R!Collides(a)
    <2>1. /\ appMap' = [v \in Reviews |->
               IF ask[a].op # "create" /\ \E p \in page : p[1] = v THEN app ELSE appMap[v]]
          /\ respMap' = [i \in 1..MaxReplies |->
               IF \E p \in R!Pairs(page) : p[2] = i
               THEN (CHOOSE p \in page : p[2] = i)[1] ELSE respMap[i]]
      BY <1>8 DEF R!Record
    <2>2. app \in Apps
      BY <1>i, <1>1 DEF AskSound, Admitted
    <2>3. \A p \in page : /\ p[1] \in R!At(app) /\ p[1] \in Reviews /\ p[2] \in Nat
                          /\ p[2] # 0 => p[2] \in 1..Len(written) /\ written[p[2]] = p[1]
      BY <1>i DEF AskSound, PageSound, AskType
    <2>4. \A v \in Reviews :
            \/ appMap'[v] = appMap[v]
            \/ appMap'[v] = app /\ v \in R!At(app)
      BY <2>1, <2>3
    <2>5. ASSUME NEW i \in 1..MaxReplies, \E p \in R!Pairs(page) : p[2] = i
          PROVE  i <= Len(written) /\ respMap'[i] = written[i]
      <3> DEFINE q == CHOOSE p \in page : p[2] = i
      <3>1. q \in page /\ q[2] = i
        BY <2>5 DEF R!Pairs
      <3>2. respMap'[i] = q[1]
        BY <2>1, <2>5
      <3>3. i # 0
        OBVIOUS
      <3> HIDE DEF q
      <3> QED BY <1>i, <2>3, <3>1, <3>2, <3>3
    <2>6. ASSUME NEW i \in 1..MaxReplies, ~\E p \in R!Pairs(page) : p[2] = i
          PROVE  respMap'[i] = respMap[i]
      BY <2>1, <2>6
    <2>7. ReplyTypes'
      <3>1. appMap' \in [Reviews -> Apps \cup {R!None}]
        BY <1>i, <2>1, <2>2 DEF ReplyTypes
      <3>2. ASSUME NEW i \in 1..MaxReplies PROVE respMap'[i] \in Reviews \cup {R!None}
        <4>1. ASSUME i <= Len(written) PROVE written[i] \in Reviews
          BY <1>i, <4>1 DEF ReplyTypes
        <4> QED BY <1>i, <2>5, <2>6, <4>1 DEF ReplyTypes
      <3>3. respMap' \in [1..MaxReplies -> Reviews \cup {R!None}]
        BY <2>1, <3>2
      <3> QED BY <1>i, <1>1, <1>4, <3>1, <3>3 DEF ReplyTypes
    <2>8. RepliesSound'
      BY <1>i, <1>1 DEF RepliesSound
    <2>9. TablesSound'
      BY <1>i, <1>1, <2>4, <2>5, <2>6 DEF TablesSound
    <2>10. MadeGrows
      <3>1. ASSUME NEW i \in 1..Len(written), respMap[i] # R!None PROVE respMap'[i] = respMap[i]
        BY <1>i, <2>5, <2>6, <3>1 DEF TablesSound
      <3>2. \A v \in Reviews : appMap[v] # R!None => appMap'[v] # R!None
        BY <2>2, <2>4
      <3> QED BY <1>i, <1>1, <3>1, <3>2 DEF MadeGrows
    <2>11. ASSUME answer = "ok", NEW p \in page
           PROVE  /\ appMap'[p[1]] # R!None
                  /\ reply'[p[1]] = p[2] /\ p[2] # 0 => respMap'[p[2]] = p[1]
      <3>1. appMap'[p[1]] # R!None
        <4>1. CASE ask[a].op = "create"
          BY <1>i, <1>1, <2>2, <2>3, <2>4, <4>1 DEF AskSound, PageSound
        <4>2. CASE ask[a].op # "create"
          BY <2>1, <2>2, <2>3, <4>2
        <4> QED BY <4>1, <4>2
      <3>2. ASSUME p[2] # 0 PROVE respMap'[p[2]] = p[1]
        <4>1. p[2] \in 1..MaxReplies /\ p \in R!Pairs(page)
          BY <1>i, <2>3, <3>2 DEF R!Pairs
        <4> QED BY <2>3, <2>5, <3>2, <4>1
      <3> QED BY <3>1, <3>2
    <2>12. AskSound(a)'
      <3>1. PageSound(a)'
        BY <1>1, <1>5, <2>3 DEF PageSound
      <3> QED BY <1>5, <1>6, <2>11, <3>1 DEF AskSound, AskWaits, Admitted, ForgetsWhatIsGone, AskShown
    <2> QED BY <1>2, <1>3, <2>7, <2>8, <2>9, <2>10, <2>12, OneAskMoves
  <1> QED BY <1>7, <1>8

\* What is forgotten is the record of a reply that is gone.
LEMMA ForgetKeeps ==
  ASSUME ReplySetting, ReplyInv, NEW a \in Asks, R!Forget(a) PROVE ReplyInv'
  <1> USE DEF ReplySetting
  <1> DEFINE id == ask[a].id
  <1>i. /\ ReplyTypes /\ RepliesSound /\ TablesSound /\ AskSound(a) /\ ask[a] \in AskType
        /\ Len(written) \in Nat /\ Len(written) <= MaxReplies
    BY DEF ReplyInv, ReplyTypes
  <1>1. /\ ask[a].pc = "forget" /\ written' = written /\ reply' = reply /\ appMap' = appMap
        /\ respMap' = [respMap EXCEPT ![id] = R!None] /\ R!To(a, R!Ends(a, "ok"))
    BY DEF R!Forget, R!apple
  <1>2. id \in 1..Len(written) /\ reply[written[id]] # id /\ ask[a].page = {}
    BY SMTT(60), <1>i, <1>1 DEF AskSound, ForgetsWhatIsGone, PageSound
  <1>3. R!Ends(a, "ok") \in AskType
    BY <1>i, EndsTyped
  <1>4. ask'[a] = R!Ends(a, "ok") /\ ask' \in [Asks -> AskType]
    BY <1>i, <1>1, <1>3 DEF R!To, ReplyTypes
  <1>5. /\ ask'[a].pc = "end" /\ ask'[a].page = {} /\ ask'[a].hit = ask[a].hit
        /\ ask'[a].app = ask[a].app /\ ask'[a].review = ask[a].review
    BY <1>i, <1>2, <1>4 DEF AskType, R!Ends
  <1>6. /\ respMap' \in [1..MaxReplies -> Reviews \cup {R!None}]
        /\ \A i \in 1..MaxReplies : respMap'[i] = (IF i = id THEN R!None ELSE respMap[i])
    BY <1>i, <1>1 DEF ReplyTypes
  <1>7. ReplyTypes'
    BY <1>i, <1>1, <1>4, <1>6 DEF ReplyTypes
  <1>8. RepliesSound' /\ TablesSound'
    BY <1>i, <1>1, <1>6 DEF RepliesSound, TablesSound
  <1>9. MadeGrows
    BY <1>i, <1>1, <1>2, <1>6 DEF MadeGrows
  <1>10. AskSound(a)'
    BY <1>i, <1>5 DEF AskSound, AskWaits, Admitted, PageSound, ForgetsWhatIsGone, AskHits, AskShown
  <1> QED BY <1>1, <1>3, <1>7, <1>8, <1>9, <1>10, OneAskMoves

LEMMA RepliesKeep == ASSUME ReplySetting, ReplyInv, [R!Next]_(R!vars) PROVE ReplyInv'
  <1>1. CASE UNCHANGED R!vars
    <2>1. written' = written /\ reply' = reply /\ appMap' = appMap /\ respMap' = respMap /\ ask' = ask
      BY <1>1 DEF R!vars
    <2> QED BY <2>1 DEF ReplyInv, ReplyTypes, RepliesSound, TablesSound, AskSound, AskWaits, Admitted, PageSound,
                ForgetsWhatIsGone, AskHits, AskShown
  <1>2. CASE R!Person
    BY <1>2, PersonKeeps
  <1>3. ASSUME NEW a \in Asks,
               \/ R!Begin(a) \/ R!Read(a) \/ R!Write(a) \/ R!Edit(a) \/ R!Remove(a) \/ R!Refuse(a)
               \/ R!Look(a) \/ R!Record(a) \/ R!Forget(a) \/ R!Dies(a)
        PROVE  ReplyInv'
    BY <1>3, BeginKeeps, ReadKeeps, WriteKeeps, EditKeeps, RemoveKeeps, FailureKeeps,
       LookKeeps, RecordKeeps, ForgetKeeps
  <1> QED BY <1>1, <1>2, <1>3 DEF R!Next

LEMMA RepliesInductive == ASSUME ReplySetting PROVE R!Spec => []ReplyInv
  <1>1. R!Init => ReplyInv
    BY RepliesInitially
  <1>2. ReplyInv /\ [R!Next]_(R!vars) => ReplyInv'
    BY RepliesKeep
  <1> QED BY <1>1, <1>2, PTL DEF R!Spec

\* A write for an app touches a review of that app, and the review it named
\* when it named one, whichever users have listed what before.
THEOREM RepliesHitTheirReview == ASSUME ReplySetting PROVE R!Spec => []R!HitsItsReview
  <1>1. ReplyInv => R!HitsItsReview
    BY DEF ReplyInv, AskSound, AskHits, R!HitsItsReview
  <1> QED BY <1>1, RepliesInductive, PTL

\* What a caller was shown or told of is on record as long as Apple has it.
THEOREM ShownStaysKnown == ASSUME ReplySetting PROVE R!Spec => []R!ShownIsKnown
  <1>1. ASSUME ReplyInv PROVE R!ShownIsKnown
    <2> SUFFICES ASSUME NEW a \in Asks, ask[a].answer = "ok", NEW p \in ask[a].page
                 PROVE  /\ appMap[p[1]] # R!None /\ p[1] \in R!At(appMap[p[1]])
                        /\ reply[p[1]] = p[2] /\ p[2] # 0 => respMap[p[2]] = p[1]
      BY DEF R!ShownIsKnown
    <2>1. AskSound(a) /\ ask[a] \in AskType /\ TablesSound
      BY <1>1 DEF ReplyInv, ReplyTypes
    <2>2. p[1] \in Reviews
      BY <2>1 DEF AskType
    <2> QED BY <2>1, <2>2 DEF AskSound, AskShown, TablesSound
  <1> QED BY <1>1, RepliesInductive, PTL

-----------------------------------------------------------------------------
(* The parts together: a step of the run is a step of one of its parts.    *)

\* In every behaviour of the run an answer about Apple is true, and a request
\* about a review reaches it.
THEOREM AnswersAreTrue == ASSUME ReplySetting PROVE MCSpec => []AnswerIsTrue
  <1>1. MCInit => ClientInv /\ R!Init
    BY ClientInit DEF MCInit
  <1>2. [MCNext]_<<part, vars, clientVars, ladderVars, replyVars>> => [C!Next]_(C!vars)
    BY DEF MCNext, GateStep, ClientStep, LadderStep, ReplyStep, clientVars, C!vars
  <1>3. [MCNext]_<<part, vars, clientVars, ladderVars, replyVars>> => [R!Next]_(R!vars)
    BY DEF MCNext, GateStep, ClientStep, LadderStep, ReplyStep, replyVars, R!vars
  <1>4. ClientInv => C!AnswerIsTrue
    BY DEF ClientInv, Truthful, C!AnswerIsTrue
  <1>5. C!AnswerIsTrue /\ R!HitsItsReview /\ R!ShownIsKnown => AnswerIsTrue
    BY DEF AnswerIsTrue, R!RepliesStay
  <1> QED BY <1>1, <1>2, <1>3, <1>4, <1>5, ClientStepHolds, RepliesHitTheirReview,
             ShownStaysKnown, PTL DEF MCSpec, R!Spec

\* In every behaviour of the run a reader is given a whole ladder or none, and
\* an undisturbed sync has cached what it has counted.
THEOREM LaddersAreWhole == MCSpec => []LadderIsWhole
  <1>1. MCInit => LadderInv
    BY LadderInit DEF MCInit
  <1>2. [MCNext]_<<part, vars, clientVars, ladderVars, replyVars>> => [L!Next]_(L!vars)
    BY DEF MCNext, GateStep, ClientStep, LadderStep, ReplyStep, ladderVars, L!vars
  <1>3. LadderInv => LadderIsWhole
    BY LadderSound DEF LadderIsWhole
  <1> QED BY <1>1, <1>2, <1>3, LadderStepHolds, PTL DEF MCSpec
=============================================================================
