----------------------------- MODULE ConsentGate ----------------------------
(***************************************************************************)
(* The consent gate of the MCP server (mcp/consent.py).  A destructive     *)
(* call without a token is refused and mints one; presented with the same  *)
(* call by the same user before it expires, the token lets the call run.   *)
(* The store lives in the process and is bounded: minting first drops what *)
(* has expired and then the oldest tokens above the limit.                 *)
(*                                                                         *)
(* The handler does not await between reading and changing the store, so   *)
(* each of its paths is one action.  A call is a tool with the JSON value  *)
(* of its arguments; their canonical form, and the hash of it, tell any    *)
(* two of them apart and no two spellings of one.  A call of a tool that   *)
(* is not in DESTRUCTIVE is handed on without a look at the store.         *)
(***************************************************************************)
EXTENDS Integers, FiniteSets

CONSTANTS
  User,
  Call,       \* the calls whose tool is in DESTRUCTIVE
  Token,      \* what secrets.token_urlsafe draws from
  MaxPending, Ttl,
  MaxTime     \* bound of the model's clock

ASSUME BoundsAssumption == MaxPending \in Nat /\ Ttl \in Nat /\ MaxTime \in Nat

VARIABLES
  now,        \* time.monotonic
  pending,    \* the keys of _pending
  entry,      \* the _Pending record each token was minted with
  presented,  \* history: the tokens that came back with some call
  ran         \* history: the calls handed on, with the token and the time

vars == <<now, pending, entry, presented, ran>>

NoEntry == [user |-> "nobody"]

Entry == [user : User, call : Call, expires_at : Nat]
Ran   == [token : Token, user : User, call : Call, at : Nat]

TypeOK ==
  /\ now \in Nat
  /\ pending \in SUBSET Token
  /\ entry \in [Token -> Entry \cup {NoEntry}]
  /\ presented \in SUBSET Token
  /\ ran \in SUBSET Ran

Init ==
  /\ now = 0
  /\ pending = {}
  /\ entry = [t \in Token |-> NoEntry]
  /\ presented = {}
  /\ ran = {}

Expired(t) == entry[t].expires_at <= now

Deadline == now + Ttl

\* The ways to single out the tokens above the limit, soonest to expire first.
\* Tokens minted at one instant may go in either order.
Surplus(live) ==
  {gone \in SUBSET live :
     /\ Cardinality(live \ gone) = IF Cardinality(live) > MaxPending
                                   THEN MaxPending ELSE Cardinality(live)
     /\ \A t \in gone, s \in live \ gone :
          entry[t].expires_at <= entry[s].expires_at}

Pruned_ExpiredOnly == {{t \in pending : ~Expired(t)}}

\* _prune: what may be left of the store.
Pruned ==
  LET live == {t \in pending : ~Expired(t)}
  IN  {live \ gone : gone \in Surplus(live)}

\* A destructive call without a token: _mint and the challenge.  The token is
\* 96 random bits: new, and not one that somebody has guessed before.
Mint(u, c) ==
  /\ \E t \in Token, kept \in Pruned :
       /\ entry[t] = NoEntry /\ t \notin presented
       /\ pending' = kept \cup {t}
       /\ entry' = [entry EXCEPT ![t] =
            [user |-> u, call |-> c, expires_at |-> Deadline]]
  /\ UNCHANGED <<now, presented, ran>>

Accepts_AnyUser(u, c, t) ==
  /\ t \in pending
  /\ ~Expired(t)
  /\ entry[t].call = c

\* The checks of a presented token; any of them failing is a ToolError.
Accepts(u, c, t) ==
  /\ t \in pending
  /\ ~Expired(t)
  /\ entry[t].user = u
  /\ entry[t].call = c

HandOn(t, u, c) ==
  ran' = ran \cup {[token |-> t, user |-> u, call |-> c, at |-> now]}

Present_PopsLast(u, c, t) ==
  /\ presented' = presented \cup {t}
  /\ IF Accepts(u, c, t) THEN HandOn(t, u, c) /\ pending' = pending \ {t}
                         ELSE UNCHANGED <<ran, pending>>
  /\ UNCHANGED <<now, entry>>

\* A destructive call with a token, anyone's: the token is popped before it is
\* checked.
Present(u, c, t) ==
  /\ presented' = presented \cup {t}
  /\ pending' = pending \ {t}
  /\ IF Accepts(u, c, t) THEN HandOn(t, u, c) ELSE UNCHANGED ran
  /\ UNCHANGED <<now, entry>>

Tick ==
  /\ now < MaxTime
  /\ now' = now + 1
  /\ UNCHANGED <<pending, entry, presented, ran>>

\* The process restarts with an empty store.
Restart ==
  /\ pending' = {}
  /\ UNCHANGED <<now, entry, presented, ran>>

Next ==
  \/ \E u \in User, c \in Call :
       \/ Mint(u, c)
       \/ \E t \in Token : Present(u, c, t)
  \/ Tick \/ Restart

Spec == Init /\ [][Next]_vars

-----------------------------------------------------------------------------
(* Properties *)

Promise == INSTANCE OneShotConsent WITH
  Consent <- Token,
  asked <- [t \in Token |->
             IF entry[t] = NoEntry THEN <<>> ELSE <<entry[t].user, entry[t].call>>],
  open  <- pending,
  ran   <- {<<e.token, e.user, e.call>> : e \in ran}

\* The gate keeps its promise: "Every destructive call mints and consumes its
\* own token", bound to "the exact tool, the exact arguments and the user".
KeepsPromise == Promise!Spec

\* "a token is spent by being presented", with whatever call and by whomever.
PresentedIsSpent == presented \cap pending = {}

\* A destructive call runs less than the TTL after its token was minted,
\* although expired tokens stay in the store until the next mint.
RunsWithinTtl ==
  \A e \in ran : e.at < entry[e.token].expires_at

\* _MAX_PENDING bounds the store, up to the one token minted after the prune.
StoreBounded == Cardinality(pending) <= MaxPending + 1
=============================================================================
