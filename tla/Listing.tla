------------------------------ MODULE Listing ------------------------------
(***************************************************************************)
(* The listing optimizer and the translations it pays for.  A request      *)
(* works through a list of items one at a time: each is answered from the  *)
(* translation cache, or by the chain of providers, and then billed: the   *)
(* app's lock is taken, the translations of the last thirty days are       *)
(* counted against the cap, and the row is inserted and committed, which   *)
(* gives the lock back.  A localize request of one proposal also merges    *)
(* what it made into the app's one draft; the routes translate for review  *)
(* only.  An item is a text and the locale it is for.                      *)
(***************************************************************************)
EXTENDS Naturals, Sequences, FiniteSets, SequencesExt

CONSTANTS
  Requests,    \* requests that may overlap
  Proposals,   \* texts of a proposal
  Source,      \* the locale they are written in
  Others,      \* the other live locales, each of another language, as a sequence
  MaxPack,     \* MAX_PACK_LOCALES
  Cap,         \* translations an app may buy in thirty days
  Calls        \* bound on the requests made in all

VARIABLES
  cache,    \* MetadataTranslationCache: the items translated
  recent,   \* those created in the last thirty days
  lock,     \* the request that holds the app's advisory lock, or Nobody
  postgres, \* the database is PostgreSQL: there is such a lock
  req,      \* request -> its state
  draft,    \* ListingDraft, or NoDraft: [hash, values: locale -> proposal]
  stored,   \* the brainstorm of the storefront is stored
  lost,     \* history: localizes overlapped since the draft's proposal changed
  asked,    \* history: the locales finished localizes of draft's proposal covered
  calls

vars == <<cache, recent, lock, postgres, req, draft, stored, lost, asked, calls>>

Nobody == "nobody"
NoDraft == [hash |-> "none", values |-> <<>>]
Idle == [pc |-> "idle"]
Running(r) == req[r].pc # "idle"
Overlapped(r) == \E s \in Requests \ {r} : Running(s) /\ req[s].kind = "localize"

\* _complete, twice at most, then the next provider: a text, or nothing.
\* A text that is too long counts as a failure of its provider.
Attempt(outcomes) == IF "fits" \in Range(outcomes) THEN "fits" ELSE "long"
Translate(providers) ==
  IF \E i \in DOMAIN providers : providers[i] # "error" /\ Attempt(providers[i]) = "fits"
  THEN "text" ELSE "unavailable"

-----------------------------------------------------------------------------
(* The requests                                                            *)

Start(r, kind, items, proposal, source) ==
  /\ ~Running(r) /\ calls < Calls
  /\ calls' = calls + 1
  /\ req' = [req EXCEPT ![r] = [pc |-> "item", kind |-> kind, items |-> items,
                                proposal |-> proposal, source |-> source,
                                values |-> <<>>, used |-> 0, read |-> NoDraft]]

\* POST metadata/translate, metadata_translate: any texts, for review.
TranslateFor(r, text, locales) ==
  /\ Start(r, "translate", [i \in DOMAIN locales |-> <<text, locales[i]>>], text, {})
  /\ UNCHANGED <<postgres, cache, recent, lock, draft, stored, lost, asked>>

metadata_translate(r, text, locales) == TranslateFor(r, text, locales)

\* brainstorm: the rows of the storefront are replaced at the end.
Brainstorm(r) ==
  /\ Start(r, "brainstorm", <<<<"terms", Others[1]>>>>, "none", {})
  /\ UNCHANGED <<postgres, cache, recent, lock, draft, stored, lost, asked>>

\* The tool, unless it is told to refresh, returns what is stored; so does the
\* job that follows a sync of the apps.
listing_brainstorm(r, refresh) == (refresh \/ ~stored) /\ Brainstorm(r)
brainstorm_new_apps(r) == ~stored /\ Brainstorm(r)

\* propose: one billed call, after a brainstorm.
Propose(r) ==
  /\ stored
  /\ Start(r, "propose", <<<<"proposals", Source>>>>, "none", {})
  /\ UNCHANGED <<postgres, cache, recent, lock, draft, stored, lost, asked>>

\* localize: MaxPack locales, with the source if it was asked for; the rest is
\* for later calls.
Batch(targets) == SubSeq(targets, 1, IF Len(targets) < MaxPack THEN Len(targets) ELSE MaxPack)
Localize(r, p, targets, source) ==
  LET batch == Batch(targets) IN
  /\ Start(r, "localize", [i \in DOMAIN batch |-> <<p, batch[i]>>], p, source)
  /\ lost' = (lost \/ Overlapped(r))
  /\ UNCHANGED <<postgres, cache, recent, lock, draft, stored, asked>>

Item(r) == Head(req[r].items)
Answered(r) ==
  [req EXCEPT ![r].items = Tail(@), ![r].pc = "item", ![r].values = Append(@, Item(r))]

Fails(r) ==
  /\ req' = [req EXCEPT ![r] = Idle]
  /\ lock' = IF lock = r THEN Nobody ELSE lock

\* translate_with_cache, step 1.
LookUp(r) ==
  /\ req[r].pc = "item" /\ req[r].items # <<>>
  /\ req' = IF Item(r) \in cache THEN Answered(r) ELSE [req EXCEPT ![r].pc = "call"]
  /\ UNCHANGED <<postgres, cache, recent, lock, draft, stored, lost, asked, calls>>

\* Step 2.  keyword_variants makes do without; every other caller gives up.
Call(r, providers) ==
  /\ req[r].pc = "call"
  /\ CASE Translate(providers) = "text" ->
            req' = [req EXCEPT ![r].pc = "lock"] /\ UNCHANGED lock
       [] req[r].kind = "brainstorm" ->
            req' = [req EXCEPT ![r].items = Tail(@), ![r].pc = "item"] /\ UNCHANGED lock
       [] OTHER -> Fails(r)
  /\ UNCHANGED <<postgres, cache, recent, draft, stored, lost, asked, calls>>

\* Step 3: _acquire_app_cap_lock and _count_recent_translations.  Only PostgreSQL
\* has the lock: on SQLite the count is read before the transaction that inserts.
Free_NoLock(r) == TRUE
Free(r) == postgres => lock \in {Nobody, r}
Lock(r) ==
  /\ req[r].pc = "lock" /\ Free(r)
  /\ lock' = IF postgres THEN r ELSE lock
  /\ req' = [req EXCEPT ![r].pc = "insert", ![r].used = Cardinality(recent)]
  /\ UNCHANGED <<postgres, cache, recent, draft, stored, lost, asked, calls>>

\* Over the cap, or a row another request has inserted: the request fails.
\* keyword_variants goes on over the cap, and keeps the lock until a commit.
AtCap(used) == used >= Cap
Insert(r) ==
  /\ req[r].pc = "insert"
  /\ IF AtCap(req[r].used)
     THEN /\ IF req[r].kind = "brainstorm"
             THEN req' = [req EXCEPT ![r].items = Tail(@), ![r].pc = "item"] /\ UNCHANGED lock
             ELSE Fails(r)
          /\ UNCHANGED <<cache, recent>>
     ELSE IF Item(r) \in cache
     THEN Fails(r) /\ UNCHANGED <<cache, recent>>
     ELSE /\ cache' = cache \cup {Item(r)} /\ recent' = recent \cup {Item(r)}
          /\ req' = Answered(r)
          /\ lock' = IF lock = r THEN Nobody ELSE lock
  /\ UNCHANGED <<postgres, draft, stored, lost, asked, calls>>

Done(r) == req[r].pc = "item" /\ req[r].items = <<>>

Finish(r) ==
  /\ Done(r) /\ req[r].kind # "localize"
  /\ Fails(r)
  /\ stored' = (stored \/ req[r].kind = "brainstorm")
  /\ UNCHANGED <<postgres, cache, recent, draft, lost, asked, calls>>

-----------------------------------------------------------------------------
(* _save_draft: read, merge, write the whole of it; committed at the end.  *)

ReadDraft(r) ==
  /\ Done(r) /\ req[r].kind = "localize"
  /\ req' = [req EXCEPT ![r].pc = "save", ![r].read = draft]
  /\ UNCHANGED <<postgres, cache, recent, lock, draft, stored, lost, asked, calls>>

\* The texts of the first, and those of the second it has none for.
Over(f, g) == [l \in DOMAIN f \cup DOMAIN g |-> IF l \in DOMAIN f THEN f[l] ELSE g[l]]

Merged_LastOnly(read, p, values) == [hash |-> p, values |-> values]
Merged(read, p, values) ==
  [hash |-> p, values |-> Over(values, IF read.hash = p THEN read.values ELSE <<>>)]

Made(r) ==
  [l \in req[r].source \cup {i[2] : i \in ToSet(req[r].values)} |-> req[r].proposal]

\* Two first drafts: the app's row is unique and the second insert fails.
SaveDraft(r) ==
  /\ req[r].pc = "save"
  /\ IF req[r].read = NoDraft /\ draft # NoDraft
     THEN UNCHANGED <<draft, asked, lost>>
     ELSE /\ draft' = Merged(req[r].read, req[r].proposal, Made(r))
          /\ asked' = DOMAIN Made(r) \cup (IF draft.hash = req[r].proposal THEN asked ELSE {})
          /\ lost' = (Overlapped(r) \/ (lost /\ draft.hash = req[r].proposal))
  /\ Fails(r)
  /\ UNCHANGED <<postgres, cache, recent, stored, calls>>

\* Thirty days pass for a translation; the request or its process dies.
Ages == \E i \in recent : recent' = recent \ {i}
                          /\ UNCHANGED <<postgres, cache, lock, req, draft, stored, lost, asked, calls>>
Dies(r) ==
  /\ Running(r) /\ Fails(r)
  /\ UNCHANGED <<postgres, cache, recent, draft, stored, lost, asked, calls>>

Init ==
  /\ cache = {} /\ recent = {} /\ lock = Nobody /\ postgres \in BOOLEAN
  /\ req = [r \in Requests |-> Idle]
  /\ draft = NoDraft /\ stored = FALSE /\ lost = FALSE /\ asked = {} /\ calls = 0

Tries == {<<"fits">>, <<"long", "fits">>, <<"long", "long">>}
Providers == {<<"error", t>> : t \in Tries} \cup {<<t>> : t \in Tries}
Subsequences == {t \in SeqOf(ToSet(Others), Len(Others)) : t # <<>> /\ IsInjective(t)}

Next ==
  \/ \E r \in Requests :
       \/ \E p \in Proposals : TranslateFor(r, p, Others) \/ metadata_translate(r, p, Others)
       \/ \E p \in Proposals, t \in Subsequences, source \in {{}, {Source}} :
            Localize(r, p, t, source)
       \/ Brainstorm(r) \/ (\E refresh \in BOOLEAN : listing_brainstorm(r, refresh))
       \/ brainstorm_new_apps(r) \/ Propose(r)
       \/ LookUp(r) \/ (\E ps \in Providers : Call(r, ps)) \/ Lock(r) \/ Insert(r)
       \/ Finish(r) \/ ReadDraft(r) \/ SaveDraft(r) \/ Dies(r)
  \/ Ages

Spec == Init /\ [][Next]_vars

-----------------------------------------------------------------------------
\* How many purchases may count before any of them inserts, besides the last:
\* none under the lock, those of every other request without it.
Overrun == IF postgres THEN 0 ELSE Cardinality(Requests) - 1

\* Overlapping requests never buy more than the cap within thirty days, where
\* the lock orders them; without it they go over by one less than they are.
CapHolds == Cardinality(recent) <= Cap + Overrun

Quota == INSTANCE TranslationQuota
           WITH known <- cache, paid <- recent, serial <- postgres, Racing <- Cardinality(Requests) - 1

\* The steps of overlapping requests (the cache read, the provider called, the
\* lock, the count, the insert) amount to purchases that each count and insert at
\* once, below the cap, and nothing that was bought before; on SQLite, which has no
\* such lock, below the cap and the purchases of the requests that overlap.
BuysWithinQuota == Quota!Spec

\* The draft shows one proposal: whatever was merged into it, no locale keeps
\* a text of another one, and no translated text in it is missing from the
\* cache, so asking again is never billed twice.
DraftIsOneProposal ==
  \A l \in DOMAIN draft.values :
    draft.values[l] = draft.hash /\ (l # Source => <<draft.hash, l>> \in cache)

\* The calls for the batches of one proposal, none overlapping another, add
\* up: the draft holds every locale they covered.
BatchesAddUp == ~lost => asked \subseteq DOMAIN draft.values
=============================================================================
