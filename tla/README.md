# A verification development for aso-light

aso-light is one asyncio process (FastAPI plus an MCP server) that drives App
Store Connect (ASC), RevenueCat and Apple Search Ads on behalf of a few users.
It keeps a local database as a cache and journal; the services it drives hold
the state that matters, answer late, fail half-way and cannot be rolled back.
This directory holds TLA+ models of that code, TLC configurations that check
them on small instances and TLAPS proofs of what matters most for all
instances. Paths below are relative to `src/backend/app`.

## Inventory

Every request runs in one coroutine with one database session that commits when
the handler returns and rolls back on an exception (`db/session.py`,
`mcp/context.py`). Handlers interleave at every `await`, that is at every call
to Apple. Nothing but the process's own memory and, in one place, an advisory
lock of the database serialises them.

| Component | State | Operations | Hard behaviour | What makes it correct |
|---|---|---|---|---|
| Product swap (`services/asc/clone.py`, `services/revenuecat/swap.py`, `api/v1/clone.py`, `mcp/tools/swap.py`) | two products at Apple and at RevenueCat, operation rows | clone, RevenueCat swap, finalize, retry, checklist | a dozen non-atomic remote steps, lost answers, retries, overlapping requests | nothing sold is lost without a report; what the row and the answer say is so |
| Product catalog (`api/v1/pricing.py`, `mcp/tools/pricing.py`) | groups, subscriptions, in-app purchases at Apple, local rows | list, create, rename, delete | the row follows the call, no index forbids a second row | a row per product, removed only when the product is gone |
| Parts of a product (same files, `services/asc/pricing.py`, `services/asc/screenshots.py`) | localizations, introductory offers, review screenshot | create, update, delete, bulk write, upload | matching by tag or language, partial failure | what was answered is at Apple |
| Prices (`api/v1/pricing.py`, `services/pricing/*`) | price schedules at Apple, cached rows, version journal | sync, preview, apply, intro offers | a replace-all endpoint fed from a cache, safety band, concurrent version numbers | an apply changes what was asked and nothing else |
| Price ladders (`services/asc/price_point_cache.py`) | files | read, fetch, write | non-atomic write beside a reader that deletes what it cannot parse | a reader gets a whole ladder or none |
| ASC client (`services/asc/client.py`) | token, connection, throttle clock | send with retries | 401, 429, 5xx, lost answers of non-idempotent calls | a POST takes effect at most once per call, an answer is true |
| Consent gate (`mcp/consent.py`) | outstanding tokens | mint, present, expire, prune | concurrent callers, expiry, a full store | a destructive call runs only on an unspent token for exactly that call |
| Assets (`services/asc/asset_sync.py`, `screenshots.py`, `mcp/tools/screenshots.py`) | screenshot sets at Apple, a plan | plan, apply, re-plan, upload, replace, delete | asynchronous processing at Apple, a plan gone stale, failure between delete and upload | a clean report means the set shows the export |
| Metadata (`services/metadata/*`, `api/v1/metadata.py`, `mcp/tools/metadata.py`) | localizations at Apple, a mirror | sync, create, update, delete, bulk apply | fan-out with partial failure, re-created versions | the mirror shows what Apple accepted, the report is true |
| Listing optimizer (`services/listing/*`, `services/metadata/translate.py`) | translation cache and quota, draft | brainstorm, propose, localize, translate | read-merge-write of a draft, a quota counted before an insert | the cap holds, no locale of a draft is lost |
| Experiments (`services/asc/experiment.py`) | experiments, treatments, review submissions | create, populate, submit | check-then-act, a submission shared with others | an experiment is submitted alone, an upload cleans up after itself |
| Custom product pages (`services/asc/cpp.py`, `mcp/tools/cpp.py`) | pages, versions, keywords | create from upload, keywords, delete | compound creates, a link call and an unlink call | no half page, no wanted keyword lost |
| Reviews (`services/reviews/*`, `api/v1/reviews.py`, `mcp/tools/reviews.py`) | replies at Apple, two ownership tables | list, draft, reply, edit, delete | tables filled by whoever listed last | a reply reaches the review it was written for |
| RevenueCat surface (`services/revenuecat/*`, `api/v1/revenuecat.py`, `mcp/tools/revenuecat.py`) | credential of an app | set, patch, delete, pass calls on | 429s, lost answers, two inserts | a call says what was done |
| Search Ads (`services/asa/*`) | campaigns, reports, negatives | credentials, sync, negatives, ads | steps that fail one by one, a watermark that moves | a sync without errors is a true mirror |
| Keywords, visibility, keyword intelligence (`services/keywords/*`, `services/visibility/*`, `services/keyword_intel/*`) | rank and visibility snapshots | track, poll, suggest | a throttle of the process, bounded fan-out | one call in each interval, a rank in the row it was asked for |
| Rate limiter (`core/ratelimit.py`) | fixed windows | check and increment | a burst across a window's edge | at most the limit in one window |
| Auth and tokens (`core/security.py`, `api/v1/auth.py`, `mcp/auth.py`) | users, tokens | login, refresh, revoke | - | - |
| Indices and rates (`services/indices/*`, `services/rates/*`) | reference tables | refresh | stale sources | - |
| Apps, presets, exports, visual compare, audits, frontend | rows, or none | single writes, reads, presentation | - | - |

## How the models are made

One action is one call to a service, or one stretch of a handler between two
`await`s: that is where another handler, a crash or Apple itself can step in.
A write has up to three outcomes: done, refused, and *answered with an error
but done all the same* (`ASCNetworkError`, an httpx timeout). `AscClient` shows
that these are what the HTTP client leaves of a call that is not idempotent. A
handler dies at any of its steps (an exception nobody catches, a cancelled
request, the end of the process); `db/session.py` then rolls its rows back and
the services keep what they were given. People who work in App Store Connect
and App Review are steps of their own (`Person`, `Review`, `Edit`). A REST route
and the MCP tool that does the same are two definitions where their guards
differ, and where they do not the tool is defined by the route. Identifiers,
prices, locales, files and texts are model values or small numbers; formatting,
logging and progress reports are left out.

History variables (marked so where they are declared) are read by properties
only. Some, named `overlap`, `mixed`, `disturbed` or `alone`, record that two
requests ran beside each other; a property that is stated only for requests
that follow each other says so with them.

| Module | Models | Checked by | Proofs |
|---|---|---|---|
| `Handover` | the promise in the header of `services/revenuecat/swap.py` (abstract) | by refinement | - |
| `RcSwap` | `services/revenuecat/swap.py` | `MCProducts` | `RcSwapProofs`, `ProductsProofs` |
| `RcSurface` | credentials and calls passed on to RevenueCat: `api/v1/revenuecat.py`, `mcp/tools/revenuecat.py`, `services/revenuecat/client.py` | `MCProducts` | `RcSwapProofs`, `ProductsProofs` |
| `SearchAds` | `services/asa/sync.py`, `api/v1/asa.py`, `mcp/tools/asa.py`, its client | `MCProducts` | `RcSwapProofs`, `ProductsProofs` |
| `SubClone` | `services/asc/clone.py` (both cloners), the calls it makes in `services/asc/pricing.py` | `MCProducts`; `MCSubClone` (`MCSubCloneSale`) | `ProductsProofs` |
| `Catalog` | groups, subscriptions and in-app purchases and their rows: `api/v1/pricing.py`, `mcp/tools/pricing.py` | `MCProducts` | `ProductsProofs` |
| `ProductParts` | localizations, single offers, review screenshots: same files | `MCProducts`; `MCSubClone` (`MCProductPartsRegions`) | `ProductsProofs` |
| `ProductSwap` | `api/v1/clone.py`, `mcp/tools/swap.py`; composes `SubClone` and `RcSwap` | `MCProductSwap` | `ProductSwapProofs` |
| `OneShotConsent` | the promise in the header of `mcp/consent.py` (abstract) | by refinement | - |
| `ConsentGate` | `mcp/consent.py` | `MCConsentGate` | `ConsentGateProofs` |
| `AscClient` | `services/asc/client.py` | `MCConsentGate` | `ConsentGateProofs` |
| `PriceLadders` | `services/asc/price_point_cache.py` and who uses it | `MCConsentGate` | `ConsentGateProofs` |
| `Replies` | `api/v1/reviews.py`, `mcp/tools/reviews.py`, `services/reviews/*` | `MCConsentGate` | `ConsentGateProofs` |
| `IapPricing` | IAP sync and apply: `api/v1/pricing.py`, `mcp/tools/pricing.py` | `MCPricing`; `MCIapPricing` (`MCIapPricingStale`) | `PricingProofs` |
| `SubPrice` | one subscription price in one territory, same files, `services/pricing/safety.py` | `MCPricing`; `MCSubPrice` (`MCSubPriceBand`) | `PricingProofs` |
| `IntroOffers` | the introductory-offer diff of an apply, same files | `MCSubApply`; `MCIntroOffers` (`MCIntroOffersOrphans`) | `SubApplyProofs` |
| `VersionLog` | the versions of a product as a log with one atomic append (abstract) | by refinement | - |
| `PriceVersions` | `services/pricing/versions.py` | `MCSubApply` | `SubApplyProofs` |
| `PricePreview` | the preview of prices, `services/pricing/calculator.py`, `currency_rounding.py`, and what the page sends | `MCSubApply` | `SubApplyProofs` |
| `AssetSync` | `services/asc/asset_sync.py`, `run_asset_sync` in `mcp/tools/screenshots.py` | `MCAssetSync` | `AssetSyncProofs` |
| `AssetTools` | the tools of `mcp/tools/screenshots.py` that change one screenshot | `MCStorePage` | `StorePageProofs` |
| `Metadata` | `services/metadata/*`, `api/v1/metadata.py`, `mcp/tools/metadata.py` | `MCStorePage` | `StorePageProofs` |
| `TranslationQuota` | the "per-app monthly cap (rolling 30 days)" of `services/metadata/translate.py` (abstract) | by refinement | - |
| `Listing` | `services/listing/service.py`, `services/metadata/translate.py` | `MCStorePage` | `StorePageProofs` |
| `Experiments` | `services/asc/experiment.py`, its routes and tools | `MCStorePage` | `StorePageProofs` |
| `CustomPages` | `services/asc/cpp.py`, its routes and tools | `MCStorePage` | `StorePageProofs` |

`PROJECT.json` maps every definition to the lines it stands for.

Five MC modules hold several components that share no state: `MCProducts`,
`MCPricing`, `MCConsentGate`, `MCSubApply` and `MCStorePage`. A variable, chosen
at the start, says which of them moves; the others stay in an initial state. The
state space is the disjoint union of the parts', and nothing is multiplied.
`MCProducts` is itself made of two such modules, `MCSubClone` (App Store Connect)
and `MCRcSwap` (the services beside it); it takes the latter through
`RcSwapProofs`, so that the theorems about it come with it. `MCProductSwap` is a
composition in earnest: the parts act on the same products.

## The modules

### RcSwap, SubClone and ProductSwap: replacing a product

Apple's `productId` is immutable, so the program replaces the product: it
creates a second one with the same contents (`SubClone`), gives RevenueCat's
entitlements and packages the new one instead of the old (`RcSwap`), and commits
a `CloneOperation` row that tells the operator how it went (`ProductSwap`).

**RcSwap.** `att` says which of the two products each entitlement and package
holds, `product` whether RevenueCat has them. A run of `swap()` is a program
counter through the code's seven steps, the holders it `found`, those `todo` in
the current loop, and `errs`, whether its error list is non-empty. `FindOld`,
`FindNew`, `CreateNew`, `ListEntitlements`, `ListPackages`, `AttachNew`,
`DetachOld` and `ArchiveOld` are the calls; `GiveUp` is an early return with an
error; `Abort` an exception `swap()` does not catch. Two things of the code to
know when reading it: an offering whose packages cannot be listed is skipped
without a word (so `found` may lack them, and the properties speak of what was
found), and a refused attach does not keep the detach loop from running over
the same holder.

**SubClone.** Runs of `SubscriptionCloner.clone` and `IAPCloner.clone` for one
pair of products; `kind` says which cloner. Apple's side is `target` (created or
not), `onSale`, `copied` (what of each part the target holds), `shot` (the review
screenshot); the database's is `rows`. A run reads the source, finds or creates
the target, writes the local row, mirrors availability, copies localizations,
prices and offers key by key, replaces the screenshot and archives the source;
`scope` is what the caller asked for, `AfterRow`, `AfterAvailability`, ... pass
over what is not in it. `SetPrices` is the IAP cloner's single schedule call in
place of the copy loop, `Ignored` the parts it has no step for.

**ProductSwap** instantiates both (`Clone == INSTANCE SubClone WITH ...`,
`Rc == INSTANCE RcSwap WITH ...`) over one set of variables: a run is first a
clone, then, if `finalize_swap` goes that far (`SwapsRc`), a RevenueCat swap,
then `Finish` computes status and warnings from the recorded errors and
commits. A run begins as a request (the route, or the tools'
`swap_subscription_product`) or as a `Retry`; what the tool answers carries the
checklist for the iOS app (`Checklist`).

### Catalog and ProductParts: the products themselves

**Catalog.** `apple` is what Apple has, `rows` the mirror. Every request calls
first and writes rows in one commit at its end (`Commit`), so what it saw can be
old: `Fetch` and `LookUp` of a listing, `Post...` and `Availability` of a create,
`Patch...` of a rename, `Delete...`. `LookUp` fails, as `scalar_one_or_none` does,
on two rows of one product. `Person` makes and deletes products by hand.

**ProductParts.** Texts and offers of a product have no local row. A single
create, update or delete is a membership check (`AssertMember`) and a call; a
bulk write lists once, indexes by tag and by language, and goes through its
items, each of which may fail (`ListAll`, `Item`, `Answer`). `Canon` is the tag
Apple stores a bare language under. The review screenshot is looked up,
dropped, reserved, put and committed, and may be left half made.

### ConsentGate and OneShotConsent: destructive MCP calls

A destructive MCP call without a token is refused and mints one; the same call
by the same user with that token, in time, runs. `OneShotConsent` is that
promise alone: a consent is asked for by a user for a call, may lapse at any
time, and serves one run of exactly that call. `ConsentGate` has the store
(`pending`, `entry`), the clock and the bound on the store; `Mint` prunes what
has expired and then the oldest above the limit, `Present` pops the token
whatever it is presented with and runs the call only if everything `Accepts`,
`Restart` empties the store. The handler does not await between reading and
writing the store, so each path is one action. `ran` and `presented` are
history variables.

### AscClient and PriceLadders: what calls to Apple share

**AscClient.** Requests of one call share a connection (`conn`), its token and
the backoff. A request leaves the throttle's turn (`LeaveTurn`), connects or
renews the connection, sends, and Apple does it or not and answers or not;
what a 401, a 429, a 5xx, a timeout or a connection closed under it mean depends
on the method and on the attempts left.

**PriceLadders.** One file of the cache. A sync skips a territory whose file is
there, fetches the pages and writes the file in place: it opens, which empties
it, and fills it. A reader in another thread opens, reads and unlinks what it
cannot parse. A file is a `name` and the contents it points to, which outlive
the name, as on a POSIX file system.

### IapPricing, SubPrice, IntroOffers, PriceVersions and PricePreview: prices

**IapPricing.** Apple has one schedule per in-app purchase: `manual` prices and
a `base` territory; a write replaces all of it. The database caches rows
(`point`, `price`). A sync reads the schedule (`ReadSchedule`, in which the price
of a point may stay unread: 0.0) and writes the rows later (`WriteRows`); an
apply snapshots the rows, checks that an empty cache does not stand for a
non-empty schedule (`CheckReplaceable`), judges its items by the safety band,
chooses the base, pads the schedule with the cached points and submits it
(`Submit`). `Edit` is a change made by hand in App Store Connect.

**SubPrice.** Subscription prices are independent per territory, so one suffices:
the price in effect, the change of tomorrow (`pending`), what existing subscribers
pay, the cached row, and applies that judge against the row they read when they
started. `Midnight` puts the pending change into effect. Nothing orders the
steps: a row may be as old as the last sync, applies overlap, and a day may end
while one is at work, so an apply may judge by a price that is no longer in
effect. Two history variables say where that has happened: `sound`, that the
pending change was judged against the price in effect, and `misled`, that
subscribers keep a price by a judgement that was not.

**IntroOffers.** An apply prices its items, lists the offers, derives the targets
from the cached rows and its own items, and deletes, then creates; each delete
and create may fail or lose its answer. `Answer` is what the caller is told.

**PriceVersions.** Saves that read the highest version number, insert the next
one under a unique constraint and read again after a conflict, up to
`VERSION_INSERT_ATTEMPTS` times.

**PricePreview.** The arithmetic: a base price through an index, VAT, charm
endings, the currency's own rounding (`apply_currency_rounding`) and the nearest
of Apple's tiers, for the four doors a preview comes in by; prices typed by hand;
what the page flags and sends; and what the band of the apply then makes of it.
A price is an integer number of thousandths, and quotients are cut to that where
the code keeps 28 digits.

### Metadata and Listing: texts

**Metadata.** `apple` is the version's state and the localizations, `rows` the
mirror. A sync reads the app infos, looks for a version that can be edited, then
for one that is live, reads the localizations of the one it found and replaces the
mirror; App Review may move the version between any two of these calls. A
one-locale request and a bulk apply write to Apple and commit the same change
afterwards, to rows they loaded before. `had` remembers every text Apple ever accepted.

**Listing.** Requests that translate look items up in the cache, call the
providers (`Translate`, two attempts each, the next provider after that), take the
app's advisory lock, count the last thirty days and insert. The lock is
PostgreSQL's: on SQLite, the default database (`core/config.py:20`),
`_acquire_app_cap_lock` returns at once, and so it does in the model when
`postgres` is FALSE. The cap then holds but for the purchases that others have
under way, which is what `TranslationQuota` allows where purchases are not ordered
(`serial`). A localize then reads
the draft, merges its locales and writes the whole of it, in the code's own order
(`ReadDraft`, `SaveDraft`).

### AssetSync and AssetTools: screenshots

**AssetSync.** `assets` is one set at Apple, in order, each with the state of its
processing. A sync `Bind`s (lists the page's localizations), takes the page's key
from `_APPLYING` or is refused, scans the export directory, plans from the live
set, and works through the slots: `Keep` what matches, `Delete` what does not,
`Upload` into the empty slot, delete the surplus, `Reorder`. A failed write makes
it plan again from the live set (`Replan`), once; a second failure is recorded on
the row. `Process` is Apple publishing the checksum of an upload, or failing it;
until then the code compares name and size only, which `Look` models: two files
may look alike. `Abort` leaves the `with` blocks at any step and gives the key
back.

**AssetTools.** The tools that upload, replace or delete one screenshot, by name,
by position or by id: list, delete the old one first, reserve and upload, order
the set, verify; a delete may prune the empty set. They take no lock.

### Experiments and CustomPages

**Experiments.** A submit looks for an open review submission, looks at its items,
creates one or reuses it, adds the experiment and sends it; people add items and
App Review answers in between. An upload to a treatment finds or makes the
localization, uploads, and deletes what it made if a file fails.

**CustomPages.** A create is one compound POST and a second call for the
visibility; from an upload it resolves the version, uploads, and deletes the page
when a file fails. `asked` says of a page which files it was made for, and
`excused` that its deletion failed, its request died, or the answer that would have
named it was lost. A keyword set reads what is there and what is offered, links,
unlinks and reads back.

### RcSurface, SearchAds and Replies

**RcSurface.** An app's RevenueCat credential (`creds`, `link`), changed by
read, decide and one commit; and the calls passed on with it, one RevenueCat call
each, repeated on a 429 and on nothing else, lists page by page.

**SearchAds.** A sync is one transaction in which every step fails on its own;
`postgres` says whether a failed statement ends the transaction (it does there,
not in SQLite). Reports start the day before the watermark, which moves in the
end whatever failed. Negatives and ads go to Apple first, their row follows.

**Replies.** Apple's ids of reviews and replies are the whole team's; the program
remembers from what it lists which app a review belongs to (`appMap`) and which
review a reply answers (`respMap`), and asks that memory before every read or
write. Two users may hold rows of one app.

## What the runs check

`CHECK_DEADLOCK` is FALSE where the system really stops: when the runs,
requests, saves, syncs or tokens of the instance are used up. In `pricing` the
callers come back, and deadlock is checked.

| Run | Properties | Shows | Distinct states |
|---|---|---|---|
| `products` | `CleanSwapMovesWhatItFound`, `HandsOver`, `LossIsReported` | two overlapping or repeated swaps with refused, lost and aborted calls: no error means every holder found has the new product only; the swaps implement `Handover`, so the old product is taken only from who has the new one or after a failure on record, and nobody else gains either; a holder that ends up with neither product is reported by a run, or the run died | 1.5 million |
| | `OneSecret`, `CallSaysWhatWasDone` | an app keeps the one secret it is linked to; a call to RevenueCat says what was done, through 429s, 5xx, lost answers and pages | |
| | `AccountIsMirrored` | a Search Ads sync without an error on record commits what Apple had; a negative's row goes only when the negative has | |
| | `CleanCloneIsComplete`, `OffSaleIsReported` | a clone and a retry, of either kind of product, failing anywhere: no error means everything in scope was copied; a product off sale on both sides is reported | |
| | `CatalogMirrors` | one row per product unless requests overlapped; a listing that answers has every product under Apple's name; a row is removed only when its product is gone | |
| | `AnsweredIsThere` | what a request on texts, offers and review screenshots answers for is at Apple, also the partly failed bulk write | |
| `product_swap` | `RcFollowsApple`, `CommittedRowIsTrue`, `EveryRequestEnds` | RevenueCat is never given a product Apple lacks; status, warnings and checklist agree with what both services hold; every accepted request ends | 845 thousand |
| `consent_gate` | `KeepsPromise` | the gate implements `OneShotConsent` under wrong users, wrong calls, replays, expiry, overflow and restarts | 711 thousand |
| | `AnswerIsTrue` | a POST is done at most once, was done when answered, was not when refused; and a request about a review or a reply reaches the review and the app it named | |
| | `LadderIsWhole` | a reader is given a whole ladder or none; what a sync counted, undisturbed, is there | |
| `pricing` | `BaseIsSent`, `OnlyUncachedPricesAreLost`, `FreshApplyIsExact`, `EmptyCacheNeverWipes` | what replacing a schedule from a cache can and cannot destroy | 2.7 million |
| | `PaysMoreOnlyIfMisled`, `LeavesBandOnlyIfMisjudged` | two overlapping applies by rows of any age: a subscriber pays more than the price in effect, and an unforced change of more than half comes from one day to the next, only where an apply judged by a row that did not show the price in effect when it wrote | |
| `sub_apply` | `SyncedIsComplete` | "synced" means the trial is in every target territory, whatever failed | 82 thousand |
| | `SavesAppend`, `OutracedByEnough`, `Answers` | overlapping saves implement `VersionLog`: one atomic append or none, no number twice or left out, no version changed; giving up means having been overtaken; saves end | |
| | `PreviewHolds` | what a preview shows as going through is not skipped by the apply; the rounding keeps the order of prices of one currency | |
| `asset_sync` | `CleanSyncShowsExport`, `NothingUnplanned`, `LockHasOneHolder`, `EverySyncEnds` | a sync without a failed row leaves the export, in order, through half-landed writes of its own and of earlier syncs; the key is held by one apply and given back | 779 thousand |
| `store_page` | `MirrorIsTrue`, `ReportsTheTruth` | the mirror never shows a text Apple did not accept, and is exact after undisturbed requests; "applied" and "skipped" are so | 1.1 million |
| | `BuysWithinQuota`, `BatchesAddUp` | overlapping requests implement `TranslationQuota`: on PostgreSQL each purchase counts and inserts at once, below the cap, on SQLite below the cap and the purchases others have under way, and none buys what is there; successive batches of a proposal add up in the draft | |
| | `SubmitIsClean`, `CleansUpItsOwn` | a submit sends the experiment alone or says why not; a failed upload deletes what it made and nothing else | |
| | `KeywordsBetween`, `NoHalfPages` | no keyword that is wanted is taken away on the way; in every state a page has every file of the upload it was made from, or a request is at it, its cleanup included, or it is `excused` | |
| | `SlotIsExact` | an upload puts its screenshot where it was asked for and disturbs no other | |
| `sub_clone_sale` | `SuccessIsOnSale` | violated, see below | |
| `iap_pricing_stale` | `UntouchedPricesStay` | violated, see below | |
| `sub_price_band` | `DailyChangeInBand` | violated, see below | |
| `intro_offers_orphans` | `ReapplyIsNoOp` | violated, see below | |
| `product_parts_regions` | `RegionsKeepTheirText` | violated, see below | |

Types are part of the proved inductive invariants: `TypeOK` where a module has one,
and otherwise a conjunct of the invariant in the proof module that says which
fields a request has in each of its states.

Every property of a passing run has a mutant in `PROJECT.json`: a definition
changed the way a slip in the code would change it (a dropped guard, a failure
that goes unrecorded, a reset left out), under which TLC finds the property
violated. Properties with several parts have one for each of several parts. It
is how we know that the instance is large enough to matter.

### Where the code and its documentation disagree

- `sub_clone_sale`: the availability step fails, the archive step takes the
  source off sale all the same (`services/asc/clone.py:642`); the retry reads an
  empty list of territories from the source, has nothing to mirror
  (`clone.py:301`) and reports success. Neither product is on sale, although
  `api/v1/clone.py:664` calls a retry safe.
- `iap_pricing_stale`: an apply never updates the cached rows it pads the next
  schedule with (`api/v1/pricing.py:1946`), so an apply of one territory puts an
  earlier apply's territory back to the price before it;
  `docs/017-iap-lifecycle-and-price-schedules.md:103` says that with a warm cache
  the loop has what it needs.
- `sub_price_band`: the safety band compares with the cached row
  (`api/v1/pricing.py:950`), which an apply does not update and nothing obliges
  anybody to sync; the docstring at `api/v1/pricing.py:838` promises that a price
  "differs from the current Apple price by more than 50%" is skipped. Sync, apply
  3 to 2, let a day pass, apply 4: from the old 3 that is within the band, from the
  2 in effect it doubles the price. The same old row breaks "Decreases always
  reach everyone, flag or not" (`docs/021:61`): a decrease that looks like an
  increase is sent with `preserveCurrentPrice`. Line 65 of the same page warns of
  it, and `PaysMoreOnlyIfMisled` says that nothing else breaks it.
- `intro_offers_orphans`: a territory priced at Apple without a cached row counts
  as no longer priced and loses its offer (`api/v1/pricing.py:1067`), also when
  the offer is the desired one; the comment at line 980 calls that a no-op.
- `product_parts_regions`: a bulk write of `pt-PT` to a product that has `pt-BR`
  only takes the Brazilian text for the one asked for and overwrites it
  (`api/v1/pricing.py:2152`); the comment at line 2134 says prefix collisions only
  matter when the requester sent a bare prefix.

### Bounds, and why they are enough

- `MCProducts`. RevenueCat: two swaps that may overlap (`SwapsAtOnce`), two
  entitlements of which one does not hold the old product, two packages in two
  offerings, so that one offering can be listed and the other not. Runs touch
  holders one by one and independently; a third run can only repeat what one of
  the two does. Calls to RevenueCat: three requests (`MaxRcCalls`), two at a time,
  lists of two pages (`MaxPages`) and two tries, so that a last try is reached.
  Search Ads: two campaigns, two days (`MaxDay`), on both databases, three requests
  or edits, one negative or ad; days that an incremental sync would leave out of
  its window need a third day and are covered by `AccountKept` only. The cloner: a
  clone and a retry, one at a time; one territory; two keys, so that a part can be
  half copied; scopes with and without archive and with the copies left out;
  `ProductsProofs` covers any number of overlapping runs. Catalog: two products
  with two names, so that one can be named like the other, three requests or
  edits, two of which may overlap. Parts: two products, a bare language and two
  regions of another, three parts. `MCSubClone` alone serves the two runs with a
  counterexample.
- `MCProductSwap`: a request and one more request or retry after it, one locale,
  one entitlement; overlap is what the two parts are checked and proved for.
- `MCConsentGate`: two users, two calls, three tokens, a store of one (`MaxPending`),
  `Ttl` 2 on a clock up to `MaxTime` 3: tokens of different ages, one too many of
  them, and a token that expires while another lives. The client: two requests of
  three attempts each (`MAX_RETRIES`; the code makes six), a first, a middle and a
  last one, which is all the code tells apart, and three connections; the theorem
  is for any number. Ladders: two pages, three readers
  and writers at a time. Reviews: two rows of one app and a row of another, three
  reviews, two replies, two requests from every state earlier ones can leave.
- `MCPricing`: two territories (the base and another), prices 2 and 5, further
  apart than the band allows, one syncing and one applying caller that come back
  without limit, one edit by hand (`MCIapPricing` is this part alone); for the
  subscription the prices 2, 4, 6, on both sides of the band in both directions,
  and two applies that come back without limit, so that a row may miss any number
  of changes. `MCSubPriceBand` has one apply and the prices 2, 3, 4, 6.
- `MCSubApply`: two territories and two configurations, so that an offer is missing,
  right, different, or an orphan, in each; four savers and the code's three
  attempts, so that one save can lose all its races; previews over one currency
  of each kind of rounding profile at rates that cross its tiers, one change by
  others and one apply. `MCIntroOffersOrphans` is the offers' part alone.
- `MCAssetSync`: two syncs, a cap of two, three files of which two look alike, five
  asset ids. Uploads need a fresh id (`Used # Id`); were the ids ever used up a
  sync would be stuck, and `EverySyncEnds` would fail.
- `MCStorePage`: two locales, two texts, two requests (`MaxOps`) from every state
  of version, a bulk apply being of the promotional text (which a live version
  lets one write, a version in review does not; the theorem has any set of
  fields); two listing requests on either database, two proposals, a pack of one
  locale so that a proposal takes two calls, a cap of two so that it is met; two
  experiments and two review submissions; two keywords; a set of at most two
  screenshots, and three edits of it, so that a third follows two that failed or
  overlapped.

### Fairness

Fairness is only on steps the server takes by itself once a request is in: a
call to Apple or RevenueCat returns or raises (the HTTP clients have timeouts),
and the event loop resumes the handler. `ProductSwap` has weak fairness of
`Serve`, `PriceVersions` of `Read` or `Insert`, `AssetSync` of `Apply`. Callers owe
nothing, no request has to be made or repeated, and no failure or crash is
excluded. The `FairSpec`s of `IapPricing` and `IntroOffers` say the same and serve
the two runs with a counterexample, which therefore do not rest on a request
that stops half-way. `MCProductSwap` and `MCSubApply` state the fairness of their
module over the specification of the instance.

### What the properties leave out

- `AssetSync`, `Fresh`: a page's localizations are listed before the lock is taken
  and never again. A sync that found the localization missing and got the lock
  after another had made it plans from an empty set and doubles the assets; the
  set properties are stated for syncs whose listing still held.
- `IapPricing`, `EmptyCacheNeverWipes`: one apply and no edits; nothing closes the
  gap between the check and the write.
- `CatalogMirrors`, `OneSecret`, `BatchesAddUp`, `SlotIsExact`, the second parts of
  `MirrorIsTrue` and `LadderIsWhole`: the promise is for requests that do not
  overlap. When they do, the code inserts a second row of a product and every
  later listing fails on it (`api/v1/pricing.py:1193`); inserts a second secret
  linked to nothing (`api/v1/revenuecat.py:117`); loses the locales of one of two
  localizes (`services/listing/service.py:642`); puts a screenshot in another
  slot.
- `SubmitIsClean` excuses a submission to which somebody added an item after the
  code had looked at it, which the code cannot see.

Behaviour the models show without breaking a property:

- Listing: the comments at `services/metadata/translate.py:550` and `:647` say that on
  SQLite a re-check of the count right before the insert suffices, since a
  transaction there is the only writer. But the count is a read, which opens no
  write transaction, and another request can count between it and the insert:
  two requests at one below the cap both buy. `BuysWithinQuota` states the bound
  that is left, the cap and one for each other request under way.
- Prices: a cached price of 0.0 (a point whose price could not be read) disables
  the safety band for its territory; the row of a territory handed back to
  auto-equalization is never deleted, so the next apply makes it manual again;
  failed deletes of orphaned offers are logged but not counted; for a price typed
  by hand the page flags a percentage rounded to hundredths and the apply does
  not round, so one at the edge of the band is shown as going through and skipped.
- Swap: an offering whose packages cannot be listed is skipped without an error; a
  refused attach is followed by the detach, so "existing subscribers keep their
  entitlement" (header of `swap.py`) comes down to `LossIsReported`; the tool's "no
  iOS change required" is also said when no RevenueCat swap was asked for,
  provided RevenueCat is connected.
- Catalog: a product deleted in App Store Connect keeps its row for ever, since
  listings only add and the delete route answers 404.
- Search Ads: a sync with failed reports moves the watermark all the same, and an
  incremental sync never fetches those days again; `services/asa/sync.py:6` calls
  partial failures resumable, which a full backfill is.
- Reviews: two users with rows of one app take each other's reviews by listing
  them, which the comment at `services/reviews/ownership.py:68` calls unreachable;
  whoever was overtaken is told 404 until the next listing. No request reaches a
  wrong review.

## What is proved

Every safety property a passing run checks is stated by a theorem, for every
number of requests, runs, products, holders, users, tokens, territories, prices,
files and locales, and every bound. Where a run explores components that share no
state, the theorem is about its `MCSpec`: one part moves, the others are at rest,
so the invariant of a part is kept by the whole.

Each proof has the same shape: an inductive invariant that includes the types,
that it holds at first, that every action keeps it (one step per action, one below
it per conjunct the action can disturb), and what follows from it.

- **`RcSwapProofs`**. The swap: `CleanSwapCorrect`, `NothingGainedCorrect`,
  `LossReported`, `SwapHandsOver`. The promise about a finished run is not
  inductive: other runs attach and detach meanwhile. `RcInv` therefore follows
  each run through its loops. What it found held the old product at the start
  (`FoundHeld`, `NothingFoundYet`), what the attach loop has left behind holds the
  new product (`AttachedSoFar`), what the detach loop has left behind no longer
  holds the old one (`DetachedSoFar`), unless the run has an error on record. No
  run ever detaches the new product or attaches the old one, so other runs keep
  both. `SwapHandsOver` is the refinement of `Handover`: attach maps to `Give`,
  detach to `Take` (which `AttachedSoFar` allows), every other call to a stutter
  or to a failure going on record, and once one is on record or a run has died it
  stays so (`BlameStays`). The REST surface: `OneSecretKept`,
  `CallsSayWhatWasDone`. `SurfaceInv` says that what a call has done and what it
  has left add up to what it was asked, and that as long as no two writes
  overlapped, the writer at work has read what is linked now. Search Ads:
  `AccountKept`. `AdsInv` follows a sync without errors from the lists over the
  reports to the commit; ids are never used twice, so what was dropped at Apple
  stays dropped. These theorems are about the services alone; `ProductsProofs`
  states them of the specification the run `products` checks.
- **`ProductsProofs`**. The services: a behaviour of `AllSpec` is one of the swap
  and one of the services' parts (`SwapsRun`, `ServicesRun`), so the theorems of
  `RcSwapProofs` hold of it under their names. The clone: `CleanCloneCorrect`,
  `OffSaleReported`. A run without an error has found its target (`TargetFound`)
  and copied each part but for the keys still to do (`CopiedSoFar`). An in-app
  purchase's prices are replaced as a whole, so another run could take prices
  away; `FromSource` (runs bring only what the source holds, and a schedule brings
  all of it) shows it does not. For the sale: `ReadBeforePost` (availability is
  posted only for territories that were read) and `SaleMoves` (while nobody has
  reported or died, whoever is past the availability step has put the target on
  sale). `OffSaleReported` needs the condition in its property: a scope that
  archives without mirroring the availability takes a product off sale as asked.
  The catalog: `CatalogMirrored`; as long as no two requests overlapped, one at
  most is at work and what it has read and written so far is right (`CatalogInv`:
  `Settled`). The parts: `AnswersHold`; `PartInv` has what each step of a bulk
  write has answered at Apple under the product it was asked for.
- **`ProductSwapProofs`**. The composition refines both its parts: `SwapIsClone` and
  `SwapIsRcSwap` (`Spec => Clone!Spec`, `Spec => Rc!Spec`): each of its steps is a step
  of the clone, of the swap, or of neither. The two proof modules above are
  instantiated, so their invariants hold of it, and `SwapInv` adds how the two
  belong together (`Together`): a run swaps at RevenueCat only after its clone, and
  what is recorded says how both went. Hence `RcAfterApple`, `RowIsTrue`; and since the
  composition is a RevenueCat swap, it implements `Handover` as well (`WholeHandsOver`):
  a chain of refinements, proved link by link.
- **`ConsentGateProofs`**. The gate: `PresentedSpent` (a token presented once,
  rightly or wrongly, is never in the store again), `WithinTtl` (a call runs
  within the lifetime of its token), `StoreStaysBounded`, and `Implements`, that
  the gate implements `OneShotConsent` under the mapping in `KeepsPromise`:
  initial states map to initial states, `Mint` to `Ask`, `Present` to `Run` or
  `Lapse`, `Tick` to a stutter, `Restart` to `Lapse`. `Minted`, that a token in
  the store or in `ran` has a record, is what keeps a later mint from rewriting
  the consent of an earlier one. The client: `ClientAnswersAreTrue`; a POST that
  is still under way has not been done, since it is only sent again when it was
  refused (`ClientInv`). Ladders: `LaddersAreWhole`; a file is never anything but
  half or whole, and a writer alone finds what it wrote (`LadderInv`). Reviews:
  `RepliesHitTheirReview`, `ShownStaysKnown`, and with the client
  `AnswersAreTrue`. A request that was let through on the strength of the tables
  acts at Apple only later, when others have listed, written and deleted.
  `ReplyInv` says why that does no harm: both tables only hold what is so at Apple
  (`TablesSound`), a reply's number is never used for another review
  (`RepliesSound`), so what admitted a request stays true (`Admitted`); what a
  request has read or is about to forget is still so, or gone (`PageSound`,
  `ForgetsWhatIsGone`).
- **`PricingProofs`**. In-app purchases: `TypesHold`, `BaseAlwaysSent`,
  `OnlyUncachedLost`, `FreshApplyExact`, `EmptyCacheIsSafe`. The type invariant
  carries that Apple's base has a price whenever there is a schedule; `Prepared`
  says what is about to be sent is the accepted items laid over the rows the
  request started from, with a base among them. Edits, syncs and other applies may
  come at any time, except for `EmptyCacheIsSafe`, which is about a lone apply
  (`CheckedFirst`). Subscriptions: `OnlyMisledPayMore`, `OnlyMisjudgedLeaveBand`,
  for any prices, applies, syncs and days and rows of any age. `SubInv` says of
  the change that waits for midnight what the apply that wrote it had judged: if
  by the price in effect, then it is in the band unless forced, and keeps
  subscribers their price only if it raises it (`PlanIsJudged`); once there is a
  price, only midnight changes the one in effect, and it empties the plan, so a
  sound plan stays sound until then.
- **`SubApplyProofs`**. Versions: `AlwaysNumbered`, `OutracedOnlyByEnough`.
  `Counted` relates three things: a number read is at most one above the number of
  rows, at least the attempts made so far, and each lost race means one more row.
  `VersionsAreALog` refines `VersionLog`: the log is the rows in the order of
  their numbers, an insert that does not collide is an append because a number
  that is free and was once the next still is, and the lost races are stutters.
  Offers: `SyncedTrialsAreComplete`, for the one apply of the instance and any
  syncs beside it; what is neither planned nor failed is as desired (`OfferPlan`).
  Previews: `PreviewsHold`. All items of a preview were made in one mode and,
  until something changes, stand as files and rows say (`PreviewInv`), so an apply
  does what was shown. That a ladder keeps its order is arithmetic about the
  rounding: the nice prices of a tier are a grid, the result is the grid point
  nearest to the raw price (`OnGrid`) whichever of the code's windows it comes
  from, and two neighbouring tiers share the point where they meet (`Meet`), so
  rounding never swaps two prices, in any currency.
- **`AssetSyncProofs`**: `OneHolder`, `PlanCoversTheSet`, `CleanSyncIsExport`. In
  `SyncInv`, the set is exactly what has been placed and what the plan still has to
  place or delete (`AllThere`), and the slots before the current one hold assets
  that stand for their files (`Placed`); failed writes, half-landed uploads and a
  second plan keep both.
- **`StorePageProofs`**. Listing: `NeverOverCap`, `EveryBatchIsKept`, and
  `PurchasesKeepQuota`, the refinement of `TranslationQuota`: the insert is the
  purchase, the count before it a stutter. On PostgreSQL who is about to insert
  holds the lock, and nobody has bought since it counted; on SQLite each request
  that counted below the cap buys one item at most before it counts again. Either
  way what has been bought and what the `Buyers` on their way will buy stays below
  the cap, on SQLite by one more for each other request (`ListingInv`:
  `WithinCap`). Pages: `KeywordsStayBetween` (what is not on the page is still to
  do) and `UploadsAreWhole`: a request in `visible`, `version`, `upload` or
  `cleanup` has its page and knows what is missing (`PageInv`), so every way out
  of each, success, refusal, lost answer or death, leaves the page whole, gone or
  excused. Experiments: `SubmitsAreClean`, `CleanupIsItsOwn` (`SubmitInv`,
  `UploadInv`). Metadata: `MirrorsAreTrue`, `ReportsAreTrue` (`TextInv`: the rows
  are behind Apple's page by exactly what the request at work is about to commit).
  Single screenshots: `SlotsAreExact` (`ShotInv`: while a request is alone the set
  is what it listed with its own screenshot where its step has brought it, last
  after the upload, in its slot after the order). Inserting, removing and taking
  out an id are lemmas about sequences (`WithAt`, `LessAt`).

The proofs rest on assumptions about constants only. The named `ASSUME`s of the
modules are evaluated by TLC on every run: bounds are natural numbers and attempts
at least one; prices are positive; entitlements and packages are different things;
a sync has as many asset ids as a set has places; rates are positive, taxes and
indices not negative and every bracket named has a price (`PreviewSetting`);
canonical names of a locale are of its language (`LangSetting`). The others are
hypotheses of the theorems and hold in the instances: an id is never the absence
of one and one reply can be written (`ReplySetting`); holders and offerings are as
`RcSwap` has them (`Setting`) and lists have pages (`CallSetting`), which TLC
evaluates as `ServicesSetting`; prices of a subscription are positive (`SubSetting`);
the lock's "nobody" is not a request, requests are finitely many and at least one,
and the cap is a number (`ListingSetting`); an upload is a list of files
(`PageSetting`); a bulk field is a field of one of the two kinds (`TextSetting`);
uploaded files are not named like the ones that were there, there is a name, and
the cap is a number (`AssetSetting`); at most finitely many applies
(`EmptyCacheIsSafe`).

Only model-checked: liveness (`EveryRequestEnds`, `Answers`, `EverySyncEnds`), which is
beyond the prover, as `ENABLED` is. The runs with a counterexample prove nothing more.

## What is not modelled, and why

- Assets: videos run through the same engine as screenshots; probing them, their
  poster frames and the inventory are left out. The single-asset tools take no
  lock; `AssetTools` has them overlap each other, their overlap with a sync is
  planned.
- Listing optimizer: what a prompt, a score or a packed keyword field says;
  brainstorm's ranking, the gaps and the export are reads of other tables.
- Price calculation: `PriceEngine` and `FixedPayoutCalculator` are used by no
  route; two previews whose answers overtake each other in the page.
- Preview, list and export routes of every component: reads.
- Keywords, visibility, keyword intelligence: rate-limited reads of a public
  search service that append snapshots; scoring and packing are heuristics.
- Indices and exchange rates: downloads of reference tables; the upsert a preview
  depends on is in `PricePreview`.
- Apps, territories, presets, availability: reads, and single writes of one row or
  one resource.
- Rate limiter, authentication: no `await` between a read and its write, or library
  calls around single rows.
- Analytics, audits, clash, growth, exports, reviews' themes: reports over data
  already read, or called by nothing.
- Frontend: presentation; what the pricing page flags and sends is in
  `PricePreview`.

## Plan

Done: the modules above. Next, in this order:

1. Proofs: every safety property of a passing run has its theorem, and four
   components are proved to implement a specification of their own (`OneShotConsent`,
   `Handover`, `VersionLog`, `TranslationQuota`). Left is a ladder as one atomic file
   (`PriceLadders`): written whole or removed, where two writers that overlap and
   leave an unreadable file count as a removal.
2. A sync of assets beside the single-asset tools: what their overlap can do to a
   set.
3. `AscClient` as what the modules above it call: their lost answers as a
   refinement instead of a reading.
4. A refresh of keyword ranks: the throttle that all lookups of the process share,
   the bounded fan-out, and that ranks reach the rows they were asked for.
