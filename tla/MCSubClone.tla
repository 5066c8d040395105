----------------------------- MODULE MCSubClone -----------------------------
(***************************************************************************)
(* Products: one that is cloned, all that an app has and their rows, and   *)
(* what hangs on them, each part explored with the others at rest.         *)
(*                                                                         *)
(* Clone: a clone and one retry of it, for a source on sale in one         *)
(* territory with one locale, two priced territories and one introductory  *)
(* offer.  Catalog: two requests at a time, three requests or edits by     *)
(* hand, two products with two names, so that one can be named like the    *)
(* other.  Parts: two products, two requests, three parts, a bare          *)
(* language and two tags of another.                                       *)
(***************************************************************************)
EXTENDS SubClone, TLC

CONSTANTS r1, r2, t1, k1, k2, x1, x2,
          ProductNames, MaxProducts, MaxCatalogCalls,
          Products, Locales, Lang, Canon, MaxParts, MaxCalls

VARIABLES
  explored,
  apple, sold, localRows, ids, request, overlap, removed, calls,
  partKind, parts, reviewShot, partRun, written, together, partCalls

C == INSTANCE Catalog WITH
       Runs <- Run, MaxCalls <- MaxCatalogCalls, rows <- localRows, run <- request
P == INSTANCE ProductParts WITH
       Runs <- Run, kind <- partKind, shot <- reviewShot, run <- partRun,
       overlap <- together, calls <- partCalls

ASSUME CatalogSetting == MaxProducts \in Nat

\* Apple stores a locale under a tag of its language.
ASSUME LangSetting == \A t \in Locales : Lang[Canon[t]] = Lang[t]

catalogVars == <<apple, sold, localRows, ids, request, overlap, removed, calls>>
partVars == <<partKind, parts, reviewShot, partRun, written, together, partCalls>>

MCSource == [p \in Part |-> IF p = "price_schedule" THEN {k1, k2} ELSE {k1}]

\* A source whose prices were never synced: no local price row to copy.
MCSourceUnpriced == [MCSource EXCEPT !["price_schedule"] = {}]

\* CloneScope() of the REST route, the MCP tool's default without archive, and
\* a scope narrowed to two copies.
MCScopes == {ScopeName, ScopeName \ {"auto_archive"},
             {"group_availability", "localizations", "auto_archive"}}

\* Apple stores Thai without a region; the two Portugueses are two locales.
MCLang == [t \in {"th", "th-TH"} |-> "th"] @@ [t \in {"pt-PT", "pt-BR"} |-> "pt"]
MCCanon == "th" :> "th-TH" @@ [t \in {"th-TH", "pt-PT", "pt-BR"} |-> t]
MCSymmetry == Permutations({r1, r2}) \cup Permutations({x1, x2})

Resting ==
  /\ C!Init /\ P!Init
  /\ explored # "parts" => partKind = "sub" /\ parts[1].locale = "pt-PT"
MCInit ==
  /\ explored \in {"clone", "catalog", "parts"}
  /\ Init /\ Resting
  /\ explored # "clone" => kind = "subscription"

CloneRuns    == explored = "clone" /\ Next /\ UNCHANGED <<explored, catalogVars, partVars>>
CatalogStep  == explored = "catalog" /\ C!Next /\ UNCHANGED <<explored, vars, partVars>>
PartStep     == explored = "parts" /\ P!Next /\ UNCHANGED <<explored, vars, catalogVars>>

MCNext == CloneRuns \/ CatalogStep \/ PartStep
MCSpec == MCInit /\ [][MCNext]_<<explored, vars, catalogVars, partVars>>

\* The violation runs look at one part alone.
CloneAlone == MCInit /\ explored = "clone" /\ [][CloneRuns]_<<explored, vars, catalogVars, partVars>>
PartsAlone == MCInit /\ explored = "parts" /\ [][PartStep]_<<explored, vars, catalogVars, partVars>>

CatalogMirrors == C!CatalogMirrors
AnsweredIsThere == P!AnsweredIsThere
RegionsKeepTheirText == P!RegionsKeepTheirText
=============================================================================
