------------------------------ MODULE Catalog -------------------------------
(***************************************************************************)
(* The products of an app at Apple, and the local rows that mirror them:   *)
(* subscription groups, subscriptions and in-app purchases.  Every request *)
(* changes Apple first and its own rows last, in one transaction; nothing  *)
(* in the database keeps two rows of one product apart.                    *)
(***************************************************************************)
EXTENDS Naturals, FiniteSets, Sequences, Functions

CONSTANTS
  Runs,         \* requests
  ProductNames, \* names of products
  MaxProducts,  \* bound on the products ever made
  MaxCalls      \* bound on the requests and on what people change

VARIABLES
  apple,    \* id -> [kind, name] of the products Apple has
  sold,     \* ids of the subscriptions that have territories
  rows,     \* the local rows
  ids,      \* products and rows made so far
  run,      \* request -> its state
  overlap,  \* history: two requests have run at the same time
  removed,  \* history: the products whose row a request removed
  calls

vars == <<apple, sold, rows, ids, run, overlap, removed, calls>>
appleVars == <<apple, sold>>

Idle == [pc |-> "idle"]
To(r, rec) == run' = [run EXCEPT ![r] = rec]
Step(r, pc) == [run[r] EXCEPT !.pc = pc]
RowsOf(i) == {row \in rows : row.asc = i}
OfKind(products, kind) == RestrictValues(products, LAMBDA p : p.kind = kind)
Here(i, x) == [j \in {i} |-> x]
Plus(f, g) == [i \in DOMAIN f \cup DOMAIN g |-> IF i \in DOMAIN g THEN g[i] ELSE f[i]]
Start(r, rec) ==
  /\ run[r] = Idle /\ calls < MaxCalls /\ calls' = calls + 1
  /\ To(r, rec)
  /\ overlap' = (overlap \/ \E s \in Runs \ {r} : run[s] # Idle)
  /\ UNCHANGED <<appleVars, rows, ids, removed>>
\* seen: what Apple said; adds: products to insert; names: row -> new name.
Fresh(pc) == [pc |-> pc, todo |-> << >>, seen |-> << >>, adds |-> << >>, names |-> << >>, drops |-> {}]
Calling == UNCHANGED <<rows, overlap, removed, calls>>

-----------------------------------------------------------------------------
(* Listing: Apple's products page by page, a row for each, one commit      *)

Lists(r, kinds) == Start(r, [Fresh("fetch") EXCEPT !.todo = kinds])
list_subscriptions(r) == Lists(r, <<"group", "sub">>)
list_iaps(r) == Lists(r, <<"iap">>)
pricing_list_subscription_groups(r) == Lists(r, <<"group", "sub">>)
pricing_list_iaps(r) == Lists(r, <<"iap">>)

\* A listing that fails ends the request, and what it flushed is rolled back.
Fetch(r) ==
  /\ run[r].pc = "fetch"
  /\ \/ To(r, [Step(r, "lookup") EXCEPT !.seen = Plus(@, OfKind(apple, Head(run[r].todo)))])
     \/ To(r, Idle)
  /\ Calling /\ UNCHANGED <<appleVars, ids>>

\* Products are told by Apple's id; a name is what a person may change.
Missing_ByName(seen) == {i \in DOMAIN seen : ~\E row \in rows : row.name = seen[i].name}
Missing(seen) == {i \in DOMAIN seen : RowsOf(i) = {}}

\* scalar_one_or_none raises on two rows of one product.
LookUp(r) ==
  /\ run[r].pc = "lookup"
  /\ LET page == OfKind(run[r].seen, Head(run[r].todo))
         rest == Tail(run[r].todo)
         stale == {row \in rows : row.asc \in DOMAIN page /\ row.name # page[row.asc].name}
         new == [k \in {row.key : row \in stale} |->
                   page[(CHOOSE row \in stale : row.key = k).asc].name]
     IN  IF \E i \in DOMAIN page : Cardinality(RowsOf(i)) > 1 THEN To(r, Idle)
         ELSE To(r, [Step(r, IF rest = << >> THEN "commit" ELSE "fetch") EXCEPT
                       !.todo = rest, !.names = Plus(@, new),
                       !.adds = Plus(@, Restrict(page, Missing(page)))])
  /\ Calling /\ UNCHANGED <<appleVars, ids>>

-----------------------------------------------------------------------------
(* Creating                                                                *)

Creates(r, kind, name) ==
  Start(r, [Fresh("post") EXCEPT !.todo = <<kind>>, !.names = <<name>>])
HasGroup == \E row \in rows : row.kind = "group"
create_subscription_group(r) == \E n \in ProductNames : Creates(r, "group", n)
create_subscription(r) == HasGroup /\ \E n \in ProductNames : Creates(r, "sub", n)
create_iap(r) == \E n \in ProductNames : Creates(r, "iap", n)
pricing_create_subscription_group(r) == create_subscription_group(r)
pricing_create_subscription(r) == create_subscription(r)
pricing_create_iap(r) == create_iap(r)

Make(kind, name) ==
  /\ ids.products < MaxProducts
  /\ ids' = [ids EXCEPT !.products = @ + 1]
  /\ apple' = Plus(apple, Here(ids.products + 1, [kind |-> kind, name |-> name]))

Post(r, kind) ==
  /\ run[r].pc = "post" /\ Head(run[r].todo) = kind
  /\ Make(kind, run[r].names[1])
  /\ UNCHANGED sold /\ Calling
PostRefused(r) ==
  /\ run[r].pc = "post" /\ To(r, Idle)
  /\ Calling /\ UNCHANGED <<appleVars, ids>>
Made(r) == Here(ids.products + 1, [kind |-> Head(run[r].todo), name |-> run[r].names[1]])
AddsRow(r, pc) == To(r, [Fresh(pc) EXCEPT !.adds = Made(r)])
NoAnswer(r) == To(r, Idle)

\* A subscription and a group get their row unseen, an in-app purchase is
\* looked up first.  A subscription asked for everywhere needs a second POST.
PostGroup(r) == Post(r, "group") /\ (AddsRow(r, "commit") \/ NoAnswer(r))
PostSub(r) ==
  Post(r, "sub") /\ (AddsRow(r, "availability") \/ AddsRow(r, "commit") \/ NoAnswer(r))
PostIap(r) ==
  /\ Post(r, "iap")
  /\ To(r, [Fresh("lookup") EXCEPT !.todo = <<"iap">>, !.seen = Made(r)]) \/ NoAnswer(r)

\* Best effort: the subscription is there whether this works or not.
Availability(r) ==
  /\ run[r].pc = "availability"
  /\ \E ok \in BOOLEAN : sold' = IF ok THEN sold \cup (DOMAIN run[r].adds \cap DOMAIN apple) ELSE sold
  /\ To(r, Step(r, "commit"))
  /\ UNCHANGED <<apple, ids>> /\ Calling

-----------------------------------------------------------------------------
(* Renaming and deleting, by the local row                                 *)

Renames(r, kind) ==
  \E row \in rows, n \in ProductNames :
    row.kind = kind /\ Start(r, [Fresh("patch") EXCEPT !.names = Here(row.key, n), !.seen = <<row.asc>>, !.todo = <<kind>>])
update_subscription_group(r) == Renames(r, "group")
update_subscription(r) == Renames(r, "sub")
update_iap(r) == Renames(r, "iap")
pricing_update_subscription_group(r) == Renames(r, "group")
pricing_update_subscription(r) == Renames(r, "sub")
pricing_update_iap(r) == Renames(r, "iap")

Patch(r, kind) ==
  /\ run[r].pc = "patch" /\ run[r].todo = <<kind>>
  /\ LET i == run[r].seen[1]
         name == CHOOSE n \in Range(run[r].names) : TRUE
     IN \/ /\ i \in DOMAIN apple
           /\ apple' = [apple EXCEPT ![i].name = name]
           /\ \/ To(r, [Step(r, "commit") EXCEPT !.seen = << >>])
              \/ To(r, Idle)
        \/ UNCHANGED apple /\ To(r, Idle)
  /\ UNCHANGED <<sold, ids>> /\ Calling
PatchGroup(r) == Patch(r, "group")
PatchSub(r)   == Patch(r, "sub")
PatchIap(r)   == Patch(r, "iap")

Deletes(r, kind) ==
  \E row \in rows : row.kind = kind /\ Start(r, [Fresh("delete") EXCEPT !.drops = {row.key}, !.seen = <<row.asc>>, !.todo = <<kind>>])
delete_subscription(r) == Deletes(r, "sub")
delete_iap(r) == Deletes(r, "iap")
pricing_delete_subscription(r) == Deletes(r, "sub")
pricing_delete_iap(r) == Deletes(r, "iap")

Without(i) == Restrict(apple, DOMAIN apple \ {i})
AfterRefusedDelete_Drops(r) == [Step(r, "commit") EXCEPT !.seen = << >>]
AfterRefusedDelete(r) == Idle

\* Refused: the product was approved once, or is gone already.
Delete(r, kind) ==
  /\ run[r].pc = "delete" /\ run[r].todo = <<kind>>
  /\ LET i == run[r].seen[1] IN
     \/ /\ i \in DOMAIN apple /\ apple' = Without(i) /\ sold' = sold \ {i}
        /\ \/ To(r, [Step(r, "commit") EXCEPT !.seen = << >>])
           \/ To(r, Idle)
     \/ UNCHANGED appleVars /\ To(r, AfterRefusedDelete(r))
  /\ UNCHANGED ids /\ Calling
DeleteSub(r) == Delete(r, "sub")
DeleteIap(r) == Delete(r, "iap")

\* One transaction; a row to rename that is gone fails it.
Commit(r) ==
  /\ run[r].pc = "commit"
  /\ LET adds == run[r].adds
         names == run[r].names
         new == {[key |-> ids.rows + i, asc |-> i, kind |-> adds[i].kind, name |-> adds[i].name] : i \in DOMAIN adds}
         gone == {row \in rows : row.key \in run[r].drops}
         kept == {IF row.key \in DOMAIN names THEN [row EXCEPT !.name = names[row.key]] ELSE row : row \in rows \ gone}
     IN  IF DOMAIN names \subseteq {row.key : row \in rows}
         THEN /\ rows' = kept \cup new
              /\ removed' = removed \cup {row.asc : row \in gone}
              /\ ids' = [ids EXCEPT !.rows = @ + MaxProducts]
              /\ To(r, [Fresh("answer") EXCEPT !.seen = run[r].seen])
         ELSE UNCHANGED <<rows, ids, removed>> /\ To(r, Idle)
  /\ UNCHANGED <<appleVars, overlap, calls>>

Answer(r) ==
  /\ run[r].pc = "answer" /\ To(r, Idle)
  /\ Calling /\ UNCHANGED <<appleVars, ids>>

Dies(r) ==
  /\ run[r] # Idle /\ To(r, Idle)
  /\ Calling /\ UNCHANGED <<appleVars, ids>>

\* Somebody works in App Store Connect.
Person ==
  /\ calls < MaxCalls /\ calls' = calls + 1
  /\ \/ \E kind \in {"group", "sub", "iap"}, n \in ProductNames : Make(kind, n) /\ UNCHANGED sold
     \/ \E i \in DOMAIN apple, n \in ProductNames :
          apple' = [apple EXCEPT ![i].name = n] /\ UNCHANGED <<ids, sold>>
     \/ \E i \in DOMAIN apple : apple' = Without(i) /\ sold' = sold \ {i} /\ UNCHANGED ids
  /\ UNCHANGED <<rows, run, overlap, removed>>

Init ==
  /\ apple = << >> /\ sold = {} /\ rows = {} /\ ids = [products |-> 0, rows |-> 0]
  /\ run = [r \in Runs |-> Idle] /\ overlap = FALSE /\ removed = {} /\ calls = 0

Next ==
  \/ \E r \in Runs :
       \/ list_subscriptions(r) \/ list_iaps(r)
       \/ pricing_list_subscription_groups(r) \/ pricing_list_iaps(r)
       \/ create_subscription_group(r) \/ create_subscription(r) \/ create_iap(r)
       \/ pricing_create_subscription_group(r) \/ pricing_create_subscription(r) \/ pricing_create_iap(r)
       \/ update_subscription_group(r) \/ update_subscription(r) \/ update_iap(r)
       \/ pricing_update_subscription_group(r) \/ pricing_update_subscription(r) \/ pricing_update_iap(r)
       \/ delete_subscription(r) \/ delete_iap(r) \/ pricing_delete_subscription(r) \/ pricing_delete_iap(r)
       \/ Fetch(r) \/ LookUp(r) \/ PostGroup(r) \/ PostSub(r) \/ PostIap(r) \/ PostRefused(r) \/ Availability(r)
       \/ PatchGroup(r) \/ PatchSub(r) \/ PatchIap(r) \/ DeleteSub(r) \/ DeleteIap(r)
       \/ Commit(r) \/ Answer(r) \/ Dies(r)
  \/ Person

Spec == Init /\ [][Next]_vars

-----------------------------------------------------------------------------
\* The mirror.  A product never has two rows unless two requests overlapped;
\* a listing that answers has every product Apple named, under Apple's name,
\* whatever an earlier request lost half-way; and a row is only removed when
\* its product is gone.
CatalogMirrors ==
  /\ ~overlap => \A i \in 1..MaxProducts : Cardinality(RowsOf(i)) <= 1
  /\ ~overlap => \A r \in Runs : run[r].pc = "answer" =>
       \A i \in DOMAIN run[r].seen : \E row \in RowsOf(i) : row.name = run[r].seen[i].name
  /\ removed \cap DOMAIN apple = {}
=============================================================================
