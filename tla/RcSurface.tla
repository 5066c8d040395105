----------------------------- MODULE RcSurface ------------------------------
(***************************************************************************)
(* The RevenueCat side of an app outside the swap: the credential that is  *)
(* linked to the app, and the calls on products, entitlements, offerings   *)
(* and packages that are passed on with it, one RevenueCat call each, by   *)
(* a client that waits and tries again when it is rate limited.            *)
(***************************************************************************)
EXTENDS Naturals, FiniteSets

CONSTANTS
  Runs,
  RcProducts,   \* products that are attached and detached
  RC_RETRIES,   \* _MAX_RETRIES
  MaxPages,     \* pages of the longest list
  MaxCalls      \* bound on the requests

VARIABLES
  creds,    \* rows of revenuecat_credentials
  link,     \* revenuecat_credential_id, 0 for none
  rows,     \* credentials made so far
  rc,       \* thing at RevenueCat -> [live, products]
  run,
  overlap,  \* history: two requests have changed credentials at the same time
  calls

vars == <<creds, link, rows, rc, run, overlap, calls>>
dbVars == <<creds, link, rows>>

Idle == [pc |-> "idle"]
Things == {"entitlement", "offering", "package", "product"}
To(r, rec) == run' = [run EXCEPT ![r] = rec]
Step(r, pc) == [run[r] EXCEPT !.pc = pc]
Linked == link # 0 /\ link \in creds
Start(r, rec) ==
  /\ run[r] = Idle /\ calls < MaxCalls /\ calls' = calls + 1
  /\ To(r, rec)
  /\ UNCHANGED <<dbVars, rc>>

-----------------------------------------------------------------------------
(* The credential: read, decide, one commit                                *)

Writes(r, change) ==
  /\ Start(r, [pc |-> "commit", change |-> change, seen |-> IF Linked THEN link ELSE 0, had |-> link])
  /\ overlap' = (overlap \/ \E s \in Runs : run[s].pc = "commit")
create_or_update_credential(r) == Writes(r, "set")
revenuecat_set_credential(r) == Writes(r, "set")
update_credential(r) == Linked /\ Writes(r, "patch")
revenuecat_update_credential(r) == Linked /\ Writes(r, "patch")
delete_credential(r) == link # 0 /\ Writes(r, "delete")
revenuecat_delete_credential(r) == link # 0 /\ Writes(r, "delete")

Insert(r) ==
  /\ creds' = creds \cup {rows + 1} /\ rows' = rows + 1 /\ link' = rows + 1

\* The row and the link go in one commit; a row that is gone fails it.
Unlinked_KeepsRow(r) == creds
Unlinked(r) == creds \ {run[r].seen}
Commit(r) ==
  /\ run[r].pc = "commit" /\ To(r, Idle)
  /\ LET seen == run[r].seen IN
     \/ run[r].change = "set" /\ seen = 0 /\ Insert(r)
     \/ run[r].change = "delete" /\ link' = 0 /\ creds' = Unlinked(r) /\ UNCHANGED rows
     \/ run[r].change # "delete" /\ seen # 0 /\ UNCHANGED dbVars
  /\ UNCHANGED <<rc, overlap, calls>>

-----------------------------------------------------------------------------
(* Calls that are passed on                                                *)

Calls(r, thing, do) ==
  /\ Linked
  /\ \E p \in RcProducts, n \in 1..MaxPages :
       /\ do # "list" => n = 1
       /\ Start(r, [pc |-> "send", thing |-> thing, do |-> do, product |-> p, tries |-> 0,
                    did |-> 0, left |-> n, size |-> n])
  /\ UNCHANGED overlap
Does(r, thing, dos) == \E do \in dos : Calls(r, thing, do)

products(r) == Does(r, "product", {"list", "archive"})
entitlements(r) == Does(r, "entitlement", {"list", "create", "rename", "archive", "attach", "detach"})
offerings(r) == Does(r, "offering", {"list", "create", "rename", "archive"})
packages(r) == Does(r, "package", {"list", "create", "remove", "attach", "detach"})
revenuecat_products(r) == products(r)
revenuecat_entitlements(r) == entitlements(r)
revenuecat_offerings(r) == offerings(r)
revenuecat_packages(r) == packages(r)
test_credential(r) == Calls(r, "product", "list")
revenuecat_test_credential(r) == test_credential(r)

\* What RevenueCat makes of a call, or FALSE when it refuses.
Allowed(c) ==
  CASE c.do = "create" -> ~rc[c.thing].live
    [] c.do = "list"   -> TRUE
    [] OTHER           -> rc[c.thing].live
After(c) ==
  [rc EXCEPT ![c.thing] =
     CASE c.do = "create"              -> [live |-> TRUE, products |-> {}]
       [] c.do \in {"archive", "remove"} -> [@ EXCEPT !.live = FALSE]
       [] c.do = "attach"              -> [@ EXCEPT !.products = @ \cup {c.product}]
       [] c.do = "detach"              -> [@ EXCEPT !.products = @ \ {c.product}]
       [] OTHER                        -> @]
Ends(r, answer) == [run[r] EXCEPT !.pc = answer]
Did(c) == [c EXCEPT !.did = @ + 1, !.left = @ - 1]

\* A list goes on to its next page with a new budget of tries.
Done(r) ==
  /\ run[r].pc = "send" /\ Allowed(run[r])
  /\ rc' = After(run[r])
  /\ LET c == Did(run[r]) IN
     To(r, IF c.left > 0 THEN [c EXCEPT !.tries = 0] ELSE [c EXCEPT !.pc = "ok"])
  /\ UNCHANGED <<dbVars, overlap, calls>>

Refused(r) ==
  /\ run[r].pc = "send" /\ To(r, Ends(r, "refused"))
  /\ UNCHANGED <<dbVars, rc, overlap, calls>>

\* Only a 429 is tried again: nothing was done.
TriesAgain_Always(r, reply) == run[r].tries + 1 < RC_RETRIES
TriesAgain(r, reply) == reply = "429" /\ run[r].tries + 1 < RC_RETRIES
Failed(r, did, reply) ==
  LET c == IF did THEN [run[r] EXCEPT !.did = @ + 1] ELSE run[r] IN
  To(r, IF TriesAgain(r, reply) THEN [c EXCEPT !.tries = @ + 1] ELSE [c EXCEPT !.pc = reply])

RateLimited(r) ==
  /\ run[r].pc = "send" /\ Failed(r, FALSE, "429")
  /\ UNCHANGED <<dbVars, rc, overlap, calls>>

\* A 5xx, or no answer: RevenueCat may have done it all the same.
Unknown(r) ==
  /\ run[r].pc = "send"
  /\ \E did \in BOOLEAN, reply \in {"5xx", "network"} :
       /\ did => Allowed(run[r])
       /\ rc' = IF did THEN After(run[r]) ELSE rc
       /\ Failed(r, did, reply)
  /\ UNCHANGED <<dbVars, overlap, calls>>

Answered(r) ==
  /\ run[r].pc \in {"ok", "refused", "429", "5xx", "network"} /\ To(r, Idle)
  /\ UNCHANGED <<dbVars, rc, overlap, calls>>

Dies(r) ==
  /\ run[r].pc \in {"commit", "send"} /\ To(r, Idle)
  /\ UNCHANGED <<dbVars, rc, overlap, calls>>

Init ==
  /\ creds = {} /\ link = 0 /\ rows = 0 /\ overlap = FALSE /\ calls = 0
  /\ rc = [t \in Things |-> [live |-> t = "product", products |-> {}]]
  /\ run = [r \in Runs |-> Idle]

Next == \E r \in Runs :
  \/ create_or_update_credential(r) \/ revenuecat_set_credential(r)
  \/ update_credential(r) \/ revenuecat_update_credential(r)
  \/ delete_credential(r) \/ revenuecat_delete_credential(r) \/ Commit(r)
  \/ products(r) \/ entitlements(r) \/ offerings(r) \/ packages(r)
  \/ revenuecat_products(r) \/ revenuecat_entitlements(r)
  \/ revenuecat_offerings(r) \/ revenuecat_packages(r)
  \/ test_credential(r) \/ revenuecat_test_credential(r)
  \/ Done(r) \/ Refused(r) \/ RateLimited(r) \/ Unknown(r) \/ Answered(r) \/ Dies(r)

Spec == Init /\ [][Next]_vars

-----------------------------------------------------------------------------
\* Unless two requests change it at the same time, an app has the credential
\* it is linked to and no other secret of its own is kept.
OneSecret ==
  ~overlap => creds = (IF link = 0 THEN {} ELSE {link})

\* What a call answers is what RevenueCat did: a change is done once when it
\* is said to be done, not at all when it is refused or given up as rate
\* limited, at most once otherwise; a list is whole.
CallSaysWhatWasDone ==
  \A r \in Runs : run[r].pc \notin {"idle", "commit"} =>
    /\ run[r].did <= run[r].size
    /\ run[r].pc = "ok" => run[r].did = run[r].size
    /\ run[r].pc \in {"refused", "429"} /\ run[r].do # "list" => run[r].did = 0
=============================================================================
