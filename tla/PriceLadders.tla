---------------------------- MODULE PriceLadders ----------------------------
(***************************************************************************)
(* The price-point cache: one file per territory and product type, shared  *)
(* by every app.  A sync fetches the ladder of a territory page by page    *)
(* and writes the file in place; a preview reads it from another thread    *)
(* and removes what does not parse.  One file is followed here; a file is  *)
(* a name and the contents it points to, which outlive the name.           *)
(***************************************************************************)
EXTENDS Naturals, FiniteSets

CONSTANTS
  Runs,     \* syncs and readers
  Pages,    \* pages of Apple's ladder
  MaxCalls  \* bound on the requests

VARIABLES
  name,     \* the contents the file name points to, or 0
  disk,     \* contents -> "half", "garbled" or the pages written
  run,      \* request -> its state
  served,   \* history: every ladder a reader was given
  disturbed,\* history: a sync that another request wrote or removed under
  calls

vars == <<name, disk, run, served, disturbed, calls>>

Idle == [pc |-> "idle"]
To(r, rec) == run' = [run EXCEPT ![r] = rec]
Step(r, pc) == [run[r] EXCEPT !.pc = pc]
Half == [kind |-> "half", pages |-> {}]
Garbled == [kind |-> "garbled", pages |-> {}]
Ladder(pages) == [kind |-> "json", pages |-> pages]
Parses(contents) == contents.kind = "json"
Others(r) == {s \in Runs \ {r} : run[s] # Idle}
Start(r, rec) ==
  /\ run[r] = Idle /\ calls < MaxCalls /\ calls' = calls + 1
  /\ To(r, rec)
  /\ disturbed' = (disturbed \/ Others(r) # {})
  /\ UNCHANGED <<name, disk, served>>

-----------------------------------------------------------------------------
(* fetch_and_cache_all                                                     *)

\* Four doors to the same sync: two routes and two tools.
sync_price_points(r) == Start(r, [pc |-> "listing", got |-> {}, at |-> 0])
sync_iap_price_points(r) == sync_price_points(r)
pricing_sync_subscription_price_points(r) == sync_price_points(r)
pricing_sync_iap_price_points(r) == sync_price_points(r)

\* A territory whose file is there is skipped, whatever is in it.
SkipCached(r) ==
  /\ run[r].pc = "listing"
  /\ To(r, IF name # 0 THEN Idle ELSE Step(r, "fetch"))
  /\ UNCHANGED <<name, disk, served, disturbed, calls>>

\* _all_pages: a page that fails fails the territory, and nothing is written.
AfterFailedPage_Keeps(r) == Step(r, "open")
AfterFailedPage(r) == Idle

FetchPage(r) ==
  /\ run[r].pc = "fetch"
  /\ \/ \E p \in Pages \ run[r].got :
          To(r, [run[r] EXCEPT !.got = @ \cup {p}])
     \/ run[r].got = Pages /\ To(r, Step(r, "open"))
     \/ run[r].got # Pages /\ To(r, AfterFailedPage(r))
  /\ UNCHANGED <<name, disk, served, disturbed, calls>>

\* _write_sync: the file is cut to nothing, then written.
OpenFile(r) ==
  /\ run[r].pc = "open"
  /\ LET at == IF name = 0 THEN Cardinality(DOMAIN disk) + 1 ELSE name IN
     /\ name' = at
     /\ disk' = [f \in DOMAIN disk \cup {at} |-> IF f = at THEN Half ELSE disk[f]]
     /\ To(r, [Step(r, "write") EXCEPT !.at = at])
  /\ UNCHANGED <<served, disturbed, calls>>

\* Over what another writer has written, a shorter text leaves a tail.
WriteFile(r) ==
  /\ run[r].pc = "write"
  /\ \/ disk' = [disk EXCEPT ![run[r].at] = Ladder(run[r].got)]
     \/ Parses(disk[run[r].at]) /\ disk' = [disk EXCEPT ![run[r].at] = Garbled]
  /\ To(r, [Step(r, "counted") EXCEPT !.got = {}])
  /\ UNCHANGED <<name, served, disturbed, calls>>

Counted(r) ==
  /\ run[r].pc = "counted" /\ To(r, Idle)
  /\ UNCHANGED <<name, disk, served, disturbed, calls>>

-----------------------------------------------------------------------------
(* get, get_with_price_point_ids                                           *)

\* What the routes read it for: a preview, a price to resolve.
Read(r) == Start(r, [pc |-> "read", got |-> {}, at |-> 0])

ReadFile(r) ==
  /\ run[r].pc = "read"
  /\ IF name = 0 THEN To(r, Idle) /\ UNCHANGED served
     ELSE IF Parses(disk[name])
          THEN To(r, Idle) /\ served' = served \cup {disk[name].pages}
          ELSE To(r, Step(r, "unlink")) /\ UNCHANGED served
  /\ UNCHANGED <<name, disk, disturbed, calls>>

\* The name is removed, whatever it points to by then.
Unlink(r) ==
  /\ run[r].pc = "unlink" /\ name' = 0 /\ To(r, Idle)
  /\ UNCHANGED <<disk, served, disturbed, calls>>

Dies(r) ==
  /\ run[r] # Idle /\ To(r, Idle)
  /\ disturbed' = (disturbed \/ run[r].pc = "write")
  /\ UNCHANGED <<name, disk, served, calls>>

Init ==
  /\ name = 0 /\ disk = << >> /\ run = [r \in Runs |-> Idle]
  /\ served = {} /\ disturbed = FALSE /\ calls = 0

Next == \E r \in Runs :
  \/ sync_price_points(r) \/ sync_iap_price_points(r)
  \/ pricing_sync_subscription_price_points(r) \/ pricing_sync_iap_price_points(r)
  \/ SkipCached(r) \/ FetchPage(r) \/ OpenFile(r) \/ WriteFile(r) \/ Counted(r)
  \/ Read(r) \/ ReadFile(r) \/ Unlink(r) \/ Dies(r)

Spec == Init /\ [][Next]_vars

-----------------------------------------------------------------------------
\* Whoever reads and whoever writes at the same time, a reader is given a
\* whole ladder or none; and what a sync has counted is in the cache, whole,
\* unless another request ran beside it.
LadderIsWhole ==
  /\ \A pages \in served : pages = Pages
  /\ ~disturbed => \A r \in Runs : run[r].pc = "counted" =>
       name # 0 /\ disk[name] = Ladder(Pages)
=============================================================================
