----------------------------- MODULE SearchAds ------------------------------
(***************************************************************************)
(* An Apple Search Ads account and its local mirror.  A sync is one        *)
(* transaction: organisation, campaigns, the ad groups with their keywords *)
(* and negatives, then the daily reports, each step failing on its own;    *)
(* negatives and ads are changed at Apple first, a row follows.  A         *)
(* campaign stands for itself and its ad groups.                           *)
(***************************************************************************)
EXTENDS Naturals, FiniteSets

CONSTANTS
  Runs, Campaigns,
  MAX_TRIES,    \* _MAX_RETRIES of the client
  MaxDay,       \* bound of the calendar
  MaxThings,    \* bound on the negatives and ads ever made
  MaxCalls      \* bound on the requests and on what people change

VARIABLES
  live,     \* the campaigns Apple has
  things,   \* the negatives and ads Apple has: [id, kind, of]
  ids,      \* things and credentials made so far
  db,       \* the mirror
  postgres, \* a failed statement ends the transaction
  run,      \* request -> its state
  dropped,  \* history: ids of the negatives whose row a request removed
  today, calls

vars == <<live, things, ids, db, postgres, run, dropped, today, calls>>
appleVars == <<live, things>>

Idle == [pc |-> "idle"]
To(r, rec) == run' = [run EXCEPT ![r] = rec]
Step(r, pc) == [run[r] EXCEPT !.pc = pc]
Over(new, old) == [c \in DOMAIN new \cup DOMAIN old |-> IF c \in DOMAIN new THEN new[c] ELSE old[c]]
Nothing == [camp |-> << >>, group |-> << >>, metrics |-> {}, org |-> FALSE]
Unsynced(cred) == [camp |-> [c \in Campaigns |-> "none"], group |-> [c \in Campaigns |-> "none"],
                   metrics |-> {}, org |-> FALSE, last |-> 0, negatives |-> {}, cred |-> cred]
Start(r, rec) ==
  /\ run[r] = Idle /\ calls < MaxCalls /\ calls' = calls + 1
  /\ To(r, rec)
  /\ UNCHANGED <<appleVars, ids, db, postgres, dropped, today>>
Syncing == UNCHANGED <<appleVars, ids, postgres, dropped, today, calls>>

-----------------------------------------------------------------------------
(* The credential                                                          *)

\* Flushed, shown to Apple, and rolled back when Apple does not take it.
create_credential(r) == db.cred = 0 /\ Start(r, [pc |-> "validate"])
Validate(r) ==
  /\ run[r].pc = "validate" /\ To(r, Idle)
  /\ \/ db.cred = 0 /\ ids' = [ids EXCEPT !.creds = @ + 1] /\ db' = Unsynced(ids.creds + 1)
     \/ UNCHANGED <<ids, db>>
  /\ UNCHANGED <<appleVars, postgres, dropped, today, calls>>

\* Takes all rows with it, and waits for a sync that has written some.
Writing(s) == "tx" \in DOMAIN run[s] /\ run[s].tx # Nothing
Locked(r) == \E s \in Runs \ {r} : Writing(s)
delete_credential(r) == db.cred # 0 /\ Start(r, [pc |-> "forget"])
asa_delete_credential(r) == delete_credential(r)
Forget(r) ==
  /\ run[r].pc = "forget" /\ ~Locked(r)
  /\ db' = Unsynced(0) /\ To(r, Idle) /\ Syncing

-----------------------------------------------------------------------------
(* run_sync                                                                *)

\* From the day before the last sync, whatever became of it.
FirstDay(full) == IF full \/ db.last <= 1 THEN 1 ELSE db.last - 1
run_sync(r) ==
  \E full \in BOOLEAN :
    db.cred # 0 /\ Start(r, [pc |-> "orgs", cred |-> db.cred, from |-> FirstDay(full), until |-> 0,
                             tx |-> Nothing, todo |-> {}, seen |-> {}, failed |-> FALSE])
sync_credential(r) == run_sync(r)
asa_sync(r) == run_sync(r)

Camp(r) == Over(run[r].tx.camp, db.camp)
Group(r) == Over(run[r].tx.group, db.group)
Metrics(r) == run[r].tx.metrics \cup db.metrics
LiveRows(r) == {c \in Campaigns : Camp(r)[c] = "live"}
Failed_Unrecorded(rec) == rec
Failed(rec) == [rec EXCEPT !.failed = TRUE]
\* What is written is written under a lock that the next sync waits for.
Writes(r, tx, rec) == ~Locked(r) /\ To(r, [rec EXCEPT !.tx = tx])

\* Without an organisation, now or from before, there is nothing to ask for.
Orgs(r) ==
  /\ run[r].pc = "orgs"
  /\ \/ Writes(r, [run[r].tx EXCEPT !.org = TRUE], Step(r, "campaigns"))
     \/ To(r, Failed(Step(r, IF db.org THEN "campaigns" ELSE "finish")))
  /\ Syncing /\ UNCHANGED db

ListCampaigns(r) ==
  /\ run[r].pc = "campaigns"
  /\ LET now == [c \in Campaigns |-> IF c \in live THEN "live"
                                     ELSE IF Camp(r)[c] = "live" THEN "archived" ELSE Camp(r)[c]]
     IN \/ Writes(r, [run[r].tx EXCEPT !.camp = now],
                  [Step(r, "groups") EXCEPT !.seen = live, !.todo = {c \in Campaigns : now[c] = "live"}])
        \/ To(r, Failed(Step(r, "report")))
  /\ Syncing /\ UNCHANGED db

\* A negative is upserted on a column that has no unique index, which the
\* database refuses: the first one ends the step, or the transaction.
HasNegatives(c) == \E n \in things : n.kind = "negative" /\ n.of = c
ListGroups(r) ==
  /\ run[r].pc = "groups"
  /\ \E c \in run[r].todo :
       LET tx == [run[r].tx EXCEPT !.group = Over([d \in {c} |-> "live"], @)] IN
       \/ ~HasNegatives(c) /\ To(r, [run[r] EXCEPT !.tx = tx, !.todo = @ \ {c}])
       \/ HasNegatives(c) /\ postgres /\ To(r, Idle)
       \/ HasNegatives(c) /\ ~postgres /\ To(r, [Failed(Step(r, "report")) EXCEPT !.tx = tx])
       \/ \E kept \in {tx, run[r].tx} : To(r, [Failed(Step(r, "report")) EXCEPT !.tx = kept])
  /\ Syncing /\ UNCHANGED db
GroupsDone(r) ==
  /\ run[r].pc = "groups" /\ run[r].todo = {} /\ To(r, Step(r, "report"))
  /\ Syncing /\ UNCHANGED db

\* A report has a row for each day and thing; the rows are upserted.
Days(of, level, from, until) == [of : of, level : {level}, day : from..until]
Upsert(tx, rows) == [tx EXCEPT !.metrics = @ \cup rows]
Report(r) ==
  /\ run[r].pc = "report"
  /\ LET next == [Step(r, "groupReport") EXCEPT !.until = today, !.todo = LiveRows(r)] IN
     \/ Writes(r, Upsert(run[r].tx, Days(LiveRows(r), "campaign", run[r].from, today)), next)
     \/ To(r, Failed(next))
  /\ Syncing /\ UNCHANGED db

\* An ad group's report, its keywords' and its search terms'.
GroupReport(r) ==
  /\ run[r].pc = "groupReport"
  /\ \E c \in run[r].todo :
       LET next == [run[r] EXCEPT !.todo = @ \ {c}]
           of == IF Group(r)[c] = "live" THEN {c} ELSE {}
       IN \/ Writes(r, Upsert(run[r].tx, Days(of, "group", run[r].from, run[r].until)), next)
          \/ To(r, Failed(next))
  /\ Syncing /\ UNCHANGED db

Finish(r) ==
  /\ run[r].pc = "finish" \/ (run[r].pc = "groupReport" /\ run[r].todo = {})
  /\ To(r, Step(r, "commit"))
  /\ Syncing /\ UNCHANGED db

\* One commit; the watermark moves even when steps have failed.
Commit(r) ==
  /\ run[r].pc = "commit" /\ ~Locked(r) /\ To(r, Idle)
  /\ db' = IF db.cred # run[r].cred THEN db
           ELSE [db EXCEPT !.camp = Camp(r), !.group = Group(r), !.metrics = Metrics(r),
                           !.org = @ \/ run[r].tx.org, !.last = today]
  /\ Syncing

-----------------------------------------------------------------------------
(* Negatives and ads                                                       *)

Asks(r, do, kind) ==
  \E c \in Campaigns :
    /\ db.camp[c] # "none"
    /\ Start(r, [pc |-> "send", do |-> do, kind |-> kind, of |-> c, id |-> 0, tries |-> 0])
add_negative_keywords(r) == Asks(r, "add", "negative")
asa_add_negative_keywords(r) == add_negative_keywords(r)
assign_cpp(r) == Asks(r, "add", "ad")
asa_assign_cpp(r) == assign_cpp(r)
remove_negative_keyword(r) ==
  \E row \in db.negatives :
    Start(r, [pc |-> "send", do |-> "remove", kind |-> "negative", of |-> row.of, id |-> row.id, tries |-> 0])
asa_remove_negative_keyword(r) == remove_negative_keyword(r)
unassign_cpp(r) ==
  \E n \in things :
    /\ n.kind = "ad"
    /\ Start(r, [pc |-> "send", do |-> "remove", kind |-> "ad", of |-> n.of, id |-> n.id, tries |-> 0])

asa_unassign_cpp(r) == unassign_cpp(r)

\* A second POST makes a second one; a second DELETE finds nothing.
Adds(c) ==
  /\ c.do = "add" /\ ids.things < MaxThings
  /\ ids' = [ids EXCEPT !.things = @ + 1]
  /\ things' = things \cup {[id |-> ids.things + 1, kind |-> c.kind, of |-> c.of]}
Removes(c) ==
  /\ c.do = "remove" /\ \E n \in things : n.id = c.id
  /\ things' = {n \in things : n.id # c.id} /\ UNCHANGED ids

AfterRefusal_Drops(r) == Step(r, "row")
AfterRefusal(r) == Idle
Send(r) ==
  /\ run[r].pc = "send"
  /\ LET c == run[r]
         again == IF c.tries + 1 < MAX_TRIES THEN [c EXCEPT !.tries = @ + 1] ELSE AfterRefusal(r)
     IN \/ /\ Adds(c) \/ Removes(c)
           /\ \/ To(r, IF c.kind = "ad" THEN Idle
                       ELSE [Step(r, "row") EXCEPT !.id = IF c.do = "add" THEN ids'.things ELSE @])
              \/ To(r, again)                                \* done, no answer
        \/ UNCHANGED <<things, ids>> /\ (To(r, again) \/ To(r, AfterRefusal(r)))
  /\ UNCHANGED <<live, db, postgres, dropped, today, calls>>

Row(r) ==
  /\ run[r].pc = "row" /\ To(r, Idle)
  /\ LET row == [id |-> run[r].id, of |-> run[r].of] IN
     IF run[r].do = "add"
     THEN /\ db' = IF db.camp[run[r].of] = "none" THEN db ELSE [db EXCEPT !.negatives = @ \cup {row}]
          /\ UNCHANGED dropped
     ELSE /\ db' = [db EXCEPT !.negatives = @ \ {row}]
          /\ dropped' = dropped \cup {run[r].id}
  /\ UNCHANGED <<appleVars, ids, postgres, today, calls>>

-----------------------------------------------------------------------------
Dies(r) ==
  /\ run[r] # Idle /\ To(r, Idle)
  /\ Syncing /\ UNCHANGED db

Person ==
  /\ calls < MaxCalls /\ calls' = calls + 1
  /\ \E c \in Campaigns : live' \in {live \cup {c}, live \ {c}}
  /\ things' = {n \in things : n.of \in live'}
  /\ UNCHANGED <<ids, db, postgres, run, dropped, today>>

NextDay ==
  /\ today < MaxDay /\ today' = today + 1
  /\ UNCHANGED <<appleVars, ids, db, postgres, run, dropped, calls>>

Init ==
  /\ live \in SUBSET Campaigns /\ things = {} /\ ids = [things |-> 0, creds |-> 1]
  /\ db = Unsynced(1) /\ postgres \in BOOLEAN
  /\ run = [r \in Runs |-> Idle] /\ dropped = {} /\ today = 1 /\ calls = 0

Next ==
  \/ \E r \in Runs :
       \/ create_credential(r) \/ Validate(r)
       \/ delete_credential(r) \/ asa_delete_credential(r) \/ Forget(r)
       \/ sync_credential(r) \/ asa_sync(r) \/ Orgs(r) \/ ListCampaigns(r) \/ ListGroups(r)
       \/ GroupsDone(r) \/ Report(r) \/ GroupReport(r) \/ Finish(r) \/ Commit(r)
       \/ add_negative_keywords(r) \/ asa_add_negative_keywords(r)
       \/ remove_negative_keyword(r) \/ asa_remove_negative_keyword(r)
       \/ asa_assign_cpp(r) \/ asa_unassign_cpp(r) \/ Send(r) \/ Row(r) \/ Dies(r)
  \/ Person \/ NextDay

Spec == Init /\ [][Next]_vars

-----------------------------------------------------------------------------
\* What a sync without an error on record commits is what Apple had: its
\* campaigns, no other one as live, and every day of its window for each of
\* them.  A negative whose row a request has removed is gone at Apple.
AccountIsMirrored ==
  /\ \A r \in Runs : run[r].pc = "commit" /\ ~run[r].failed =>
       /\ LiveRows(r) = run[r].seen
       /\ \A c \in run[r].seen : Group(r)[c] = "live"
       /\ \A level \in {"campaign", "group"} :
            Days(run[r].seen, level, run[r].from, run[r].until) \subseteq Metrics(r)
  /\ \A n \in things : n.id \notin dropped
=============================================================================
