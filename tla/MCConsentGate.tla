---------------------------- MODULE MCConsentGate ---------------------------
(***************************************************************************)
(* What the overlapping calls of one process share, each part explored     *)
(* with the others at rest.                                                *)
(*                                                                         *)
(* The gate: two users, two destructive calls, three tokens and a store    *)
(* for one, so that it overflows with tokens of different ages; a token    *)
(* lives for two ticks of a clock that runs to three.  The HTTP client:    *)
(* two requests of three attempts each and three connections.  The cache   *)
(* of price ladders: three of four requests at a time, ladders of two      *)
(* pages.  Reviews: two rows of one app and a row of another, two reviews  *)
(* of the one and one of the other, two requests, and what earlier ones    *)
(* left, up to the names of the two rows.                                  *)
(***************************************************************************)
EXTENDS ConsentGate, TLC

CONSTANTS p1, p2, u1, u2, del1, del2, t1, t2, t3,
          Requests, MAX_RETRIES, MaxConns, Runs, Pages, MaxCalls,
          Apps, Reviews, Asks, MaxReplies, MaxAsked

VARIABLES part, req, conn, open, made, name, disk, run, served, disturbed, calls,
          reply, written, appMap, respMap, ask, asked

StoreOf == [app \in Apps |-> IF app = "c" THEN "t" ELSE "s"]
ReviewOf == [v \in Reviews |-> IF v = "z" THEN "t" ELSE "s"]

C == INSTANCE AscClient
L == INSTANCE PriceLadders
R == INSTANCE Replies WITH made <- written

clientVars == <<req, conn, open, made>>
ladderVars == <<name, disk, run, served, disturbed, calls>>
replyVars  == <<reply, written, appMap, respMap, ask, asked>>
MCSymmetry == Permutations({u1, u2}) \cup Permutations({t1, t2, t3}) \cup Permutations({p1, p2})

MCInit ==
  /\ part \in {"gate", "client", "ladders", "replies"}
  /\ Init /\ C!Init /\ L!Init /\ R!Init
  /\ part # "client" => \A r \in Requests : req[r].method = "GET"
  /\ part # "replies" => written = <<>> /\ \A v \in Reviews : appMap[v] = R!None
  /\ appMap["x"] = appMap["y"] /\ appMap["x"] # "b" /\ (part = "replies" => appMap["z"] # R!None)
  /\ written \in {<<>>, <<"x">>}

GateStep   == part = "gate" /\ Next /\ UNCHANGED <<part, clientVars, ladderVars, replyVars>>
ClientStep == part = "client" /\ C!Next /\ UNCHANGED <<part, vars, ladderVars, replyVars>>
LadderStep == part = "ladders" /\ L!Next /\ UNCHANGED <<part, vars, clientVars, replyVars>>
ReplyStep  == part = "replies" /\ R!Next /\ UNCHANGED <<part, vars, clientVars, ladderVars>>

MCNext == GateStep \/ ClientStep \/ LadderStep \/ ReplyStep
MCSpec == MCInit /\ [][MCNext]_<<part, vars, clientVars, ladderVars, replyVars>>

\* What Apple, and the program about reviews, answered a caller is so.
AnswerIsTrue == C!AnswerIsTrue /\ R!RepliesStay
LadderIsWhole == L!LadderIsWhole
=============================================================================
