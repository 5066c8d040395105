----------------------------- MODULE AscClient ------------------------------
(***************************************************************************)
(* The client of App Store Connect: one HTTP connection that the requests  *)
(* of one call share, retries, the token, and the backoff after a 429.     *)
(* Apple does each attempt or not and its answer arrives or not; closing   *)
(* the connection breaks the exchanges that run on it.                     *)
(***************************************************************************)
EXTENDS Naturals, FiniteSets

CONSTANTS
  Requests,     \* requests that share the client
  MAX_RETRIES,  \* attempts of one request, _MAX_RETRIES
  MaxConns      \* bound on the connections

VARIABLES
  req,      \* request -> its state
  conn,     \* the connection in _client, or 0
  open,     \* connections that are open
  made      \* connections made so far; a connection is its number

vars == <<req, conn, open, made>>

IDEMPOTENT == {"GET", "PUT", "PATCH", "DELETE"}
Methods == {"GET", "POST", "DELETE"}
Fresh(m) == [pc |-> "throttle", method |-> m, tries |-> 0, refreshed |-> FALSE, done |-> 0,
             via |-> 0, answer |-> "none"]
To(r, rec) == req' = [req EXCEPT ![r] = rec]
Step(r, pc) == [req[r] EXCEPT !.pc = pc]
Last(r) == req[r].tries >= MAX_RETRIES
Retry(r) == [Step(r, "throttle") EXCEPT !.via = 0]
Ends(r, answer) == [Step(r, "end") EXCEPT !.answer = answer, !.via = 0]
connVars == <<conn, open, made>>

-----------------------------------------------------------------------------
(* _throttle, _get_client, close                                           *)

\* Paced by one lock; what a 429 has set is waited for before the turn is left.
LeaveTurn(r) ==
  /\ req[r].pc = "throttle"
  /\ To(r, [Step(r, "connect") EXCEPT !.tries = @ + 1])
  /\ UNCHANGED connVars

Usable == conn # 0 /\ conn \in open
Connect(r) ==
  /\ req[r].pc = "connect" /\ Usable
  /\ To(r, [Step(r, "sent") EXCEPT !.via = conn])
  /\ UNCHANGED connVars

\* A missing, closed or expired client: close, which waits when there is one
\* to close, then a new one, whatever another request put there meanwhile.
Renew(r) ==
  /\ req[r].pc = "connect" /\ made < MaxConns
  /\ \/ ~Usable /\ UNCHANGED open
     \/ Usable /\ open' = open \ {conn}
  /\ To(r, Step(r, "renew"))
  /\ UNCHANGED <<conn, made>>

Renewed(r) ==
  /\ req[r].pc = "renew"
  /\ made < MaxConns
  /\ made' = made + 1 /\ conn' = made + 1 /\ open' = open \cup {made + 1}
  /\ To(r, [Step(r, "sent") EXCEPT !.via = made + 1])
-----------------------------------------------------------------------------
(* _send                                                                   *)

\* Failures before the request left the machine are tried again; others only
\* where doing it twice is the same as doing it once.
MayRetry_Always(r, sent) == ~Last(r)
MayRetry(r, sent) == ~Last(r) /\ (~sent \/ req[r].method \in IDEMPOTENT)

NotSent(r) ==
  /\ req[r].pc = "sent"
  /\ To(r, IF MayRetry(r, FALSE) THEN Retry(r) ELSE Ends(r, "network"))
  /\ UNCHANGED connVars

\* A read timeout, a dropped connection, or a connection closed by another.
NoAnswer(r) ==
  /\ req[r].pc = "sent"
  /\ \E did \in 0..1 :
       LET now1 == [req[r] EXCEPT !.done = @ + did] IN
       To(r, IF MayRetry(r, TRUE) THEN [now1 EXCEPT !.pc = "throttle", !.via = 0]
             ELSE [now1 EXCEPT !.pc = "end", !.via = 0, !.answer = "network"])
  /\ UNCHANGED connVars

Answers(r) == req[r].pc = "sent" /\ req[r].via \in open

\* What was deleted is gone: the second DELETE of it is a 404.
Done(r) ==
  /\ Answers(r)
  /\ To(r, IF req[r].method = "DELETE" /\ req[r].done > 0 THEN Ends(r, "refused")
           ELSE [Ends(r, "ok") EXCEPT !.done = @ + 1])
  /\ UNCHANGED connVars

RefusedByApple(r) ==
  /\ Answers(r) /\ To(r, Ends(r, "refused"))
  /\ UNCHANGED connVars

\* The first 401 closes the client, under whoever is using it.
Unauthorized(r) ==
  /\ Answers(r)
  /\ IF ~Last(r) /\ ~req[r].refreshed
     THEN /\ open' = open \ {conn} /\ conn' = 0
          /\ To(r, [Retry(r) EXCEPT !.refreshed = TRUE])
     ELSE To(r, Ends(r, "refused")) /\ UNCHANGED <<conn, open>>
  /\ UNCHANGED made

RateLimited(r) ==
  /\ Answers(r)
  /\ To(r, IF Last(r) THEN Ends(r, "refused") ELSE Retry(r))
  /\ UNCHANGED connVars

\* A transient 5xx; Apple may have done it all the same.
ServerError(r) ==
  /\ Answers(r)
  /\ \E did \in 0..1 :
       LET now1 == [req[r] EXCEPT !.done = @ + did] IN
       To(r, IF ~Last(r) /\ req[r].method \in IDEMPOTENT THEN [now1 EXCEPT !.pc = "throttle", !.via = 0]
             ELSE [now1 EXCEPT !.pc = "end", !.via = 0, !.answer = "5xx"])
  /\ UNCHANGED connVars

\* __aexit__, when the call that shares the client is over.
Over == \A r \in Requests : req[r].pc = "end"
Exit ==
  /\ Over /\ conn # 0
  /\ open' = open \ {conn} /\ conn' = 0
  /\ UNCHANGED <<req, made>>

Init ==
  /\ req \in [Requests -> {Fresh(m) : m \in Methods}]
  /\ conn = 1 /\ open = {1} /\ made = 1

Next ==
  \/ \E r \in Requests :
       \/ LeaveTurn(r) \/ Connect(r) \/ Renew(r) \/ Renewed(r)
       \/ NotSent(r) \/ NoAnswer(r) \/ Done(r) \/ RefusedByApple(r) \/ Unauthorized(r)
       \/ RateLimited(r) \/ ServerError(r)
  \/ Exit

Spec == Init /\ [][Next]_vars

-----------------------------------------------------------------------------
\* An answer says what Apple did.  A POST is done at most once, was done when
\* it is answered and was not when it is refused, so that a caller may retry
\* it; only no answer, or a 5xx, leaves it open.  A DELETE that is refused may
\* have been done by an earlier attempt.
AnswerIsTrue ==
  \A r \in Requests :
    /\ req[r].method = "POST" => req[r].done <= 1
    /\ req[r].answer = "ok" => req[r].done >= 1
    /\ req[r].answer = "refused" /\ req[r].method = "POST" => req[r].done = 0
=============================================================================
