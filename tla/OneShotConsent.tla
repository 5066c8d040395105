--------------------------- MODULE OneShotConsent ---------------------------
(***************************************************************************)
(* What the consent gate promises (the header of mcp/consent.py): every    *)
(* guarded call runs on a consent of its own, asked for by the same user   *)
(* for exactly that call, and a consent serves once.  A consent may lapse  *)
(* at any time; how and when is the gate's business.                       *)
(***************************************************************************)
CONSTANTS Consent, User, Call

VARIABLES
  asked,   \* whose consent to which call each Consent is
  open,    \* the consents that can still be used
  ran      \* the guarded calls that ran: <<consent, user, call>>

vars == <<asked, open, ran>>

Nobody == <<>>

Init ==
  /\ asked = [k \in Consent |-> Nobody]
  /\ open = {}
  /\ ran = {}

Ask(k, u, c) ==
  /\ asked[k] = Nobody
  /\ asked' = [asked EXCEPT ![k] = <<u, c>>]
  /\ \E lapsed \in SUBSET open : open' = (open \ lapsed) \cup {k}
  /\ UNCHANGED ran

Lapse ==
  /\ open' \in SUBSET open
  /\ UNCHANGED <<asked, ran>>

Run(k, u, c) ==
  /\ k \in open
  /\ asked[k] = <<u, c>>
  /\ open' = open \ {k}
  /\ ran' = ran \cup {<<k, u, c>>}
  /\ UNCHANGED asked

Next ==
  \/ \E k \in Consent, u \in User, c \in Call : Ask(k, u, c) \/ Run(k, u, c)
  \/ Lapse

Spec == Init /\ [][Next]_vars
=============================================================================
