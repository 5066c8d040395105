-------------------------- MODULE TranslationQuota --------------------------
(***************************************************************************)
(* What paying for translations promises (services/metadata/translate.py): *)
(* a "per-app monthly cap (rolling 30 days)", and a cache in which what    *)
(* has been bought stays.  A purchase counts and inserts at once, below    *)
(* the cap, and buys only what is not there yet.  Where nothing orders     *)
(* the purchases, one may miss those that the others have under way.       *)
(***************************************************************************)
EXTENDS Naturals, FiniteSets

CONSTANTS
  Cap,
  Racing   \* how many others may be buying at the same time

VARIABLES
  known,   \* the translations bought so far
  paid,    \* those of the last thirty days
  serial   \* purchases are ordered

vars == <<known, paid, serial>>

Init == known = {} /\ paid = {} /\ serial \in BOOLEAN

Buy ==
  /\ Cardinality(paid) < Cap + (IF serial THEN 0 ELSE Racing)
  /\ \E item \in known' \ known :
       known' = known \cup {item} /\ paid' = paid \cup {item}
  /\ UNCHANGED serial

Expire ==
  /\ \E item \in paid : paid' = paid \ {item}
  /\ UNCHANGED <<known, serial>>

Next == Buy \/ Expire

Spec == Init /\ [][Next]_vars
=============================================================================
