------------------------------ MODULE Handover ------------------------------
(***************************************************************************)
(* What a swap promises the subscribers (the header of                     *)
(* services/revenuecat/swap.py: "Existing subscribers keep their           *)
(* entitlement"): every entitlement and package that holds the old product *)
(* is handed the new one before the old one is taken away, unless a        *)
(* failure is on record by then; the new one is not taken back, and        *)
(* nothing else comes to hold either.                                      *)
(***************************************************************************)
CONSTANTS
  Holder,
  Held      \* those that hold the old product when it begins

VARIABLES
  has,      \* what each holder references
  blamed    \* some attempt has a failure on record, or died

vars == <<has, blamed>>

Init ==
  /\ has = [h \in Holder |-> IF h \in Held THEN {"old"} ELSE {}]
  /\ blamed = FALSE

Give(h) == has' = [has EXCEPT ![h] = @ \cup {"new"}]

Take(h) ==
  /\ "new" \in has[h] \/ blamed
  /\ has' = [has EXCEPT ![h] = @ \ {"old"}]

Next ==
  /\ UNCHANGED has \/ \E h \in Held : Give(h) \/ Take(h)
  /\ blamed' \in BOOLEAN /\ (blamed => blamed')

Spec == Init /\ [][Next]_vars
=============================================================================
