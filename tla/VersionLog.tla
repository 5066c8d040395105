----------------------------- MODULE VersionLog -----------------------------
(***************************************************************************)
(* What saving a price version promises (services/pricing/versions.py):    *)
(* the versions of a product are a log.  A save appends one entry at its   *)
(* end, at once, and is told so, or it leaves the log alone; nobody saves  *)
(* twice and no entry is ever changed.  How two saves that read the same   *)
(* number get apart is the saves' business.                                *)
(***************************************************************************)
EXTENDS Sequences

CONSTANT Saver

VARIABLES
  log,    \* whose save each version is, in order
  told    \* saver -> "waiting", "saved" or "failed"

vars == <<log, told>>

Init ==
  /\ log = <<>>
  /\ told = [s \in Saver |-> "waiting"]

Save(s) ==
  /\ told[s] = "waiting"
  /\ log' = Append(log, s)
  /\ told' = [told EXCEPT ![s] = "saved"]

Fail(s) ==
  /\ told[s] = "waiting"
  /\ told' = [told EXCEPT ![s] = "failed"]
  /\ UNCHANGED log

Next == \E s \in Saver : Save(s) \/ Fail(s)

Spec == Init /\ [][Next]_vars
=============================================================================
