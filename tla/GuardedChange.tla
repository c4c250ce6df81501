--------------------------- MODULE GuardedChange ---------------------------
(***************************************************************************)
(* What a watchdog-guarded change promises, with one change at a time: the  *)
(* new rules are on trial until they are confirmed, or until the trial      *)
(* expires or is withdrawn, and then the rules that were live before the    *)
(* trial come back (through a moment without rules).                        *)
(***************************************************************************)
CONSTANT Rulesets

VARIABLES
  live,   \* the rules in force
  prev,   \* the rules in force before the last trial
  phase   \* "settled", "trial" or "expired"

Init ==
  /\ live \in {{}} \cup {{r} : r \in Rulesets}
  /\ prev = {}
  /\ phase = "settled"

Try ==
  /\ phase = "settled"
  /\ prev' = live
  /\ \E r \in Rulesets : live' = {r}
  /\ phase' = "trial"

Confirm ==
  /\ phase = "trial"
  /\ phase' = "settled"
  /\ UNCHANGED <<live, prev>>

Expire ==
  /\ phase = "trial"
  /\ phase' = "expired"
  /\ UNCHANGED <<live, prev>>

\* There was nothing to go back to: the rules on trial stay.
NothingToRestore ==
  /\ phase \in {"trial", "expired"}
  /\ prev = {}
  /\ phase' = "settled"
  /\ UNCHANGED <<live, prev>>

\* Restoring once more what is already restored.
RestoreAgain ==
  /\ phase = "settled"
  /\ live = prev
  /\ phase' = "expired"
  /\ UNCHANGED <<live, prev>>

Drop ==
  /\ phase = "expired"
  /\ prev # {}
  /\ live' = {}
  /\ UNCHANGED <<prev, phase>>

\* The withdrawal and the expiry may both restore: another one may be under way.
Restore ==
  /\ phase = "expired"
  /\ live' = prev
  /\ phase' \in {"settled", "expired"}
  /\ UNCHANGED prev

Next ==
  \/ Try
  \/ Confirm
  \/ Expire
  \/ NothingToRestore
  \/ RestoreAgain
  \/ Drop
  \/ Restore

Spec == Init /\ [][Next]_<<live, prev, phase>>
=============================================================================
