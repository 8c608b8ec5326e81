------------------------------- MODULE Ownership -------------------------------
(***************************************************************************)
(* What memory management promises: a thing lives exactly as long as       *)
(* somebody owns it.  It comes to life with its first owner, is freed in   *)
(* the step that takes the last one away, and never has an owner again.    *)
(***************************************************************************)
CONSTANTS Thing, Owner

VARIABLES status,  \* "unborn", "alive" or "freed"
          owners   \* who owns a thing

vars == <<status, owners>>

\* The status that follows from the owners a thing has from now on.
Following(before, now) == IF now # {} THEN "alive"
                          ELSE IF before = "unborn" THEN "unborn" ELSE "freed"

Init ==
  /\ owners \in [Thing -> SUBSET Owner]
  /\ status = [t \in Thing |-> Following("unborn", owners[t])]

Next ==
  /\ owners' \in [Thing -> SUBSET Owner]
  /\ \A t \in Thing : status[t] = "freed" => owners'[t] = {}
  /\ status' = [t \in Thing |-> Following(status[t], owners'[t])]

Spec == Init /\ [][Next]_vars
==============================================================================
