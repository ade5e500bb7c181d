------------------------------- MODULE Lease -------------------------------
(***************************************************************************)
(* What a session lease promises (pkg/adapters/internal/sessionlease): an  *)
(* activity deadline that newer activity replaces, that a turn pauses, and *)
(* that ends the session at most once.  Only the deadline in force ends    *)
(* the session, and only after it has elapsed.                             *)
(***************************************************************************)
VARIABLES mode,    \* "idle": no deadline; "armed"; "due": it elapsed; "dead"
          event    \* what the user of the lease saw last

Modes == {"idle", "armed", "due", "dead"}

Init == mode = "idle" /\ event = "new"

(* Activity is accepted until the lease is dead, and then rejected.        *)
Arm    == mode # "dead" /\ mode' = "armed" /\ event' = "accepted"
Reject == mode = "dead" /\ event' = "rejected" /\ UNCHANGED mode

Pause == /\ mode' = IF mode = "dead" THEN "dead" ELSE "idle"
         /\ event' = "paused"

Stop == mode' = "dead" /\ event' = "stopped"

Elapse == mode = "armed" /\ mode' = "due" /\ UNCHANGED event

(* The one step after which the owner's expiry callback runs.              *)
Expire == mode = "due" /\ mode' = "dead" /\ event' = "expired"

Next == Arm \/ Reject \/ Pause \/ Stop \/ Elapse \/ Expire

Spec == Init /\ [][Next]_<<mode, event>>
=============================================================================
