-------------------------- MODULE InteractiveDraft --------------------------
(***************************************************************************)
(* The draft a person types into the composer of one terminal, as the      *)
(* input broker keeps it (pkg/tmuxinput/interactive.go), beside what the   *)
(* composer really holds.  Every operation holds the broker's mutex and is *)
(* one action; terminal reports are ignored and change nothing.  The       *)
(* caller confirms a submission when it reads the CLI's native record of   *)
(* the message, which may be after the person has typed on.                *)
(***************************************************************************)
EXTENDS Naturals

CONSTANT MaxVersion   \* bound: keystrokes of one draft

VARIABLES reservation,  \* interactiveDrafts: 0 or more keystrokes, if there is one
          submissions,  \* interactiveSubmissions
          composer,     \* external: the composer holds text
          records,      \* external: native records written, not yet confirmed
          fresh         \* history: a key was typed since the last Enter

draftVars == <<reservation, submissions, composer, records, fresh>>

NoReservation == [exists |-> FALSE, version |-> 0, submitVersion |-> 0]

DraftInit == /\ reservation = NoReservation /\ submissions = 0
             /\ composer = FALSE /\ records = 0 /\ fresh = FALSE

Edited == [exists |-> TRUE, version |-> reservation.version + 1, submitVersion |-> reservation.submitVersion]

(* A key or a paste; newlines in a paste are not Enter presses.            *)
Type == /\ reservation.version < MaxVersion
        /\ reservation' = Edited
        /\ composer' = TRUE /\ fresh' = TRUE
        /\ UNCHANGED <<submissions, records>>

(* Enter is only an attempt: the CLI submits what the composer holds, or   *)
(* selects a menu item.                                                    *)
Enter == /\ reservation.version < MaxVersion /\ submissions < MaxVersion
         /\ reservation' = [Edited EXCEPT !.submitVersion = reservation.version + 1]
         /\ submissions' = submissions + 1
         /\ \/ composer /\ composer' = FALSE /\ records' = records + 1
            \/ UNCHANGED <<composer, records>>
         /\ fresh' = FALSE

InterruptKey == /\ reservation' = NoReservation
                /\ composer' = FALSE /\ fresh' = FALSE
                /\ UNCHANGED <<submissions, records>>

FaultyConfirm == /\ records > 0
                 /\ records' = records - 1
                 /\ reservation' = IF reservation.submitVersion > 0 THEN NoReservation ELSE reservation
                 /\ UNCHANGED <<submissions, composer, fresh>>

ConfirmInteractiveSubmission ==
    /\ records > 0
    /\ records' = records - 1
    /\ reservation' = IF reservation.submitVersion = reservation.version THEN NoReservation ELSE reservation
    /\ UNCHANGED <<submissions, composer, fresh>>

(* The terminal is gone.                                                   *)
ClearInteractiveDraft == /\ reservation' = NoReservation /\ submissions' = 0
                         /\ composer' = FALSE /\ records' = 0 /\ fresh' = FALSE

DraftNext == Type \/ Enter \/ InterruptKey \/ ConfirmInteractiveSubmission \/ ClearInteractiveDraft

DraftSpec == DraftInit /\ [][DraftNext]_draftVars

-----------------------------------------------------------------------------
(* Confirming a submission "does not clear a newer draft typed while the   *)
(* previous Enter was being accepted": what was typed since the last Enter *)
(* is never without its reservation, however late a confirmation comes.    *)
NewerDraftStays == fresh => reservation.exists
=============================================================================
