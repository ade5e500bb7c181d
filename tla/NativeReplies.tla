--------------------------- MODULE NativeReplies ---------------------------
(***************************************************************************)
(* Who publishes the prose of a native continuation root, the foreground   *)
(* turn that reads the transcript or the observer that watches the runtime *)
(* (pkg/nativereplies/ownership.go).  The claims of one provider session   *)
(* are kept in memory and in one file each.  Turns, completions and the    *)
(* observer belong to the server and are external.                         *)
(***************************************************************************)
EXTENDS Naturals, FiniteSets

CONSTANTS
    Roots,       \* continuation roots of the session
    ReplyTurns,  \* foreground turns, each run once
    Nobody,
    MaxErrors,   \* bound: failed saves
    MaxRestarts  \* bound: restarts of the server

ASSUME NobodyIsNoTurn == Nobody \notin ReplyTurns

VARIABLES
    owners,     \* registry.owners: the claim of each root
    durable,    \* the claims in the files
    failure,    \* registry.failure: Configure could not restore the claims
    foreground, \* external: the nonterminal turn, and the roots in its reply
    ended,      \* external: turns that are over
    published,  \* external: per publisher, the roots it has delivered
    spoiled,    \* history: roots that met an error
    errors,     \* failed saves so far
    restarts    \* restarts so far

replyVars == <<owners, durable, failure, foreground, ended, published, spoiled, errors, restarts>>

NoClaim == [owner |-> "none", committed |-> FALSE, turn |-> Nobody]
NoTurn  == [turn |-> Nobody, reply |-> {}]
Claims  == [owner : {"none", "foreground", "observer"}, committed : BOOLEAN, turn : ReplyTurns \cup {Nobody}]

ReplyInit == /\ owners = [r \in Roots |-> NoClaim]
             /\ durable = [r \in Roots |-> NoClaim]
             /\ failure = FALSE
             /\ foreground = NoTurn
             /\ ended = {}
             /\ published = [foreground |-> {}, observer |-> {}]
             /\ spoiled = {}
             /\ errors = 0 /\ restarts = 0

Fails(R) == /\ errors < MaxErrors
            /\ errors' = errors + 1
            /\ spoiled' = spoiled \cup R

-----------------------------------------------------------------------------
(* Claim: the first of the two to ask for a root owns it, once the claim   *)
(* is on disk; the answer is the owner.                                    *)

Saved(r, claim) == /\ owners' = [owners EXCEPT ![r] = claim]
                   /\ durable' = [durable EXCEPT ![r] = claim]
                   /\ UNCHANGED <<spoiled, errors>>
NotSaved(R) == Fails(R) /\ UNCHANGED <<owners, durable>>
New(proposed, t) == [owner |-> proposed, committed |-> FALSE, turn |-> t]

Owned(r) == owners[r].owner # "none"

Includes(R) == foreground' = [foreground EXCEPT !.reply = @ \cup R]

(* ForegroundMayPublish, asked by the transcript reader of the active turn.*)
(* On an error the reader publishes without a claim.                       *)
ForegroundReads(r) ==
    /\ foreground.turn # Nobody
    /\ \/ /\ failure
          /\ Includes({r}) /\ spoiled' = spoiled \cup {r}
          /\ UNCHANGED <<owners, durable, errors>>
       \/ /\ ~failure /\ Owned(r)
          /\ Includes({r} \cap {q \in Roots : owners[q].owner = "foreground"})
          /\ UNCHANGED <<owners, durable, spoiled, errors>>
       \/ /\ ~failure /\ ~Owned(r)
          /\ Saved(r, New("foreground", foreground.turn)) \/ NotSaved({r})
          /\ Includes({r})
    /\ UNCHANGED <<failure, ended, published, restarts>>

(* The observer publishes what it owns, and claims what nobody does.       *)
ObserverReads(r) ==
    /\ ~failure
    /\ \/ /\ Owned(r) /\ owners[r].owner = "observer"
          /\ published' = [published EXCEPT !.observer = @ \cup {r}]
          /\ UNCHANGED <<owners, durable, spoiled, errors>>
       \/ /\ ~Owned(r) /\ Saved(r, New("observer", Nobody))
          /\ published' = [published EXCEPT !.observer = @ \cup {r}]
       \/ /\ ~Owned(r) /\ NotSaved({r})
          /\ UNCHANGED published
    /\ UNCHANGED <<failure, foreground, ended, restarts>>

-----------------------------------------------------------------------------
(* Turns and restarts.                                                     *)

BeginTurn(t) ==
    /\ foreground.turn = Nobody /\ t \notin ended
    /\ foreground' = [turn |-> t, reply |-> {}]
    /\ UNCHANGED <<owners, durable, failure, ended, published, spoiled, errors, restarts>>

Unfinished(c) == c.owner = "foreground" /\ ~c.committed

(* Variants named Faulty... put one bug into the definition that follows:  *)
(* they show that a property notices it, and nothing else uses them.       *)
FaultySettled(c, included) == [c EXCEPT !.committed = included]

Settled(c, included) == IF included THEN [c EXCEPT !.committed = TRUE]
                        ELSE [c EXCEPT !.owner = "observer"]

(* SettleForeground at the end of a turn: an accepted completion commits   *)
(* its roots, and the rest of the turn's roots goes to the observer.  The  *)
(* first save that fails leaves the roots after it, in map order, as they  *)
(* are.                                                                    *)
SettleForeground(accepted) ==
    LET t == foreground.turn
        included == IF accepted THEN foreground.reply ELSE {}
        mine == {r \in Roots : owners[r].turn = t /\ Unfinished(owners[r])}
    IN /\ t # Nobody
       /\ \E done \in SUBSET mine :
            /\ \/ done = mine /\ UNCHANGED <<spoiled, errors>>
               \/ done # mine /\ Fails(mine \ done)
            /\ owners'  = [r \in Roots |-> IF r \in done THEN Settled(owners[r], r \in included) ELSE owners[r]]
            /\ durable' = [r \in Roots |-> IF r \in done THEN owners'[r] ELSE durable[r]]
       /\ published' = [published EXCEPT !.foreground = @ \cup included]
       /\ ended' = ended \cup {t}
       /\ foreground' = NoTurn
       /\ UNCHANGED <<failure, restarts>>

FaultyRestored(c) == IF c.owner = "foreground" THEN [c EXCEPT !.owner = "observer"] ELSE c

Restored(c) == IF Unfinished(c) THEN [c EXCEPT !.owner = "observer"] ELSE c

(* A restart ends the turn without its completion, and Configure restores  *)
(* the claims in the order of their files, up to a save that fails.        *)
Restart ==
    /\ restarts < MaxRestarts /\ restarts' = restarts + 1
    /\ \E read \in SUBSET Roots :
        /\ \/ read = Roots /\ failure' = FALSE /\ UNCHANGED <<spoiled, errors>>
           \/ /\ \E r \in Roots \ read : Unfinished(durable[r]) 
              /\ failure' = TRUE /\ Fails({})
        /\ owners'  = [r \in Roots |-> IF r \in read THEN Restored(durable[r]) ELSE NoClaim]
        /\ durable' = [r \in Roots |-> IF r \in read THEN Restored(durable[r]) ELSE durable[r]]
    /\ ended' = ended \cup ({foreground.turn} \ {Nobody})
    /\ foreground' = NoTurn
    /\ UNCHANGED published

ReplyNext == \/ \E r \in Roots : ForegroundReads(r) \/ ObserverReads(r)
             \/ \E t \in ReplyTurns : BeginTurn(t)
             \/ \E accepted \in BOOLEAN : SettleForeground(accepted)
             \/ Restart

ReplySpec == ReplyInit /\ [][ReplyNext]_replyVars

-----------------------------------------------------------------------------
(* Properties.                                                             *)

(* A root is published by one of the two, also across restarts: claims     *)
(* "are persisted before either producer may publish".  Roots that met an  *)
(* error are excepted: the reader publishes them without a claim.          *)
OnePublisher == published.foreground \cap published.observer \subseteq spoiled

(* "A failed turn releases its unfinished roots", a completed one those it *)
(* left out, and a restart those of the turn it ended: the observer never  *)
(* waits for a turn that is over, unless a save failed at its end.         *)
ReleasedWithItsTurn ==
    \A r \in Roots \ spoiled : Unfinished(owners[r]) => owners[r].turn = foreground.turn
=============================================================================
