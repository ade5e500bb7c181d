---------------------------- MODULE SessionLease ----------------------------
(***************************************************************************)
(* The lease of pkg/adapters/internal/sessionlease/lease.go: a timer and a *)
(* generation under one mutex.  A timer that has fired runs its callback   *)
(* in a goroutine of its own, which Stop and a new Arm can no longer       *)
(* cancel; the generation tells whether that callback still speaks for the *)
(* lease.  Each method is one action: it holds the mutex from its first    *)
(* read to its last write.                                                 *)
(***************************************************************************)
EXTENDS Naturals

CONSTANT MaxGeneration    \* bound: what the generation counts up to

VARIABLES
    generation,   \* moved by every Arm, Pause, Stop and expiry
    stopped,      \* no activity is accepted any more
    timer,        \* the generation the running timer was armed with, 0 if none
    queued,       \* generations whose timers fired, their callbacks not yet run
    event         \* the last call, Arm with its answer, or the onExpire callback

leaseVars == <<generation, stopped, timer, queued, event>>

LeaseInit == /\ generation = 0
             /\ stopped = FALSE
             /\ timer = 0
             /\ queued = {}
             /\ event = "new"

NextGeneration == /\ generation < MaxGeneration
                  /\ generation' = generation + 1

Arm == /\ ~stopped
       /\ NextGeneration
       /\ timer' = generation'
       /\ event' = "accepted"
       /\ UNCHANGED <<stopped, queued>>

(* A stopped lease rejects the activity.                                   *)
ArmRejected == /\ stopped
               /\ event' = "rejected"
               /\ UNCHANGED <<generation, stopped, timer, queued>>

(* Variants named Faulty... put one bug into the definition that follows:  *)
(* they show that a property notices it, and nothing else uses them.       *)
FaultyPause == timer' = 0 /\ event' = "paused" /\ UNCHANGED <<generation, stopped, queued>>

Pause == /\ NextGeneration
         /\ timer' = 0
         /\ event' = "paused"
         /\ UNCHANGED <<stopped, queued>>

Stop == /\ NextGeneration
        /\ timer' = 0
        /\ stopped' = TRUE
        /\ event' = "stopped"
        /\ UNCHANGED queued

(* The runtime fires the timer: its callback is queued for the mutex.      *)
Fire == /\ timer # 0
        /\ queued' = queued \cup {timer}
        /\ timer' = 0
        /\ UNCHANGED <<generation, stopped, event>>

InForce(g) == ~stopped /\ g = generation

(* The callback of generation g gets the mutex: only the deadline in force *)
(* ends the lease, and calls onExpire once the mutex is released.          *)
Expire(g) ==
    /\ g \in queued
    /\ queued' = queued \ {g}
    /\ \/ /\ InForce(g)
          /\ NextGeneration
          /\ stopped' = TRUE
          /\ timer' = 0
          /\ event' = "expired"
       \/ /\ ~InForce(g)
          /\ UNCHANGED <<generation, stopped, timer, event>>

LeaseNext == Arm \/ ArmRejected \/ Pause \/ Stop \/ Fire \/ \E g \in queued : Expire(g)

LeaseSpec == LeaseInit /\ [][LeaseNext]_leaseVars

-----------------------------------------------------------------------------
(* Properties.                                                             *)

Events == {"new", "accepted", "rejected", "paused", "stopped", "expired"}

(* Every variable holds a value of its kind.                               *)
LeaseTypeOK == /\ generation \in Nat
          /\ stopped \in BOOLEAN
          /\ timer \in Nat
          /\ queued \subseteq Nat \ {0}
          /\ event \in Events

(* The running timer is the last Arm's, and no callback is ahead of the    *)
(* generation: a deadline that was superseded cannot pass for a later one. *)
DeadlinesInOrder == /\ timer \in {0, generation}
                    /\ stopped => timer = 0
                    /\ \A g \in queued : g <= generation /\ g # timer

(* Timer, generation and queued callbacks implement a lease: an accepted   *)
(* activity or a pause is never undone by an older deadline, and a stopped *)
(* or expired lease rejects activity for ever.                             *)
LeaseMode == IF stopped THEN "dead"
             ELSE IF generation \in queued THEN "due"
             ELSE IF timer # 0 THEN "armed" ELSE "idle"
Contract == INSTANCE Lease WITH mode <- LeaseMode
ImplementsLease == Contract!Spec
=============================================================================
