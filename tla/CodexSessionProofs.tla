------------------------- MODULE CodexSessionProofs -------------------------
(***************************************************************************)
(* Proofs about CodexSession for any number of session objects, turns,     *)
(* closers, senders and scopes, and any budgets: one inductive invariant   *)
(* from which the safety properties follow.                                *)
(***************************************************************************)
EXTENDS CodexSession, TLAPS

(* A goroutine refers to a session from the moment it found or made it,    *)
(* and holds that session's mutex at these labels.                         *)
Placed  == {"lock", "build", "reap", "launch", "register", "discard", "startup", "prompt",
            "running", "release", "drop", "scrap", "closeLock", "close", "unregister", "kill",
            "gate", "typing"}
Holding == {"build", "reap", "launch", "register", "startup", "prompt", "running", "release",
            "close", "unregister", "kill"}

PlaceInv == \A t \in Threads : at[t] # None <=> pc[t] \in Placed

(* The mutex has the holder it says, and no other goroutine believes that  *)
(* it holds it.                                                            *)
MutexInv == \A s \in Sessions, t \in Threads : mu[s] = t <=> at[t] = s /\ pc[t] \in Holding

(* The session of a turn that launches or runs is of its scope and nobody  *)
(* failed it.                                                              *)
OwnsInv == \A t \in Turns :
    pc[t] \in {"build", "reap", "launch", "register", "startup", "prompt", "running"} =>
        ~failed[at[t]] /\ scope[at[t]] = want[t]

(* A turn that undoes a launch works on a failed session; if the launch    *)
(* ended before its registration, no terminal of the session is tagged.    *)
FailedInv == \A t \in Turns : pc[t] \in {"discard", "drop", "scrap"} =>
    /\ failed[at[t]]
    /\ pc[t] = "discard" => proc[at[t]] \in {"none", "lost", "stranded"}

(* A session that is being launched has no name yet, no live input that is *)
(* meant for it and, until the launch, no terminal; it is in the registry, *)
(* or whoever took it from there waits for its mutex to close it.          *)
NewInv == \A t \in Turns : pc[t] \in {"build", "reap", "launch", "register"} =>
    /\ name # at[t]
    /\ \A d \in Senders : at[d] # at[t]
    /\ proc[at[t]] \in {"none", "bare"}
    /\ pc[t] # "register" =>
         /\ proc[at[t]] = "none"
         /\ registry = at[t] \/ \E c \in Threads : pc[c] = "closeLock" /\ at[c] = at[t]

(* A terminal that starts keeps its input waiting.                         *)
GateInv == \A t \in Turns : pc[t] = "startup" => gate[at[t]] = "starting"

(* A session's expiry callback runs once, when its lease is dead.          *)
ExpiryInv == \A s \in Sessions : pc[s] # "idle" => lease[s] = "dead"

(* A session whose lease is dead is on its way out of the registry.        *)
DeadInv == \A s \in Sessions : registry = s /\ lease[s] = "dead" =>
    \/ \E c \in Threads : pc[c] = "delete"
    \/ \E t \in Turns : at[t] = s /\ pc[t] = "drop"

ForgottenInv == \A c \in Threads : pc[c] \in {"unregister", "kill"} => registry # at[c]

IInv == /\ TypeOK /\ PlaceInv /\ MutexInv /\ OwnsInv /\ FailedInv /\ NewInv /\ GateInv
        /\ ExpiryInv /\ DeadInv /\ ForgottenInv
        /\ ProcessIsAccountedFor /\ RetainedHasDeadline /\ FollowUpWaits
-----------------------------------------------------------------------------
(* Acquisition and launch: each step of a turn keeps the invariant.        *)
LEMMA TurnCalledInv ==
    ASSUME IInv, NEW t \in Turns, TurnCalled(t)
    PROVE  IInv'
<1> USE ThreadsAssumption DEF IInv, Threads, TurnCalled, Goto, registries, object, process
<1>1. at[t] = None
  BY DEF TypeOK, PlaceInv, Placed
<1>2. TypeOK'
  <2>1. budget' \in BudgetRecords /\ budget.scopes \subseteq Scopes
    BY DEF TypeOK, BudgetRecords
  <2>2. /\ budget'.callers = budget.callers /\ budget'.scopes = budget.scopes
        /\ budget'.calls <= budget.calls /\ budget'.sends = budget.sends
        /\ budget'.crashes = budget.crashes
    BY DEF TypeOK, BudgetRecords
  <2>3. \E b \in Budgets : /\ budget'.callers = b.callers /\ budget'.scopes = b.scopes
                           /\ budget'.calls <= b.calls /\ budget'.sends <= b.sends
                           /\ budget'.crashes <= b.crashes
    BY <2>2, BudgetsAssumption DEF TypeOK, BudgetRecords
  <2>4. QED
    BY <1>1, <2>1, <2>3 DEF TypeOK, Labels
<1>3. PlaceInv' /\ MutexInv'
  BY <1>1 DEF TypeOK, PlaceInv, Placed, MutexInv, Holding
<1>4. OwnsInv' /\ FailedInv' /\ GateInv'
  BY <1>1 DEF TypeOK, PlaceInv, Placed, MutexInv, Holding, OwnsInv, FailedInv, GateInv
<1>5. NewInv'
  BY <1>1 DEF TypeOK, PlaceInv, Placed, MutexInv, Holding, OwnsInv, FailedInv, NewInv
<1>6. ExpiryInv' /\ DeadInv' /\ ForgottenInv'
  BY <1>1 DEF TypeOK, PlaceInv, Placed, MutexInv, Holding, ExpiryInv, DeadInv, ForgottenInv
<1>7. ProcessIsAccountedFor'
  BY <1>1 DEF TypeOK, PlaceInv, Placed, MutexInv, Holding, FailedInv, NewInv, Live,
     ProcessIsAccountedFor
<1>8. RetainedHasDeadline'
  BY <1>1 DEF TypeOK, PlaceInv, Placed, MutexInv, Holding, DeadInv, ForgottenInv,
     RetainedHasDeadline
<1>9. FollowUpWaits'
  BY <1>1 DEF TypeOK, PlaceInv, Placed, MutexInv, Holding, FailedInv, OwnsInv, NewInv, GateInv,
     FollowUpWaits
<1>10. QED
  BY <1>2, <1>3, <1>4, <1>5, <1>6, <1>7, <1>8, <1>9

LEMMA AcquireFindsInv ==
    ASSUME IInv, NEW t \in Turns, AcquireFinds(t)
    PROVE  IInv'
<1> USE ThreadsAssumption DEF IInv, Threads, AcquireFinds, Goto, GotoAt, registries, object,
      process, caller
<1>1. at[t] = None
  BY DEF TypeOK, PlaceInv, Placed
<1>2. TypeOK'
  BY <1>1 DEF TypeOK, Labels, ProcStates, BudgetRecords
<1>3. PlaceInv' /\ MutexInv'
  BY <1>1 DEF TypeOK, PlaceInv, Placed, MutexInv, Holding
<1>4. OwnsInv' /\ FailedInv' /\ GateInv'
  BY <1>1 DEF TypeOK, PlaceInv, Placed, MutexInv, Holding, OwnsInv, FailedInv, GateInv
<1>5. NewInv'
  BY <1>1 DEF TypeOK, PlaceInv, Placed, MutexInv, Holding, OwnsInv, FailedInv, NewInv
<1>6. ExpiryInv' /\ DeadInv' /\ ForgottenInv'
  BY <1>1 DEF TypeOK, PlaceInv, Placed, MutexInv, Holding, ExpiryInv, DeadInv, ForgottenInv
<1>7. ProcessIsAccountedFor'
  BY <1>1 DEF TypeOK, PlaceInv, Placed, MutexInv, Holding, FailedInv, NewInv, Live,
     ProcessIsAccountedFor
<1>8. RetainedHasDeadline'
  BY <1>1 DEF TypeOK, PlaceInv, Placed, MutexInv, Holding, DeadInv, ForgottenInv,
     RetainedHasDeadline
<1>9. FollowUpWaits'
  BY <1>1 DEF TypeOK, PlaceInv, Placed, MutexInv, Holding, FailedInv, OwnsInv, NewInv, GateInv,
     FollowUpWaits
<1>10. QED
  BY <1>2, <1>3, <1>4, <1>5, <1>6, <1>7, <1>8, <1>9

LEMMA AcquireCreatesInv ==
    ASSUME IInv, NEW t \in Turns, AcquireCreates(t)
    PROVE  IInv'
<1> USE ThreadsAssumption DEF IInv, Threads, AcquireCreates, Goto, GotoAt, Live, Allocatable,
      Unreferenced, caller
<1>1. at[t] = None
  BY DEF TypeOK, PlaceInv, Placed
<1>2. TypeOK'
  BY <1>1 DEF TypeOK, Labels, ProcStates, BudgetRecords
<1>3. PlaceInv' /\ MutexInv'
  BY <1>1 DEF TypeOK, PlaceInv, Placed, MutexInv, Holding
<1>4. OwnsInv' /\ FailedInv' /\ GateInv'
  BY <1>1 DEF TypeOK, PlaceInv, Placed, MutexInv, Holding, OwnsInv, FailedInv, GateInv
<1>5. NewInv'
  BY SMTT(30), <1>1 DEF TypeOK, PlaceInv, Placed, MutexInv, Holding, OwnsInv, FailedInv, NewInv
<1>6. ExpiryInv' /\ DeadInv' /\ ForgottenInv'
  BY <1>1 DEF TypeOK, PlaceInv, Placed, MutexInv, Holding, ExpiryInv, DeadInv, ForgottenInv
<1>7. ProcessIsAccountedFor'
  BY <1>1 DEF TypeOK, PlaceInv, Placed, MutexInv, Holding, FailedInv, NewInv, Live,
     ProcessIsAccountedFor
<1>8. RetainedHasDeadline'
  BY <1>1 DEF TypeOK, PlaceInv, Placed, MutexInv, Holding, DeadInv, ForgottenInv,
     RetainedHasDeadline
<1>9. FollowUpWaits'
  BY <1>1 DEF TypeOK, PlaceInv, Placed, MutexInv, Holding, FailedInv, OwnsInv, NewInv, GateInv,
     FollowUpWaits
<1>10. QED
  BY <1>2, <1>3, <1>4, <1>5, <1>6, <1>7, <1>8, <1>9

LEMMA LockReusesInv ==
    ASSUME IInv, NEW t \in Turns, LockReuses(t)
    PROVE  IInv'
<1> USE ThreadsAssumption DEF IInv, Threads, LockReuses, Goto, Usable, registries, object, process,
      caller
<1>1. at[t] \in Sessions
  BY DEF TypeOK, PlaceInv, Placed
<1>2. TypeOK'
  BY <1>1 DEF TypeOK, Labels, ProcStates, BudgetRecords
<1>3. PlaceInv' /\ MutexInv'
  BY <1>1 DEF TypeOK, PlaceInv, Placed, MutexInv, Holding
<1>4. OwnsInv' /\ FailedInv' /\ GateInv'
  BY <1>1 DEF TypeOK, PlaceInv, Placed, MutexInv, Holding, OwnsInv, FailedInv, GateInv
<1>5. NewInv'
  BY <1>1 DEF TypeOK, PlaceInv, Placed, MutexInv, Holding, OwnsInv, FailedInv, NewInv
<1>6. ExpiryInv' /\ DeadInv' /\ ForgottenInv'
  BY <1>1 DEF TypeOK, PlaceInv, Placed, MutexInv, Holding, ExpiryInv, DeadInv, ForgottenInv
<1>7. ProcessIsAccountedFor'
  BY <1>1 DEF TypeOK, PlaceInv, Placed, MutexInv, Holding, FailedInv, NewInv, Live,
     ProcessIsAccountedFor
<1>8. RetainedHasDeadline'
  BY <1>1 DEF TypeOK, PlaceInv, Placed, MutexInv, Holding, DeadInv, ForgottenInv,
     RetainedHasDeadline
<1>9. FollowUpWaits'
  BY <1>1 DEF TypeOK, PlaceInv, Placed, MutexInv, Holding, FailedInv, OwnsInv, NewInv, GateInv,
     FollowUpWaits
<1>10. QED
  BY <1>2, <1>3, <1>4, <1>5, <1>6, <1>7, <1>8, <1>9

LEMMA LockRefusesInv ==
    ASSUME IInv, NEW t \in Turns, LockRefuses(t)
    PROVE  IInv'
<1> USE ThreadsAssumption DEF IInv, Threads, LockRefuses, Goto, GotoAt, Usable, registries, object,
      process, caller
<1>1. at[t] \in Sessions
  BY DEF TypeOK, PlaceInv, Placed
<1>2. TypeOK'
  BY <1>1 DEF TypeOK, Labels, ProcStates, BudgetRecords
<1>3. PlaceInv' /\ MutexInv'
  BY <1>1 DEF TypeOK, PlaceInv, Placed, MutexInv, Holding
<1>4. OwnsInv' /\ FailedInv' /\ GateInv'
  BY <1>1 DEF TypeOK, PlaceInv, Placed, MutexInv, Holding, OwnsInv, FailedInv, GateInv
<1>5. NewInv'
  BY <1>1 DEF TypeOK, PlaceInv, Placed, MutexInv, Holding, OwnsInv, FailedInv, NewInv
<1>6. ExpiryInv' /\ DeadInv' /\ ForgottenInv'
  BY <1>1 DEF TypeOK, PlaceInv, Placed, MutexInv, Holding, ExpiryInv, DeadInv, ForgottenInv
<1>7. ProcessIsAccountedFor'
  BY <1>1 DEF TypeOK, PlaceInv, Placed, MutexInv, Holding, FailedInv, NewInv, Live,
     ProcessIsAccountedFor
<1>8. RetainedHasDeadline'
  BY <1>1 DEF TypeOK, PlaceInv, Placed, MutexInv, Holding, DeadInv, ForgottenInv,
     RetainedHasDeadline
<1>9. FollowUpWaits'
  BY <1>1 DEF TypeOK, PlaceInv, Placed, MutexInv, Holding, FailedInv, OwnsInv, NewInv, GateInv,
     FollowUpWaits
<1>10. QED
  BY <1>2, <1>3, <1>4, <1>5, <1>6, <1>7, <1>8, <1>9

LEMMA LockReplacesInv ==
    ASSUME IInv, NEW t \in Turns, LockReplaces(t)
    PROVE  IInv'
<1> USE ThreadsAssumption DEF IInv, Threads, LockReplaces, Goto, registries, object, process, caller
<1>1. at[t] \in Sessions
  BY DEF TypeOK, PlaceInv, Placed
<1>2. TypeOK'
  BY <1>1 DEF TypeOK, Labels, ProcStates, BudgetRecords
<1>3. PlaceInv' /\ MutexInv'
  BY <1>1 DEF TypeOK, PlaceInv, Placed, MutexInv, Holding
<1>4. OwnsInv' /\ FailedInv' /\ GateInv'
  BY <1>1 DEF TypeOK, PlaceInv, Placed, MutexInv, Holding, OwnsInv, FailedInv, GateInv
<1>5. NewInv'
  BY <1>1 DEF TypeOK, PlaceInv, Placed, MutexInv, Holding, OwnsInv, FailedInv, NewInv
<1>6. ExpiryInv' /\ DeadInv' /\ ForgottenInv'
  BY <1>1 DEF TypeOK, PlaceInv, Placed, MutexInv, Holding, ExpiryInv, DeadInv, ForgottenInv
<1>7. ProcessIsAccountedFor'
  BY <1>1 DEF TypeOK, PlaceInv, Placed, MutexInv, Holding, FailedInv, NewInv, Live,
     ProcessIsAccountedFor
<1>8. RetainedHasDeadline'
  BY <1>1 DEF TypeOK, PlaceInv, Placed, MutexInv, Holding, DeadInv, ForgottenInv,
     RetainedHasDeadline
<1>9. FollowUpWaits'
  BY <1>1 DEF TypeOK, PlaceInv, Placed, MutexInv, Holding, FailedInv, OwnsInv, NewInv, GateInv,
     FollowUpWaits
<1>10. QED
  BY <1>2, <1>3, <1>4, <1>5, <1>6, <1>7, <1>8, <1>9

LEMMA BuildInv ==
    ASSUME IInv, NEW t \in Turns, Build(t)
    PROVE  IInv'
<1> USE ThreadsAssumption DEF IInv, Threads, Build, Goto, registries, object, caller
<1>1. at[t] \in Sessions
  BY DEF TypeOK, PlaceInv, Placed
<1>2. TypeOK'
  BY <1>1 DEF TypeOK, Labels, ProcStates, BudgetRecords
<1>3. PlaceInv' /\ MutexInv'
  BY <1>1 DEF TypeOK, PlaceInv, Placed, MutexInv, Holding
<1>4. OwnsInv' /\ FailedInv' /\ GateInv'
  BY <1>1 DEF TypeOK, PlaceInv, Placed, MutexInv, Holding, OwnsInv, FailedInv, GateInv
<1>5. NewInv'
  BY <1>1 DEF TypeOK, PlaceInv, Placed, MutexInv, Holding, OwnsInv, FailedInv, NewInv
<1>6. ExpiryInv' /\ DeadInv' /\ ForgottenInv'
  BY <1>1 DEF TypeOK, PlaceInv, Placed, MutexInv, Holding, ExpiryInv, DeadInv, ForgottenInv
<1>7. ProcessIsAccountedFor'
  BY <1>1 DEF TypeOK, PlaceInv, Placed, MutexInv, Holding, FailedInv, NewInv, Live,
     ProcessIsAccountedFor
<1>8. RetainedHasDeadline'
  BY <1>1 DEF TypeOK, PlaceInv, Placed, MutexInv, Holding, DeadInv, ForgottenInv,
     RetainedHasDeadline
<1>9. FollowUpWaits'
  BY <1>1 DEF TypeOK, PlaceInv, Placed, MutexInv, Holding, FailedInv, OwnsInv, NewInv, GateInv,
     FollowUpWaits
<1>10. QED
  BY <1>2, <1>3, <1>4, <1>5, <1>6, <1>7, <1>8, <1>9

LEMMA LaunchFailsInv ==
    ASSUME IInv, NEW t \in Turns, LaunchFails(t)
    PROVE  IInv'
<1> USE ThreadsAssumption DEF IInv, Threads, LaunchFails, Goto, Unlock, registries, caller
<1>1. at[t] \in Sessions
  BY DEF TypeOK, PlaceInv, Placed
<1>2. TypeOK'
  BY <1>1 DEF TypeOK, Labels, ProcStates, BudgetRecords
<1>3. PlaceInv' /\ MutexInv'
  BY <1>1 DEF TypeOK, PlaceInv, Placed, MutexInv, Holding
<1>4. OwnsInv' /\ FailedInv' /\ GateInv'
  <2>1. OwnsInv'
    BY <1>1 DEF TypeOK, PlaceInv, Placed, MutexInv, Holding, OwnsInv
  <2>2. FailedInv'
    <3>1. proc[at[t]] = "none"
      BY DEF NewInv
    <3>2. QED
      BY <1>1, <3>1 DEF TypeOK, PlaceInv, Placed, FailedInv
  <2>3. GateInv'
    BY <1>1 DEF TypeOK, GateInv
  <2>4. QED
    BY <2>1, <2>2, <2>3
<1>5. NewInv'
  BY <1>1 DEF TypeOK, PlaceInv, Placed, MutexInv, Holding, OwnsInv, FailedInv, NewInv
<1>6. ExpiryInv' /\ DeadInv' /\ ForgottenInv'
  BY <1>1 DEF TypeOK, PlaceInv, Placed, MutexInv, Holding, ExpiryInv, DeadInv, ForgottenInv
<1>7. ProcessIsAccountedFor'
  BY <1>1 DEF TypeOK, PlaceInv, Placed, MutexInv, Holding, FailedInv, NewInv, Live,
     ProcessIsAccountedFor
<1>8. RetainedHasDeadline'
  BY <1>1 DEF TypeOK, PlaceInv, Placed, MutexInv, Holding, DeadInv, ForgottenInv,
     RetainedHasDeadline
<1>9. FollowUpWaits'
  BY <1>1 DEF TypeOK, PlaceInv, Placed, MutexInv, Holding, FailedInv, OwnsInv, NewInv, GateInv,
     FollowUpWaits
<1>10. QED
  BY <1>2, <1>3, <1>4, <1>5, <1>6, <1>7, <1>8, <1>9

LEMMA DiscardInv ==
    ASSUME IInv, NEW t \in Turns, Discard(t)
    PROVE  IInv'
<1> USE ThreadsAssumption DEF IInv, Threads, Discard, Goto, GotoAt, Forget, object, process, caller
<1>1. at[t] \in Sessions
  BY DEF TypeOK, PlaceInv, Placed
<1>2. TypeOK'
  BY <1>1 DEF TypeOK, Labels, ProcStates, BudgetRecords
<1>3. PlaceInv' /\ MutexInv'
  BY <1>1 DEF TypeOK, PlaceInv, Placed, MutexInv, Holding
<1>4. OwnsInv' /\ FailedInv' /\ GateInv'
  BY <1>1 DEF TypeOK, PlaceInv, Placed, MutexInv, Holding, OwnsInv, FailedInv, GateInv
<1>5. NewInv'
  BY <1>1 DEF TypeOK, PlaceInv, Placed, MutexInv, Holding, OwnsInv, FailedInv, NewInv
<1>6. ExpiryInv' /\ DeadInv' /\ ForgottenInv'
  BY <1>1 DEF TypeOK, PlaceInv, Placed, MutexInv, Holding, ExpiryInv, DeadInv, ForgottenInv
<1>7. ProcessIsAccountedFor'
  BY <1>1 DEF TypeOK, PlaceInv, Placed, MutexInv, Holding, FailedInv, NewInv, Live,
     ProcessIsAccountedFor
<1>8. RetainedHasDeadline'
  BY <1>1 DEF TypeOK, PlaceInv, Placed, MutexInv, Holding, DeadInv, ForgottenInv,
     RetainedHasDeadline
<1>9. FollowUpWaits'
  BY <1>1 DEF TypeOK, PlaceInv, Placed, MutexInv, Holding, FailedInv, OwnsInv, NewInv, GateInv,
     FollowUpWaits
<1>10. QED
  BY <1>2, <1>3, <1>4, <1>5, <1>6, <1>7, <1>8, <1>9

LEMMA ReapInv ==
    ASSUME IInv, NEW t \in Turns, Reap(t)
    PROVE  IInv'
<1> USE ThreadsAssumption DEF IInv, Threads, Reap, Goto, registries, object, caller
<1>1. at[t] \in Sessions
  BY DEF TypeOK, PlaceInv, Placed
<1>2. TypeOK'
  BY <1>1 DEF TypeOK, Labels, ProcStates, BudgetRecords
<1>3. PlaceInv' /\ MutexInv'
  BY <1>1 DEF TypeOK, PlaceInv, Placed, MutexInv, Holding
<1>4. OwnsInv' /\ FailedInv' /\ GateInv'
  BY <1>1 DEF TypeOK, PlaceInv, Placed, MutexInv, Holding, OwnsInv, FailedInv, GateInv
<1>5. NewInv'
  BY <1>1 DEF TypeOK, PlaceInv, Placed, MutexInv, Holding, OwnsInv, FailedInv, NewInv
<1>6. ExpiryInv' /\ DeadInv' /\ ForgottenInv'
  BY <1>1 DEF TypeOK, PlaceInv, Placed, MutexInv, Holding, ExpiryInv, DeadInv, ForgottenInv
<1>7. ProcessIsAccountedFor'
  BY <1>1 DEF TypeOK, PlaceInv, Placed, MutexInv, Holding, FailedInv, NewInv, Live,
     ProcessIsAccountedFor
<1>8. RetainedHasDeadline'
  BY <1>1 DEF TypeOK, PlaceInv, Placed, MutexInv, Holding, DeadInv, ForgottenInv,
     RetainedHasDeadline
<1>9. FollowUpWaits'
  BY <1>1 DEF TypeOK, PlaceInv, Placed, MutexInv, Holding, FailedInv, OwnsInv, NewInv, GateInv,
     FollowUpWaits
<1>10. QED
  BY <1>2, <1>3, <1>4, <1>5, <1>6, <1>7, <1>8, <1>9

LEMMA LaunchInv ==
    ASSUME IInv, NEW t \in Turns, Launch(t)
    PROVE  IInv'
<1> USE ThreadsAssumption DEF IInv, Threads, Launch, Goto, registries, object, caller
<1>1. at[t] \in Sessions
  BY DEF TypeOK, PlaceInv, Placed
<1>2. TypeOK'
  BY <1>1 DEF TypeOK, Labels, ProcStates, BudgetRecords
<1>3. PlaceInv' /\ MutexInv'
  BY <1>1 DEF TypeOK, PlaceInv, Placed, MutexInv, Holding
<1>4. OwnsInv' /\ FailedInv' /\ GateInv'
  BY <1>1 DEF TypeOK, PlaceInv, Placed, MutexInv, Holding, OwnsInv, FailedInv, GateInv
<1>5. NewInv'
  BY <1>1 DEF TypeOK, PlaceInv, Placed, MutexInv, Holding, OwnsInv, FailedInv, NewInv
<1>6. ExpiryInv' /\ DeadInv' /\ ForgottenInv'
  BY <1>1 DEF TypeOK, PlaceInv, Placed, MutexInv, Holding, ExpiryInv, DeadInv, ForgottenInv
<1>7. ProcessIsAccountedFor'
  BY <1>1 DEF TypeOK, PlaceInv, Placed, MutexInv, Holding, FailedInv, NewInv, Live,
     ProcessIsAccountedFor
<1>8. RetainedHasDeadline'
  BY <1>1 DEF TypeOK, PlaceInv, Placed, MutexInv, Holding, DeadInv, ForgottenInv,
     RetainedHasDeadline
<1>9. FollowUpWaits'
  BY <1>1 DEF TypeOK, PlaceInv, Placed, MutexInv, Holding, FailedInv, OwnsInv, NewInv, GateInv,
     FollowUpWaits
<1>10. QED
  BY <1>2, <1>3, <1>4, <1>5, <1>6, <1>7, <1>8, <1>9

LEMMA RegisterInv ==
    ASSUME IInv, NEW t \in Turns, Register(t)
    PROVE  IInv'
<1> USE ThreadsAssumption DEF IInv, Threads, Register, Goto, Live, object, caller
<1>1. at[t] \in Sessions
  BY DEF TypeOK, PlaceInv, Placed
<1>2. TypeOK'
  BY <1>1 DEF TypeOK, Labels, ProcStates, BudgetRecords
<1>3. PlaceInv' /\ MutexInv'
  BY <1>1 DEF TypeOK, PlaceInv, Placed, MutexInv, Holding
<1>4. OwnsInv' /\ FailedInv' /\ GateInv'
  BY <1>1 DEF TypeOK, PlaceInv, Placed, MutexInv, Holding, OwnsInv, FailedInv, GateInv
<1>5. NewInv'
  BY <1>1 DEF TypeOK, PlaceInv, Placed, MutexInv, Holding, OwnsInv, FailedInv, NewInv
<1>6. ExpiryInv' /\ DeadInv' /\ ForgottenInv'
  BY <1>1 DEF TypeOK, PlaceInv, Placed, MutexInv, Holding, ExpiryInv, DeadInv, ForgottenInv
<1>7. ProcessIsAccountedFor'
  BY <1>1 DEF TypeOK, PlaceInv, Placed, MutexInv, Holding, FailedInv, NewInv, Live,
     ProcessIsAccountedFor
<1>8. RetainedHasDeadline'
  BY <1>1 DEF TypeOK, PlaceInv, Placed, MutexInv, Holding, DeadInv, ForgottenInv,
     RetainedHasDeadline
<1>9. FollowUpWaits'
  BY <1>1 DEF TypeOK, PlaceInv, Placed, MutexInv, Holding, FailedInv, OwnsInv, NewInv, GateInv,
     FollowUpWaits
<1>10. QED
  BY <1>2, <1>3, <1>4, <1>5, <1>6, <1>7, <1>8, <1>9

-----------------------------------------------------------------------------
(* The turn.                                                               *)
LEMMA StartupDoneInv ==
    ASSUME IInv, NEW t \in Turns, StartupDone(t)
    PROVE  IInv'
<1> USE ThreadsAssumption DEF IInv, Threads, StartupDone, Goto, Live, object, process, caller
<1>1. at[t] \in Sessions
  BY DEF TypeOK, PlaceInv, Placed
<1>2. TypeOK'
  BY <1>1 DEF TypeOK, Labels, ProcStates, BudgetRecords
<1>3. PlaceInv' /\ MutexInv'
  BY <1>1 DEF TypeOK, PlaceInv, Placed, MutexInv, Holding
<1>4. OwnsInv' /\ FailedInv' /\ GateInv'
  BY <1>1 DEF TypeOK, PlaceInv, Placed, MutexInv, Holding, OwnsInv, FailedInv, GateInv
<1>5. NewInv'
  BY <1>1 DEF TypeOK, PlaceInv, Placed, MutexInv, Holding, OwnsInv, FailedInv, NewInv
<1>6. ExpiryInv' /\ DeadInv' /\ ForgottenInv'
  BY <1>1 DEF TypeOK, PlaceInv, Placed, MutexInv, Holding, ExpiryInv, DeadInv, ForgottenInv
<1>7. ProcessIsAccountedFor'
  BY <1>1 DEF TypeOK, PlaceInv, Placed, MutexInv, Holding, FailedInv, NewInv, Live,
     ProcessIsAccountedFor
<1>8. RetainedHasDeadline'
  BY <1>1 DEF TypeOK, PlaceInv, Placed, MutexInv, Holding, DeadInv, ForgottenInv,
     RetainedHasDeadline
<1>9. FollowUpWaits'
  BY <1>1 DEF TypeOK, PlaceInv, Placed, MutexInv, Holding, FailedInv, OwnsInv, NewInv, GateInv,
     FollowUpWaits
<1>10. QED
  BY <1>2, <1>3, <1>4, <1>5, <1>6, <1>7, <1>8, <1>9

LEMMA PromptSentInv ==
    ASSUME IInv, NEW t \in Turns, PromptSent(t)
    PROVE  IInv'
<1> USE ThreadsAssumption DEF IInv, Threads, PromptSent, Goto, Live, object, process, caller
<1>1. at[t] \in Sessions
  BY DEF TypeOK, PlaceInv, Placed
<1>2. TypeOK'
  BY <1>1 DEF TypeOK, Labels, ProcStates, BudgetRecords
<1>3. PlaceInv' /\ MutexInv'
  BY <1>1 DEF TypeOK, PlaceInv, Placed, MutexInv, Holding
<1>4. OwnsInv' /\ FailedInv' /\ GateInv'
  BY <1>1 DEF TypeOK, PlaceInv, Placed, MutexInv, Holding, OwnsInv, FailedInv, GateInv
<1>5. NewInv'
  BY <1>1 DEF TypeOK, PlaceInv, Placed, MutexInv, Holding, OwnsInv, FailedInv, NewInv
<1>6. ExpiryInv' /\ DeadInv' /\ ForgottenInv'
  BY <1>1 DEF TypeOK, PlaceInv, Placed, MutexInv, Holding, ExpiryInv, DeadInv, ForgottenInv
<1>7. ProcessIsAccountedFor'
  BY <1>1 DEF TypeOK, PlaceInv, Placed, MutexInv, Holding, FailedInv, NewInv, Live,
     ProcessIsAccountedFor
<1>8. RetainedHasDeadline'
  BY <1>1 DEF TypeOK, PlaceInv, Placed, MutexInv, Holding, DeadInv, ForgottenInv,
     RetainedHasDeadline
<1>9. FollowUpWaits'
  BY <1>1 DEF TypeOK, PlaceInv, Placed, MutexInv, Holding, FailedInv, OwnsInv, NewInv, GateInv,
     FollowUpWaits
<1>10. QED
  BY <1>2, <1>3, <1>4, <1>5, <1>6, <1>7, <1>8, <1>9

LEMMA TurnFailsInv ==
    ASSUME IInv, NEW t \in Turns, TurnFails(t)
    PROVE  IInv'
<1> USE ThreadsAssumption DEF IInv, Threads, TurnFails, Goto, Unlock, registries, process, caller
<1>1. at[t] \in Sessions
  BY DEF TypeOK, PlaceInv, Placed
<1>2. TypeOK'
  BY <1>1 DEF TypeOK, Labels, ProcStates, BudgetRecords
<1>3. PlaceInv' /\ MutexInv'
  BY <1>1 DEF TypeOK, PlaceInv, Placed, MutexInv, Holding
<1>4. OwnsInv' /\ FailedInv' /\ GateInv'
  BY <1>1 DEF TypeOK, PlaceInv, Placed, MutexInv, Holding, OwnsInv, FailedInv, GateInv
<1>5. NewInv'
  BY <1>1 DEF TypeOK, PlaceInv, Placed, MutexInv, Holding, OwnsInv, FailedInv, NewInv
<1>6. ExpiryInv' /\ DeadInv' /\ ForgottenInv'
  BY <1>1 DEF TypeOK, PlaceInv, Placed, MutexInv, Holding, ExpiryInv, DeadInv, ForgottenInv
<1>7. ProcessIsAccountedFor'
  BY <1>1 DEF TypeOK, PlaceInv, Placed, MutexInv, Holding, FailedInv, NewInv, Live,
     ProcessIsAccountedFor
<1>8. RetainedHasDeadline'
  BY <1>1 DEF TypeOK, PlaceInv, Placed, MutexInv, Holding, DeadInv, ForgottenInv,
     RetainedHasDeadline
<1>9. FollowUpWaits'
  BY <1>1 DEF TypeOK, PlaceInv, Placed, MutexInv, Holding, FailedInv, OwnsInv, NewInv, GateInv,
     FollowUpWaits
<1>10. QED
  BY <1>2, <1>3, <1>4, <1>5, <1>6, <1>7, <1>8, <1>9

LEMMA DropInv ==
    ASSUME IInv, NEW t \in Turns, Drop(t)
    PROVE  IInv'
<1> USE ThreadsAssumption DEF IInv, Threads, Drop, Goto, Forget, object, process, caller
<1>1. at[t] \in Sessions
  BY DEF TypeOK, PlaceInv, Placed
<1>2. TypeOK'
  BY <1>1 DEF TypeOK, Labels, ProcStates, BudgetRecords
<1>3. PlaceInv' /\ MutexInv'
  BY <1>1 DEF TypeOK, PlaceInv, Placed, MutexInv, Holding
<1>4. OwnsInv' /\ FailedInv' /\ GateInv'
  BY <1>1 DEF TypeOK, PlaceInv, Placed, MutexInv, Holding, OwnsInv, FailedInv, GateInv
<1>5. NewInv'
  BY <1>1 DEF TypeOK, PlaceInv, Placed, MutexInv, Holding, OwnsInv, FailedInv, NewInv
<1>6. ExpiryInv' /\ DeadInv' /\ ForgottenInv'
  BY <1>1 DEF TypeOK, PlaceInv, Placed, MutexInv, Holding, ExpiryInv, DeadInv, ForgottenInv
<1>7. ProcessIsAccountedFor'
  BY <1>1 DEF TypeOK, PlaceInv, Placed, MutexInv, Holding, FailedInv, NewInv, Live,
     ProcessIsAccountedFor
<1>8. RetainedHasDeadline'
  BY <1>1 DEF TypeOK, PlaceInv, Placed, MutexInv, Holding, DeadInv, ForgottenInv,
     RetainedHasDeadline
<1>9. FollowUpWaits'
  BY <1>1 DEF TypeOK, PlaceInv, Placed, MutexInv, Holding, FailedInv, OwnsInv, NewInv, GateInv,
     FollowUpWaits
<1>10. QED
  BY <1>2, <1>3, <1>4, <1>5, <1>6, <1>7, <1>8, <1>9

LEMMA ScrapInv ==
    ASSUME IInv, NEW t \in Turns, Scrap(t)
    PROVE  IInv'
<1> USE ThreadsAssumption DEF IInv, Threads, Scrap, Goto, GotoAt, Unregister, object, caller
<1>1. at[t] \in Sessions
  BY DEF TypeOK, PlaceInv, Placed
<1>2. TypeOK'
  BY <1>1 DEF TypeOK, Labels, ProcStates, BudgetRecords
<1>3. PlaceInv' /\ MutexInv'
  BY <1>1 DEF TypeOK, PlaceInv, Placed, MutexInv, Holding
<1>4. OwnsInv' /\ FailedInv' /\ GateInv'
  BY <1>1 DEF TypeOK, PlaceInv, Placed, MutexInv, Holding, OwnsInv, FailedInv, GateInv
<1>5. NewInv'
  BY <1>1 DEF TypeOK, PlaceInv, Placed, MutexInv, Holding, OwnsInv, FailedInv, NewInv
<1>6. ExpiryInv' /\ DeadInv' /\ ForgottenInv'
  BY <1>1 DEF TypeOK, PlaceInv, Placed, MutexInv, Holding, ExpiryInv, DeadInv, ForgottenInv
<1>7. ProcessIsAccountedFor'
  BY <1>1 DEF TypeOK, PlaceInv, Placed, MutexInv, Holding, FailedInv, NewInv, Live,
     ProcessIsAccountedFor
<1>8. RetainedHasDeadline'
  BY <1>1 DEF TypeOK, PlaceInv, Placed, MutexInv, Holding, DeadInv, ForgottenInv,
     RetainedHasDeadline
<1>9. FollowUpWaits'
  BY <1>1 DEF TypeOK, PlaceInv, Placed, MutexInv, Holding, FailedInv, OwnsInv, NewInv, GateInv,
     FollowUpWaits
<1>10. QED
  BY <1>2, <1>3, <1>4, <1>5, <1>6, <1>7, <1>8, <1>9

LEMMA TurnEndsInv ==
    ASSUME IInv, NEW t \in Turns, TurnEnds(t)
    PROVE  IInv'
<1> USE ThreadsAssumption DEF IInv, Threads, TurnEnds, Goto, registries, object, process, caller
<1>1. at[t] \in Sessions
  BY DEF TypeOK, PlaceInv, Placed
<1>2. TypeOK'
  BY <1>1 DEF TypeOK, Labels, ProcStates, BudgetRecords
<1>3. PlaceInv' /\ MutexInv'
  BY <1>1 DEF TypeOK, PlaceInv, Placed, MutexInv, Holding
<1>4. OwnsInv' /\ FailedInv' /\ GateInv'
  BY <1>1 DEF TypeOK, PlaceInv, Placed, MutexInv, Holding, OwnsInv, FailedInv, GateInv
<1>5. NewInv'
  BY <1>1 DEF TypeOK, PlaceInv, Placed, MutexInv, Holding, OwnsInv, FailedInv, NewInv
<1>6. ExpiryInv' /\ DeadInv' /\ ForgottenInv'
  BY <1>1 DEF TypeOK, PlaceInv, Placed, MutexInv, Holding, ExpiryInv, DeadInv, ForgottenInv
<1>7. ProcessIsAccountedFor'
  BY <1>1 DEF TypeOK, PlaceInv, Placed, MutexInv, Holding, FailedInv, NewInv, Live,
     ProcessIsAccountedFor
<1>8. RetainedHasDeadline'
  BY <1>1 DEF TypeOK, PlaceInv, Placed, MutexInv, Holding, DeadInv, ForgottenInv,
     RetainedHasDeadline
<1>9. FollowUpWaits'
  BY <1>1 DEF TypeOK, PlaceInv, Placed, MutexInv, Holding, FailedInv, OwnsInv, NewInv, GateInv,
     FollowUpWaits
<1>10. QED
  BY <1>2, <1>3, <1>4, <1>5, <1>6, <1>7, <1>8, <1>9

LEMMA ReleaseInv ==
    ASSUME IInv, NEW t \in Turns, Release(t)
    PROVE  IInv'
<1> USE ThreadsAssumption DEF IInv, Threads, Release, Goto, GotoAt, Unlock, registries, object,
      process, caller
<1>1. at[t] \in Sessions
  BY DEF TypeOK, PlaceInv, Placed
<1>2. TypeOK'
  BY <1>1 DEF TypeOK, Labels, ProcStates, BudgetRecords
<1>3. PlaceInv' /\ MutexInv'
  BY <1>1 DEF TypeOK, PlaceInv, Placed, MutexInv, Holding
<1>4. OwnsInv' /\ FailedInv' /\ GateInv'
  BY <1>1 DEF TypeOK, PlaceInv, Placed, MutexInv, Holding, OwnsInv, FailedInv, GateInv
<1>5. NewInv'
  BY <1>1 DEF TypeOK, PlaceInv, Placed, MutexInv, Holding, OwnsInv, FailedInv, NewInv
<1>6. ExpiryInv' /\ DeadInv' /\ ForgottenInv'
  BY <1>1 DEF TypeOK, PlaceInv, Placed, MutexInv, Holding, ExpiryInv, DeadInv, ForgottenInv
<1>7. ProcessIsAccountedFor'
  BY <1>1 DEF TypeOK, PlaceInv, Placed, MutexInv, Holding, FailedInv, NewInv, Live,
     ProcessIsAccountedFor
<1>8. RetainedHasDeadline'
  BY <1>1 DEF TypeOK, PlaceInv, Placed, MutexInv, Holding, DeadInv, ForgottenInv,
     RetainedHasDeadline
<1>9. FollowUpWaits'
  BY <1>1 DEF TypeOK, PlaceInv, Placed, MutexInv, Holding, FailedInv, OwnsInv, NewInv, GateInv,
     FollowUpWaits
<1>10. QED
  BY <1>2, <1>3, <1>4, <1>5, <1>6, <1>7, <1>8, <1>9

LEMMA ReturnInv ==
    ASSUME IInv, NEW t \in Turns, Return(t)
    PROVE  IInv'
<1> USE ThreadsAssumption DEF IInv, Threads, Return, Goto, registries, object, process, caller
<1>1. at[t] = None
  BY DEF TypeOK, PlaceInv, Placed
<1>2. TypeOK'
  BY <1>1 DEF TypeOK, Labels, ProcStates, BudgetRecords
<1>3. PlaceInv' /\ MutexInv'
  BY <1>1 DEF TypeOK, PlaceInv, Placed, MutexInv, Holding
<1>4. OwnsInv' /\ FailedInv' /\ GateInv'
  BY <1>1 DEF TypeOK, PlaceInv, Placed, MutexInv, Holding, OwnsInv, FailedInv, GateInv
<1>5. NewInv'
  BY <1>1 DEF TypeOK, PlaceInv, Placed, MutexInv, Holding, OwnsInv, FailedInv, NewInv
<1>6. ExpiryInv' /\ DeadInv' /\ ForgottenInv'
  BY <1>1 DEF TypeOK, PlaceInv, Placed, MutexInv, Holding, ExpiryInv, DeadInv, ForgottenInv
<1>7. ProcessIsAccountedFor'
  BY <1>1 DEF TypeOK, PlaceInv, Placed, MutexInv, Holding, FailedInv, NewInv, Live,
     ProcessIsAccountedFor
<1>8. RetainedHasDeadline'
  BY <1>1 DEF TypeOK, PlaceInv, Placed, MutexInv, Holding, DeadInv, ForgottenInv,
     RetainedHasDeadline
<1>9. FollowUpWaits'
  BY <1>1 DEF TypeOK, PlaceInv, Placed, MutexInv, Holding, FailedInv, OwnsInv, NewInv, GateInv,
     FollowUpWaits
<1>10. QED
  BY <1>2, <1>3, <1>4, <1>5, <1>6, <1>7, <1>8, <1>9

-----------------------------------------------------------------------------
(* Closes by owner.                                                        *)
LEMMA CloseCalledInv ==
    ASSUME IInv, NEW c \in Closers, CloseCalled(c)
    PROVE  IInv'
<1> USE ThreadsAssumption DEF IInv, Threads, CloseCalled, Goto, registries, object, process, caller
<1>1. at[c] = None
  BY DEF TypeOK, PlaceInv, Placed
<1>2. TypeOK'
  BY <1>1 DEF TypeOK, Labels, ProcStates, BudgetRecords
<1>3. PlaceInv' /\ MutexInv'
  BY <1>1 DEF TypeOK, PlaceInv, Placed, MutexInv, Holding
<1>4. OwnsInv' /\ FailedInv' /\ GateInv'
  BY <1>1 DEF TypeOK, PlaceInv, Placed, MutexInv, Holding, OwnsInv, FailedInv, GateInv
<1>5. NewInv'
  BY <1>1 DEF TypeOK, PlaceInv, Placed, MutexInv, Holding, OwnsInv, FailedInv, NewInv
<1>6. ExpiryInv' /\ DeadInv' /\ ForgottenInv'
  BY <1>1 DEF TypeOK, PlaceInv, Placed, MutexInv, Holding, ExpiryInv, DeadInv, ForgottenInv
<1>7. ProcessIsAccountedFor'
  BY <1>1 DEF TypeOK, PlaceInv, Placed, MutexInv, Holding, FailedInv, NewInv, Live,
     ProcessIsAccountedFor
<1>8. RetainedHasDeadline'
  BY <1>1 DEF TypeOK, PlaceInv, Placed, MutexInv, Holding, DeadInv, ForgottenInv,
     RetainedHasDeadline
<1>9. FollowUpWaits'
  BY <1>1 DEF TypeOK, PlaceInv, Placed, MutexInv, Holding, FailedInv, OwnsInv, NewInv, GateInv,
     FollowUpWaits
<1>10. QED
  BY <1>2, <1>3, <1>4, <1>5, <1>6, <1>7, <1>8, <1>9

LEMMA DeleteInv ==
    ASSUME IInv, NEW c \in Turns \cup Closers \cup Sessions, Delete(c)
    PROVE  IInv'
<1> USE ThreadsAssumption DEF IInv, Threads, Delete, Goto, GotoAt, object, process, caller
<1>1. at[c] = None
  BY DEF TypeOK, PlaceInv, Placed
<1>2. TypeOK'
  BY <1>1 DEF TypeOK, Labels, ProcStates, BudgetRecords
<1>3. PlaceInv' /\ MutexInv'
  BY <1>1 DEF TypeOK, PlaceInv, Placed, MutexInv, Holding
<1>4. OwnsInv' /\ FailedInv' /\ GateInv'
  BY <1>1 DEF TypeOK, PlaceInv, Placed, MutexInv, Holding, OwnsInv, FailedInv, GateInv
<1>5. NewInv'
  <2>1. CASE registry = None
    BY <1>1, <2>1 DEF TypeOK, NewInv
  <2>2. CASE registry # None
    <3>1. c \in Threads /\ pc'[c] = "closeLock" /\ at'[c] = registry
      BY <2>2 DEF TypeOK
    <3>2. \A u \in Threads \ {c} : pc'[u] = pc[u] /\ at'[u] = at[u]
      BY <2>2 DEF TypeOK
    <3>3. c \notin Senders
      OBVIOUS
    <3>4. QED
      BY <1>1, <3>1, <3>2, <3>3 DEF NewInv
  <2>3. QED
    BY <2>1, <2>2
<1>6. ExpiryInv' /\ DeadInv' /\ ForgottenInv'
  BY <1>1 DEF TypeOK, PlaceInv, Placed, MutexInv, Holding, ExpiryInv, DeadInv, ForgottenInv
<1>7. ProcessIsAccountedFor'
  <2>1. CASE registry = None
    BY <1>1, <2>1 DEF TypeOK, ProcessIsAccountedFor, Live
  <2>2. CASE registry # None
    <3>1. c \in Threads /\ pc'[c] = "closeLock" /\ at'[c] = registry
      BY <2>2 DEF TypeOK
    <3>2. \A u \in Threads \ {c} : pc'[u] = pc[u] /\ at'[u] = at[u]
      BY <2>2 DEF TypeOK
    <3>3. QED
      BY <1>1, <3>1, <3>2 DEF ProcessIsAccountedFor, Live
  <2>3. QED
    BY <2>1, <2>2
<1>8. RetainedHasDeadline'
  BY <1>1 DEF TypeOK, PlaceInv, Placed, MutexInv, Holding, DeadInv, ForgottenInv,
     RetainedHasDeadline
<1>9. FollowUpWaits'
  BY <1>1 DEF TypeOK, PlaceInv, Placed, MutexInv, Holding, FailedInv, OwnsInv, NewInv, GateInv,
     FollowUpWaits
<1>10. QED
  BY <1>2, <1>3, <1>4, <1>5, <1>6, <1>7, <1>8, <1>9

LEMMA CloseLockInv ==
    ASSUME IInv, NEW c \in Turns \cup Closers \cup Sessions, CloseLock(c)
    PROVE  IInv'
<1> USE ThreadsAssumption DEF IInv, Threads, CloseLock, Goto, registries, object, process, caller
<1>1. at[c] \in Sessions
  BY DEF TypeOK, PlaceInv, Placed
<1>2. TypeOK'
  BY <1>1 DEF TypeOK, Labels, ProcStates, BudgetRecords
<1>3. PlaceInv' /\ MutexInv'
  BY <1>1 DEF TypeOK, PlaceInv, Placed, MutexInv, Holding
<1>4. OwnsInv' /\ FailedInv' /\ GateInv'
  BY <1>1 DEF TypeOK, PlaceInv, Placed, MutexInv, Holding, OwnsInv, FailedInv, GateInv
<1>5. NewInv'
  BY <1>1 DEF TypeOK, PlaceInv, Placed, MutexInv, Holding, OwnsInv, FailedInv, NewInv
<1>6. ExpiryInv' /\ DeadInv' /\ ForgottenInv'
  BY <1>1 DEF TypeOK, PlaceInv, Placed, MutexInv, Holding, ExpiryInv, DeadInv, ForgottenInv
<1>7. ProcessIsAccountedFor'
  BY <1>1 DEF TypeOK, PlaceInv, Placed, MutexInv, Holding, FailedInv, NewInv, Live,
     ProcessIsAccountedFor
<1>8. RetainedHasDeadline'
  BY <1>1 DEF TypeOK, PlaceInv, Placed, MutexInv, Holding, DeadInv, ForgottenInv,
     RetainedHasDeadline
<1>9. FollowUpWaits'
  BY <1>1 DEF TypeOK, PlaceInv, Placed, MutexInv, Holding, FailedInv, OwnsInv, NewInv, GateInv,
     FollowUpWaits
<1>10. QED
  BY <1>2, <1>3, <1>4, <1>5, <1>6, <1>7, <1>8, <1>9

LEMMA CloseForgetsInv ==
    ASSUME IInv, NEW c \in Turns \cup Closers \cup Sessions, CloseForgets(c)
    PROVE  IInv'
<1> USE ThreadsAssumption DEF IInv, Threads, CloseForgets, Goto, Forget, object, process, caller
<1>1. at[c] \in Sessions
  BY DEF TypeOK, PlaceInv, Placed
<1>2. TypeOK'
  BY <1>1 DEF TypeOK, Labels, ProcStates, BudgetRecords
<1>3. PlaceInv' /\ MutexInv'
  BY <1>1 DEF TypeOK, PlaceInv, Placed, MutexInv, Holding
<1>4. OwnsInv' /\ FailedInv' /\ GateInv'
  BY <1>1 DEF TypeOK, PlaceInv, Placed, MutexInv, Holding, OwnsInv, FailedInv, GateInv
<1>5. NewInv'
  BY <1>1 DEF TypeOK, PlaceInv, Placed, MutexInv, Holding, OwnsInv, FailedInv, NewInv
<1>6. ExpiryInv' /\ DeadInv' /\ ForgottenInv'
  BY <1>1 DEF TypeOK, PlaceInv, Placed, MutexInv, Holding, ExpiryInv, DeadInv, ForgottenInv
<1>7. ProcessIsAccountedFor'
  BY <1>1 DEF TypeOK, PlaceInv, Placed, MutexInv, Holding, FailedInv, NewInv, Live,
     ProcessIsAccountedFor
<1>8. RetainedHasDeadline'
  BY <1>1 DEF TypeOK, PlaceInv, Placed, MutexInv, Holding, DeadInv, ForgottenInv,
     RetainedHasDeadline
<1>9. FollowUpWaits'
  BY <1>1 DEF TypeOK, PlaceInv, Placed, MutexInv, Holding, FailedInv, OwnsInv, NewInv, GateInv,
     FollowUpWaits
<1>10. QED
  BY <1>2, <1>3, <1>4, <1>5, <1>6, <1>7, <1>8, <1>9

LEMMA CloseUnregistersInv ==
    ASSUME IInv, NEW c \in Turns \cup Closers \cup Sessions, CloseUnregisters(c)
    PROVE  IInv'
<1> USE ThreadsAssumption DEF IInv, Threads, CloseUnregisters, Goto, Unregister, object, process,
      caller
<1>1. at[c] \in Sessions
  BY DEF TypeOK, PlaceInv, Placed
<1>2. TypeOK'
  BY <1>1 DEF TypeOK, Labels, ProcStates, BudgetRecords
<1>3. PlaceInv' /\ MutexInv'
  BY <1>1 DEF TypeOK, PlaceInv, Placed, MutexInv, Holding
<1>4. OwnsInv' /\ FailedInv' /\ GateInv'
  BY <1>1 DEF TypeOK, PlaceInv, Placed, MutexInv, Holding, OwnsInv, FailedInv, GateInv
<1>5. NewInv'
  BY <1>1 DEF TypeOK, PlaceInv, Placed, MutexInv, Holding, OwnsInv, FailedInv, NewInv
<1>6. ExpiryInv' /\ DeadInv' /\ ForgottenInv'
  BY <1>1 DEF TypeOK, PlaceInv, Placed, MutexInv, Holding, ExpiryInv, DeadInv, ForgottenInv
<1>7. ProcessIsAccountedFor'
  BY <1>1 DEF TypeOK, PlaceInv, Placed, MutexInv, Holding, FailedInv, NewInv, Live,
     ProcessIsAccountedFor
<1>8. RetainedHasDeadline'
  BY <1>1 DEF TypeOK, PlaceInv, Placed, MutexInv, Holding, DeadInv, ForgottenInv,
     RetainedHasDeadline
<1>9. FollowUpWaits'
  BY <1>1 DEF TypeOK, PlaceInv, Placed, MutexInv, Holding, FailedInv, OwnsInv, NewInv, GateInv,
     FollowUpWaits
<1>10. QED
  BY <1>2, <1>3, <1>4, <1>5, <1>6, <1>7, <1>8, <1>9

LEMMA CloseKillsInv ==
    ASSUME IInv, NEW c \in Turns \cup Closers \cup Sessions, CloseKills(c)
    PROVE  IInv'
<1> USE ThreadsAssumption DEF IInv, Threads, CloseKills, Goto, GotoAt, Unlock, Live, Typing,
      registries, object
<1>1. at[c] \in Sessions
  BY DEF TypeOK, PlaceInv, Placed
<1>2. TypeOK'
  BY <1>1 DEF TypeOK, Labels, ProcStates, BudgetRecords
<1>3. PlaceInv' /\ MutexInv'
  BY <1>1 DEF TypeOK, PlaceInv, Placed, MutexInv, Holding
<1>4. OwnsInv' /\ FailedInv' /\ GateInv'
  BY <1>1 DEF TypeOK, PlaceInv, Placed, MutexInv, Holding, OwnsInv, FailedInv, GateInv
<1>5. NewInv'
  BY <1>1 DEF TypeOK, PlaceInv, Placed, MutexInv, Holding, OwnsInv, FailedInv, NewInv
<1>6. ExpiryInv' /\ DeadInv' /\ ForgottenInv'
  BY <1>1 DEF TypeOK, PlaceInv, Placed, MutexInv, Holding, ExpiryInv, DeadInv, ForgottenInv
<1>7. ProcessIsAccountedFor'
  BY <1>1 DEF TypeOK, PlaceInv, Placed, MutexInv, Holding, FailedInv, NewInv, Live,
     ProcessIsAccountedFor
<1>8. RetainedHasDeadline'
  BY <1>1 DEF TypeOK, PlaceInv, Placed, MutexInv, Holding, DeadInv, ForgottenInv,
     RetainedHasDeadline
<1>9. FollowUpWaits'
  BY <1>1 DEF TypeOK, PlaceInv, Placed, MutexInv, Holding, FailedInv, OwnsInv, NewInv, GateInv,
     FollowUpWaits
<1>10. QED
  BY <1>2, <1>3, <1>4, <1>5, <1>6, <1>7, <1>8, <1>9

-----------------------------------------------------------------------------
(* Expiry, live input and terminals killed from outside.                   *)
LEMMA ElapseInv ==
    ASSUME IInv, NEW s \in Sessions, Elapse(s)
    PROVE  IInv'
<1> USE ThreadsAssumption DEF IInv, Threads, Elapse, registries, object, process, caller
<1>1. TypeOK'
  BY DEF TypeOK, Labels, ProcStates, BudgetRecords
<1>2. PlaceInv' /\ MutexInv'
  BY DEF TypeOK, PlaceInv, Placed, MutexInv, Holding
<1>3. OwnsInv' /\ FailedInv' /\ GateInv'
  BY DEF TypeOK, PlaceInv, Placed, MutexInv, Holding, OwnsInv, FailedInv, GateInv
<1>4. NewInv'
  BY DEF TypeOK, PlaceInv, Placed, MutexInv, Holding, OwnsInv, FailedInv, NewInv
<1>5. ExpiryInv' /\ DeadInv' /\ ForgottenInv'
  BY DEF TypeOK, PlaceInv, Placed, MutexInv, Holding, ExpiryInv, DeadInv, ForgottenInv
<1>6. ProcessIsAccountedFor'
  BY DEF TypeOK, PlaceInv, Placed, MutexInv, Holding, FailedInv, NewInv, Live, ProcessIsAccountedFor
<1>7. RetainedHasDeadline'
  BY DEF TypeOK, PlaceInv, Placed, MutexInv, Holding, DeadInv, ForgottenInv, RetainedHasDeadline
<1>8. FollowUpWaits'
  BY DEF TypeOK, PlaceInv, Placed, MutexInv, Holding, FailedInv, OwnsInv, NewInv, GateInv,
     FollowUpWaits
<1>9. QED
  BY <1>1, <1>2, <1>3, <1>4, <1>5, <1>6, <1>7, <1>8

LEMMA ExpireInv ==
    ASSUME IInv, NEW s \in Sessions, Expire(s)
    PROVE  IInv'
<1> USE ThreadsAssumption DEF IInv, Threads, Expire, Goto, registries, object, process, caller
<1>1. pc[s] = "idle" /\ at[s] = None
  BY DEF TypeOK, PlaceInv, Placed, ExpiryInv
<1>2. TypeOK'
  BY <1>1 DEF TypeOK, Labels, ProcStates, BudgetRecords
<1>3. PlaceInv' /\ MutexInv'
  BY <1>1 DEF TypeOK, PlaceInv, Placed, MutexInv, Holding
<1>4. OwnsInv' /\ FailedInv' /\ GateInv'
  BY <1>1 DEF TypeOK, PlaceInv, Placed, MutexInv, Holding, OwnsInv, FailedInv, GateInv
<1>5. NewInv'
  BY <1>1 DEF TypeOK, PlaceInv, Placed, MutexInv, Holding, OwnsInv, FailedInv, NewInv
<1>6. ExpiryInv' /\ DeadInv' /\ ForgottenInv'
  BY <1>1 DEF TypeOK, PlaceInv, Placed, MutexInv, Holding, ExpiryInv, DeadInv, ForgottenInv
<1>7. ProcessIsAccountedFor'
  BY <1>1 DEF TypeOK, PlaceInv, Placed, MutexInv, Holding, FailedInv, NewInv, Live,
     ProcessIsAccountedFor
<1>8. RetainedHasDeadline'
  BY <1>1 DEF TypeOK, PlaceInv, Placed, MutexInv, Holding, DeadInv, ForgottenInv,
     RetainedHasDeadline
<1>9. FollowUpWaits'
  BY <1>1 DEF TypeOK, PlaceInv, Placed, MutexInv, Holding, FailedInv, OwnsInv, NewInv, GateInv,
     FollowUpWaits
<1>10. QED
  BY <1>2, <1>3, <1>4, <1>5, <1>6, <1>7, <1>8, <1>9

LEMMA CrashInv ==
    ASSUME IInv, NEW s \in Sessions, Crash(s)
    PROVE  IInv'
<1> USE ThreadsAssumption DEF IInv, Threads, Crash, Live, registries, object
<1>1. TypeOK'
  <2>1. budget' \in BudgetRecords
    BY DEF TypeOK, BudgetRecords
  <2>2. /\ budget'.callers = budget.callers /\ budget'.scopes = budget.scopes
        /\ budget'.calls = budget.calls /\ budget'.sends = budget.sends
        /\ budget'.crashes <= budget.crashes
    BY DEF TypeOK, BudgetRecords
  <2>3. \E b \in Budgets : /\ budget'.callers = b.callers /\ budget'.scopes = b.scopes
                           /\ budget'.calls <= b.calls /\ budget'.sends <= b.sends
                           /\ budget'.crashes <= b.crashes
    BY <2>2, BudgetsAssumption DEF TypeOK, BudgetRecords
  <2>4. QED
    BY <2>1, <2>3 DEF TypeOK, Labels, ProcStates
<1>2. PlaceInv' /\ MutexInv'
  BY DEF TypeOK, PlaceInv, Placed, MutexInv, Holding
<1>3. OwnsInv' /\ FailedInv' /\ GateInv'
  BY DEF TypeOK, PlaceInv, Placed, MutexInv, Holding, OwnsInv, FailedInv, GateInv
<1>4. NewInv'
  BY DEF TypeOK, PlaceInv, Placed, MutexInv, Holding, OwnsInv, FailedInv, NewInv
<1>5. ExpiryInv' /\ DeadInv' /\ ForgottenInv'
  BY DEF TypeOK, PlaceInv, Placed, MutexInv, Holding, ExpiryInv, DeadInv, ForgottenInv
<1>6. ProcessIsAccountedFor'
  BY DEF TypeOK, PlaceInv, Placed, MutexInv, Holding, FailedInv, NewInv, Live, ProcessIsAccountedFor
<1>7. RetainedHasDeadline'
  BY DEF TypeOK, PlaceInv, Placed, MutexInv, Holding, DeadInv, ForgottenInv, RetainedHasDeadline
<1>8. FollowUpWaits'
  BY DEF TypeOK, PlaceInv, Placed, MutexInv, Holding, FailedInv, OwnsInv, NewInv, GateInv,
     FollowUpWaits
<1>9. QED
  BY <1>1, <1>2, <1>3, <1>4, <1>5, <1>6, <1>7, <1>8

LEMMA SendCalledInv ==
    ASSUME IInv, NEW d \in Senders, SendCalled(d)
    PROVE  IInv'
<1> USE ThreadsAssumption DEF IInv, Threads, SendCalled, Goto, registries, object, process
<1>1. at[d] = None
  BY DEF TypeOK, PlaceInv, Placed
<1>2. TypeOK'
  <2>1. budget' \in BudgetRecords
    BY DEF TypeOK, BudgetRecords
  <2>2. /\ budget'.callers = budget.callers /\ budget'.scopes = budget.scopes
        /\ budget'.calls = budget.calls /\ budget'.sends <= budget.sends
        /\ budget'.crashes = budget.crashes
    BY DEF TypeOK, BudgetRecords
  <2>3. \E b \in Budgets : /\ budget'.callers = b.callers /\ budget'.scopes = b.scopes
                           /\ budget'.calls <= b.calls /\ budget'.sends <= b.sends
                           /\ budget'.crashes <= b.crashes
    BY <2>2, BudgetsAssumption DEF TypeOK, BudgetRecords
  <2>4. QED
    BY <2>1, <2>3 DEF TypeOK, Labels, ProcStates
<1>3. PlaceInv' /\ MutexInv'
  BY <1>1 DEF TypeOK, PlaceInv, Placed, MutexInv, Holding
<1>4. OwnsInv' /\ FailedInv' /\ GateInv'
  BY <1>1 DEF TypeOK, PlaceInv, Placed, MutexInv, Holding, OwnsInv, FailedInv, GateInv
<1>5. NewInv'
  BY <1>1 DEF TypeOK, PlaceInv, Placed, MutexInv, Holding, OwnsInv, FailedInv, NewInv
<1>6. ExpiryInv' /\ DeadInv' /\ ForgottenInv'
  BY <1>1 DEF TypeOK, PlaceInv, Placed, MutexInv, Holding, ExpiryInv, DeadInv, ForgottenInv
<1>7. ProcessIsAccountedFor'
  BY <1>1 DEF TypeOK, PlaceInv, Placed, MutexInv, Holding, FailedInv, NewInv, Live,
     ProcessIsAccountedFor
<1>8. RetainedHasDeadline'
  BY <1>1 DEF TypeOK, PlaceInv, Placed, MutexInv, Holding, DeadInv, ForgottenInv,
     RetainedHasDeadline
<1>9. FollowUpWaits'
  BY <1>1 DEF TypeOK, PlaceInv, Placed, MutexInv, Holding, FailedInv, OwnsInv, NewInv, GateInv,
     FollowUpWaits
<1>10. QED
  BY <1>2, <1>3, <1>4, <1>5, <1>6, <1>7, <1>8, <1>9

LEMMA SendArmsInv ==
    ASSUME IInv, NEW d \in Senders, SendArms(d)
    PROVE  IInv'
<1> USE ThreadsAssumption DEF IInv, Threads, SendArms, Goto, Renewable, registries, object, process,
      caller
<1>1. at[d] = None
  BY DEF TypeOK, PlaceInv, Placed
<1>2. TypeOK'
  BY <1>1 DEF TypeOK, Labels, ProcStates, BudgetRecords
<1>3. PlaceInv' /\ MutexInv'
  BY <1>1 DEF TypeOK, PlaceInv, Placed, MutexInv, Holding
<1>4. OwnsInv' /\ FailedInv' /\ GateInv'
  BY <1>1 DEF TypeOK, PlaceInv, Placed, MutexInv, Holding, OwnsInv, FailedInv, GateInv
<1>5. NewInv'
  BY <1>1 DEF TypeOK, PlaceInv, Placed, MutexInv, Holding, OwnsInv, FailedInv, NewInv
<1>6. ExpiryInv' /\ DeadInv' /\ ForgottenInv'
  BY <1>1 DEF TypeOK, PlaceInv, Placed, MutexInv, Holding, ExpiryInv, DeadInv, ForgottenInv
<1>7. ProcessIsAccountedFor'
  BY <1>1 DEF TypeOK, PlaceInv, Placed, MutexInv, Holding, FailedInv, NewInv, Live,
     ProcessIsAccountedFor
<1>8. RetainedHasDeadline'
  BY <1>1 DEF TypeOK, PlaceInv, Placed, MutexInv, Holding, DeadInv, ForgottenInv,
     RetainedHasDeadline
<1>9. FollowUpWaits'
  BY <1>1 DEF TypeOK, PlaceInv, Placed, MutexInv, Holding, FailedInv, OwnsInv, NewInv, GateInv,
     FollowUpWaits
<1>10. QED
  BY <1>2, <1>3, <1>4, <1>5, <1>6, <1>7, <1>8, <1>9

LEMMA SendTargetsInv ==
    ASSUME IInv, NEW d \in Senders, SendTargets(d)
    PROVE  IInv'
<1> USE ThreadsAssumption DEF IInv, Threads, SendTargets, Goto, GotoAt, registries, object, process,
      caller
<1>1. at[d] = None
  BY DEF TypeOK, PlaceInv, Placed
<1>2. TypeOK'
  BY <1>1 DEF TypeOK, Labels, ProcStates, BudgetRecords
<1>3. PlaceInv' /\ MutexInv'
  BY <1>1 DEF TypeOK, PlaceInv, Placed, MutexInv, Holding
<1>4. OwnsInv' /\ FailedInv' /\ GateInv'
  BY <1>1 DEF TypeOK, PlaceInv, Placed, MutexInv, Holding, OwnsInv, FailedInv, GateInv
<1>5. NewInv'
  <2>1. /\ \A u \in Threads \ {d} : pc'[u] = pc[u] /\ at'[u] = at[u]
        /\ at'[d] \in {None, name} /\ pc'[d] \in {"gate", "idle"} /\ pc[d] = "target"
    BY <1>1 DEF TypeOK
  <2>2. \A t \in Turns : t # d /\ (pc[t] \in {"build", "reap", "launch", "register"} => at[t] # None)
    BY DEF PlaceInv, Placed
  <2>3. QED
    BY <2>1, <2>2 DEF NewInv
<1>6. ExpiryInv' /\ DeadInv' /\ ForgottenInv'
  BY <1>1 DEF TypeOK, PlaceInv, Placed, MutexInv, Holding, ExpiryInv, DeadInv, ForgottenInv
<1>7. ProcessIsAccountedFor'
  BY <1>1 DEF TypeOK, PlaceInv, Placed, MutexInv, Holding, FailedInv, NewInv, Live,
     ProcessIsAccountedFor
<1>8. RetainedHasDeadline'
  BY <1>1 DEF TypeOK, PlaceInv, Placed, MutexInv, Holding, DeadInv, ForgottenInv,
     RetainedHasDeadline
<1>9. FollowUpWaits'
  BY <1>1 DEF TypeOK, PlaceInv, Placed, MutexInv, Holding, FailedInv, OwnsInv, NewInv, GateInv,
     FollowUpWaits
<1>10. QED
  BY <1>2, <1>3, <1>4, <1>5, <1>6, <1>7, <1>8, <1>9

LEMMA SendWaitsInv ==
    ASSUME IInv, NEW d \in Senders, SendWaits(d)
    PROVE  IInv'
<1> USE ThreadsAssumption DEF IInv, Threads, SendWaits, Goto, GotoAt, registries, object, process,
      caller
<1>1. at[d] \in Sessions
  BY DEF TypeOK, PlaceInv, Placed
<1>2. TypeOK'
  BY <1>1 DEF TypeOK, Labels, ProcStates, BudgetRecords
<1>3. PlaceInv' /\ MutexInv'
  BY <1>1 DEF TypeOK, PlaceInv, Placed, MutexInv, Holding
<1>4. OwnsInv' /\ FailedInv' /\ GateInv'
  BY <1>1 DEF TypeOK, PlaceInv, Placed, MutexInv, Holding, OwnsInv, FailedInv, GateInv
<1>5. NewInv'
  <2>1. /\ \A u \in Threads \ {d} : pc'[u] = pc[u] /\ at'[u] = at[u]
        /\ at'[d] \in {at[d], None} /\ pc'[d] \in {"typing", "idle"} /\ pc[d] = "gate"
    BY DEF TypeOK
  <2>2. \A t \in Turns : t # d /\ (pc[t] \in {"build", "reap", "launch", "register"} => at[t] # None)
    BY DEF PlaceInv, Placed
  <2>3. QED
    BY <2>1, <2>2 DEF NewInv
<1>6. ExpiryInv' /\ DeadInv' /\ ForgottenInv'
  BY <1>1 DEF TypeOK, PlaceInv, Placed, MutexInv, Holding, ExpiryInv, DeadInv, ForgottenInv
<1>7. ProcessIsAccountedFor'
  <2>1. /\ \A u \in Threads \ {d} : pc'[u] = pc[u] /\ at'[u] = at[u]
        /\ pc[d] = "gate"
    BY DEF TypeOK
  <2>2. QED
    BY <2>1 DEF ProcessIsAccountedFor, Live
<1>8. RetainedHasDeadline'
  BY <1>1 DEF TypeOK, PlaceInv, Placed, MutexInv, Holding, DeadInv, ForgottenInv,
     RetainedHasDeadline
<1>9. FollowUpWaits'
  BY <1>1 DEF TypeOK, PlaceInv, Placed, MutexInv, Holding, FailedInv, OwnsInv, NewInv, GateInv,
     FollowUpWaits
<1>10. QED
  BY <1>2, <1>3, <1>4, <1>5, <1>6, <1>7, <1>8, <1>9

LEMMA SendDeliversInv ==
    ASSUME IInv, NEW d \in Senders, SendDelivers(d)
    PROVE  IInv'
<1> USE ThreadsAssumption DEF IInv, Threads, SendDelivers, Goto, GotoAt, registries, object,
      process, caller
<1>1. at[d] \in Sessions
  BY DEF TypeOK, PlaceInv, Placed
<1>2. TypeOK'
  BY <1>1 DEF TypeOK, Labels, ProcStates, BudgetRecords
<1>3. PlaceInv' /\ MutexInv'
  BY <1>1 DEF TypeOK, PlaceInv, Placed, MutexInv, Holding
<1>4. OwnsInv' /\ FailedInv' /\ GateInv'
  BY <1>1 DEF TypeOK, PlaceInv, Placed, MutexInv, Holding, OwnsInv, FailedInv, GateInv
<1>5. NewInv'
  BY <1>1 DEF TypeOK, PlaceInv, Placed, MutexInv, Holding, OwnsInv, FailedInv, NewInv
<1>6. ExpiryInv' /\ DeadInv' /\ ForgottenInv'
  BY <1>1 DEF TypeOK, PlaceInv, Placed, MutexInv, Holding, ExpiryInv, DeadInv, ForgottenInv
<1>7. ProcessIsAccountedFor'
  BY <1>1 DEF TypeOK, PlaceInv, Placed, MutexInv, Holding, FailedInv, NewInv, Live,
     ProcessIsAccountedFor
<1>8. RetainedHasDeadline'
  BY <1>1 DEF TypeOK, PlaceInv, Placed, MutexInv, Holding, DeadInv, ForgottenInv,
     RetainedHasDeadline
<1>9. FollowUpWaits'
  BY <1>1 DEF TypeOK, PlaceInv, Placed, MutexInv, Holding, FailedInv, OwnsInv, NewInv, GateInv,
     FollowUpWaits
<1>10. QED
  BY <1>2, <1>3, <1>4, <1>5, <1>6, <1>7, <1>8, <1>9
-----------------------------------------------------------------------------
LEMMA InitInv == Init => IInv
<1> SUFFICES ASSUME Init PROVE IInv
  OBVIOUS
<1> USE ThreadsAssumption DEF Init, Threads
<1>1. TypeOK
  BY BudgetsAssumption DEF TypeOK, Labels, ProcStates, BudgetRecords
<1>2. PlaceInv /\ MutexInv /\ OwnsInv /\ FailedInv /\ NewInv /\ GateInv
  BY DEF PlaceInv, Placed, MutexInv, Holding, OwnsInv, FailedInv, NewInv, GateInv
<1>3. ExpiryInv /\ DeadInv /\ ForgottenInv
  BY DEF ExpiryInv, DeadInv, ForgottenInv
<1>4. ProcessIsAccountedFor /\ RetainedHasDeadline /\ FollowUpWaits
  BY DEF ProcessIsAccountedFor, Live, RetainedHasDeadline, FollowUpWaits
<1>5. QED
  BY <1>1, <1>2, <1>3, <1>4 DEF IInv

LEMMA StutterInv == IInv /\ UNCHANGED vars => IInv'
<1> SUFFICES ASSUME IInv, UNCHANGED vars PROVE IInv'
  OBVIOUS
<1> USE DEF IInv, vars, registries, object, process, caller
<1>1. TypeOK'
  BY DEF TypeOK
<1>2. PlaceInv' /\ MutexInv' /\ OwnsInv' /\ FailedInv' /\ NewInv' /\ GateInv'
  BY DEF PlaceInv, MutexInv, OwnsInv, FailedInv, NewInv, GateInv
<1>3. ExpiryInv' /\ DeadInv' /\ ForgottenInv'
  BY DEF ExpiryInv, DeadInv, ForgottenInv
<1>4. ProcessIsAccountedFor' /\ RetainedHasDeadline' /\ FollowUpWaits'
  BY DEF ProcessIsAccountedFor, Live, RetainedHasDeadline, FollowUpWaits
<1>5. QED
  BY <1>1, <1>2, <1>3, <1>4

LEMMA IInvInductive == IInv /\ [Next]_vars => IInv'
<1> SUFFICES ASSUME IInv, [Next]_vars PROVE IInv'
  OBVIOUS
<1>1. CASE \E t \in Turns : TurnCalled(t) \/ Acquire(t) \/ Lock(t) \/ Create(t) \/ Run(t)
  <2>1. PICK t \in Turns : TurnCalled(t) \/ Acquire(t) \/ Lock(t) \/ Create(t) \/ Run(t)
    BY <1>1
  <2>2. CASE TurnCalled(t) \/ Acquire(t) \/ Lock(t)
    BY <2>2, TurnCalledInv, AcquireFindsInv, AcquireCreatesInv, LockReusesInv, LockRefusesInv,
       LockReplacesInv DEF Acquire, Lock
  <2>3. CASE Create(t)
    BY <2>3, BuildInv, ReapInv, LaunchInv, LaunchFailsInv, RegisterInv, DiscardInv DEF Create
  <2>4. CASE Run(t)
    BY <2>4, StartupDoneInv, PromptSentInv, TurnFailsInv, DropInv, ScrapInv, TurnEndsInv,
       ReleaseInv, ReturnInv DEF Run
  <2>5. QED
    BY <2>1, <2>2, <2>3, <2>4
<1>2. CASE \E c \in Closers : CloseCalled(c)
  BY <1>2, CloseCalledInv
<1>3. CASE \E c \in Turns \cup Closers \cup Sessions : Delete(c) \/ CloseLock(c) \/ Close(c)
  BY <1>3, DeleteInv, CloseLockInv, CloseForgetsInv, CloseUnregistersInv, CloseKillsInv DEF Close
<1>4. CASE \E s \in Sessions : Elapse(s) \/ Expire(s) \/ Crash(s)
  BY <1>4, ElapseInv, ExpireInv, CrashInv
<1>5. CASE \E d \in Senders : SendCalled(d) \/ Send(d)
  BY <1>5, SendCalledInv, SendArmsInv, SendTargetsInv, SendWaitsInv, SendDeliversInv DEF Send
<1>6. CASE UNCHANGED vars
  BY <1>6, StutterInv
<1>7. QED
  BY <1>1, <1>2, <1>3, <1>4, <1>5, <1>6 DEF Next

-----------------------------------------------------------------------------
(* The retained session of the Codex adapter never leaves the invariant.   *)
THEOREM CodexInvariant == Spec => []IInv
  BY InitInv, IInvInductive, PTL DEF Spec

(* Every variable holds a value of its kind.                               *)
THEOREM CodexTypeCorrect == Spec => []TypeOK
<1>1. IInv => TypeOK
  BY DEF IInv
<1>2. QED
  BY <1>1, CodexInvariant, PTL

(* A turn that prompts or runs holds the mutex of a session of its own     *)
(* scope that nobody failed, for any number of turns, closes and expiries. *)
THEOREM TurnOwnsSessionHolds == Spec => []TurnOwnsSession
<1>1. ASSUME IInv, NEW t \in Turns, pc[t] \in {"prompt", "running"}
      PROVE  mu[at[t]] = t /\ ~failed[at[t]] /\ scope[at[t]] = want[t]
  <2>1. t \in Threads /\ at[t] \in Sessions
    BY <1>1 DEF IInv, TypeOK, PlaceInv, Placed, Threads
  <2>2. QED
    BY <1>1, <2>1 DEF IInv, MutexInv, Holding, OwnsInv
<1>2. IInv => TurnOwnsSession
  BY <1>1 DEF TurnOwnsSession
<1>3. QED
  BY <1>2, CodexInvariant, PTL

(* A terminal outside the registry has somebody who is about to kill it,   *)
(* or a kill of it was given up, or its launch failed half-way.            *)
THEOREM ProcessIsAccountedForHolds == Spec => []ProcessIsAccountedFor
<1>1. IInv => ProcessIsAccountedFor
  BY DEF IInv
<1>2. QED
  BY <1>1, CodexInvariant, PTL

(* A registered session that no turn holds has a deadline, or somebody is  *)
(* about to remove it.                                                     *)
THEOREM RetainedHasDeadlineHolds == Spec => []RetainedHasDeadline
<1>1. IInv => RetainedHasDeadline
  BY DEF IInv
<1>2. QED
  BY <1>1, CodexInvariant, PTL

(* Live input is never typed into a terminal that is still starting.       *)
THEOREM FollowUpWaitsHolds == Spec => []FollowUpWaits
<1>1. IInv => FollowUpWaits
  BY DEF IInv
<1>2. QED
  BY <1>1, CodexInvariant, PTL
=============================================================================
