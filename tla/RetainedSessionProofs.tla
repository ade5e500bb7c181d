----------------------- MODULE RetainedSessionProofs -----------------------
(***************************************************************************)
(* Proofs about RetainedSession for both adapters, any number of session   *)
(* objects, turns, closers, senders, scopes and settings, and any budgets. *)
(* The argument is that of CodexSessionProofs, for sessions that are       *)
(* deleted from the registry before they are locked.                       *)
(***************************************************************************)
EXTENDS RetainedSession, TLAPS

(* A goroutine refers to a session from the moment it found or made it,    *)
(* and holds that session's mutex at these labels.                         *)
Placed  == {"lock", "launch", "register", "discard", "startup", "prompt", "running", "release",
            "drop", "scrap", "wait", "unregister", "kill", "renew", "typing"}
Holding == {"launch", "register", "startup", "prompt", "running", "release", "unregister", "kill"}

PlaceInv == \A t \in Threads : work[t].at # None <=> work[t].pc \in Placed

(* The mutex has the holder it says, and no other goroutine believes that  *)
(* it holds it.                                                            *)
MutexInv == \A s \in Sessions, t \in Threads :
    session[s].mu = t <=> work[t].at = s /\ work[t].pc \in Holding

(* The session of a turn that launches or runs fits the turn's launch, and *)
(* nobody failed it.                                                       *)
OwnsInv == \A t \in Turns :
    work[t].pc \in {"launch", "register", "startup", "prompt", "running"} =>
        /\ ~session[work[t].at].failed
        /\ session[work[t].at].scope = work[t].scope
        /\ adapter = "claude" => session[work[t].at].settings = work[t].settings

(* A turn that undoes a launch works on a failed session; if the launch    *)
(* itself failed, no terminal of the session lives.                        *)
FailedInv == \A t \in Turns : work[t].pc \in {"discard", "drop", "scrap"} =>
    /\ session[work[t].at].failed
    /\ work[t].pc = "discard" => ~Live(work[t].at)

(* A session that is about to be launched is in the registry, or whoever   *)
(* took it from there waits for its mutex to close it.                     *)
NewInv == \A t \in Turns : work[t].pc = "launch" =>
    \/ registry = work[t].at
    \/ \E c \in Threads : work[c].pc = "wait" /\ work[c].at = work[t].at

(* A session's expiry callback runs once, when its lease is dead.          *)
ExpiryInv == \A s \in Sessions : work[s].pc # "idle" => session[s].lease = "dead"

(* A session whose lease is dead is on its way out of the registry.        *)
DeadInv == \A s \in Sessions : registry = s /\ session[s].lease = "dead" =>
    \/ \E c \in Threads : work[c].pc = "delete"
    \/ \E t \in Turns : work[t].at = s /\ work[t].pc = "drop"

ForgottenInv == \A c \in Threads :
    work[c].pc \in {"wait", "unregister", "kill"} => registry # work[c].at

IInv == /\ TypeOK /\ PlaceInv /\ MutexInv /\ OwnsInv /\ FailedInv /\ NewInv
        /\ ExpiryInv /\ DeadInv /\ ForgottenInv
        /\ TerminalIsAccountedFor /\ RetainedHasDeadline
-----------------------------------------------------------------------------
(* Acquisition and launch: each step of a turn keeps the invariant.        *)
LEMMA CallInv ==
    ASSUME ConstantsFit, IInv, NEW t \in Turns, Call(t)
    PROVE  IInv'
<1> USE DEF ConstantsFit, IInv, Threads, Call, At, Idle
<1>1. work[t].at = None
  BY DEF TypeOK, WorkRecords, PlaceInv, Placed
<1>2. TypeOK'
  <2>1. budget' \in BudgetRecords /\ budget.scopes \subseteq Scopes \cup {None}
        /\ budget.settings \subseteq Settings \cup {None}
    BY DEF TypeOK, BudgetRecords
  <2>2. PICK sc \in budget.scopes, se \in budget.settings :
            work' = [work EXCEPT ![t] = [Idle EXCEPT !.pc = "acquire", !.scope = sc, !.settings = se]]
    OBVIOUS
  <2>3. [Idle EXCEPT !.pc = "acquire", !.scope = sc, !.settings = se] \in WorkRecords
    BY <2>1 DEF WorkRecords, Labels
  <2>4. work' \in [Threads -> WorkRecords]
    BY <2>2, <2>3 DEF TypeOK
  <2>5. QED
    BY <2>1, <2>4 DEF TypeOK
<1>3. PlaceInv' /\ MutexInv'
  BY <1>1 DEF TypeOK, SessionRecords, WorkRecords, PlaceInv, Placed, MutexInv, Holding
<1>4. OwnsInv'
  BY <1>1 DEF TypeOK, SessionRecords, WorkRecords, PlaceInv, Placed, MutexInv, Holding, OwnsInv,
     SameScope, SameSettings
<1>5. FailedInv'
  BY <1>1 DEF TypeOK, SessionRecords, WorkRecords, PlaceInv, Placed, MutexInv, Holding, OwnsInv,
     FailedInv, NewInv, Live
<1>6. NewInv'
  BY <1>1 DEF TypeOK, SessionRecords, WorkRecords, PlaceInv, Placed, MutexInv, Holding, NewInv
<1>7. ExpiryInv'
  BY <1>1 DEF TypeOK, SessionRecords, WorkRecords, PlaceInv, Placed, MutexInv, Holding, ExpiryInv
<1>8. DeadInv'
  BY <1>1 DEF TypeOK, SessionRecords, WorkRecords, PlaceInv, Placed, MutexInv, Holding, ExpiryInv,
     DeadInv, ForgottenInv
<1>9. ForgottenInv'
  BY <1>1 DEF TypeOK, SessionRecords, WorkRecords, PlaceInv, Placed, MutexInv, Holding, ForgottenInv
<1>10. TerminalIsAccountedFor'
  BY <1>1 DEF TypeOK, SessionRecords, WorkRecords, PlaceInv, Placed, MutexInv, Holding, FailedInv,
     NewInv, Live, TerminalIsAccountedFor
<1>11. RetainedHasDeadline'
  BY <1>1 DEF TypeOK, SessionRecords, WorkRecords, PlaceInv, Placed, MutexInv, Holding, DeadInv,
     ForgottenInv, RetainedHasDeadline
<1>12. QED
  BY <1>2, <1>3, <1>4, <1>5, <1>6, <1>7, <1>8, <1>9, <1>10, <1>11

LEMMA FindInv ==
    ASSUME ConstantsFit, IInv, NEW t \in Turns, Find(t)
    PROVE  IInv'
<1> USE DEF ConstantsFit, IInv, Threads, Find, At, StepAt
<1>1. work[t].at = None
  BY DEF TypeOK, WorkRecords, PlaceInv, Placed
<1>2. TypeOK'
  BY <1>1 DEF TypeOK, SessionRecords, WorkRecords, Labels, BudgetRecords
<1>3. PlaceInv' /\ MutexInv'
  BY <1>1 DEF TypeOK, SessionRecords, WorkRecords, PlaceInv, Placed, MutexInv, Holding
<1>4. OwnsInv'
  BY <1>1 DEF TypeOK, SessionRecords, WorkRecords, PlaceInv, Placed, MutexInv, Holding, OwnsInv,
     SameScope, SameSettings
<1>5. FailedInv'
  BY <1>1 DEF TypeOK, SessionRecords, WorkRecords, PlaceInv, Placed, MutexInv, Holding, OwnsInv,
     FailedInv, NewInv, Live
<1>6. NewInv'
  BY <1>1 DEF TypeOK, SessionRecords, WorkRecords, PlaceInv, Placed, MutexInv, Holding, NewInv
<1>7. ExpiryInv'
  BY <1>1 DEF TypeOK, SessionRecords, WorkRecords, PlaceInv, Placed, MutexInv, Holding, ExpiryInv
<1>8. DeadInv'
  BY <1>1 DEF TypeOK, SessionRecords, WorkRecords, PlaceInv, Placed, MutexInv, Holding, ExpiryInv,
     DeadInv, ForgottenInv
<1>9. ForgottenInv'
  BY <1>1 DEF TypeOK, SessionRecords, WorkRecords, PlaceInv, Placed, MutexInv, Holding, ForgottenInv
<1>10. TerminalIsAccountedFor'
  BY <1>1 DEF TypeOK, SessionRecords, WorkRecords, PlaceInv, Placed, MutexInv, Holding, FailedInv,
     NewInv, Live, TerminalIsAccountedFor
<1>11. RetainedHasDeadline'
  BY <1>1 DEF TypeOK, SessionRecords, WorkRecords, PlaceInv, Placed, MutexInv, Holding, DeadInv,
     ForgottenInv, RetainedHasDeadline
<1>12. QED
  BY <1>2, <1>3, <1>4, <1>5, <1>6, <1>7, <1>8, <1>9, <1>10, <1>11

LEMMA CreateInv ==
    ASSUME ConstantsFit, IInv, NEW t \in Turns, Create(t)
    PROVE  IInv'
<1> USE DEF ConstantsFit, IInv, Threads, Create, At, StepAt, NewSession, Live, Unreferenced
<1>1. work[t].at = None
  BY DEF TypeOK, WorkRecords, PlaceInv, Placed
<1>2. TypeOK'
  BY <1>1 DEF TypeOK, SessionRecords, WorkRecords, Labels, BudgetRecords
<1>3. PlaceInv' /\ MutexInv'
  BY <1>1 DEF TypeOK, SessionRecords, WorkRecords, PlaceInv, Placed, MutexInv, Holding
<1>4. OwnsInv'
  BY SMTT(30), <1>1 DEF TypeOK, SessionRecords, WorkRecords, PlaceInv, Placed, MutexInv, Holding, OwnsInv,
     SameScope, SameSettings
<1>5. FailedInv'
  BY SMTT(30), <1>1 DEF TypeOK, SessionRecords, WorkRecords, PlaceInv, Placed, MutexInv, Holding, OwnsInv,
     FailedInv, NewInv
<1>6. NewInv'
  BY <1>1 DEF TypeOK, SessionRecords, WorkRecords, PlaceInv, Placed, MutexInv, Holding, NewInv
<1>7. ExpiryInv'
  BY <1>1 DEF TypeOK, SessionRecords, WorkRecords, PlaceInv, Placed, MutexInv, Holding, ExpiryInv
<1>8. DeadInv'
  BY <1>1 DEF TypeOK, SessionRecords, WorkRecords, PlaceInv, Placed, MutexInv, Holding, ExpiryInv,
     DeadInv, ForgottenInv
<1>9. ForgottenInv'
  BY <1>1 DEF TypeOK, SessionRecords, WorkRecords, PlaceInv, Placed, MutexInv, Holding, ForgottenInv
<1>10. TerminalIsAccountedFor'
  BY <1>1 DEF TypeOK, SessionRecords, WorkRecords, PlaceInv, Placed, MutexInv, Holding, FailedInv,
     NewInv, TerminalIsAccountedFor
<1>11. RetainedHasDeadline'
  BY <1>1 DEF TypeOK, SessionRecords, WorkRecords, PlaceInv, Placed, MutexInv, Holding, DeadInv,
     ForgottenInv, RetainedHasDeadline
<1>12. QED
  BY <1>2, <1>3, <1>4, <1>5, <1>6, <1>7, <1>8, <1>9, <1>10, <1>11

LEMMA ReplaceInv ==
    ASSUME ConstantsFit, IInv, NEW t \in Turns, Replace(t)
    PROVE  IInv'
<1> USE DEF ConstantsFit, IInv, Threads, Replace, At, SameScope, SameSettings
<1>1. work[t].at \in Sessions
  BY DEF TypeOK, WorkRecords, PlaceInv, Placed
<1>2. TypeOK'
  BY <1>1 DEF TypeOK, SessionRecords, WorkRecords, Labels, BudgetRecords
<1>3. PlaceInv' /\ MutexInv'
  BY <1>1 DEF TypeOK, SessionRecords, WorkRecords, PlaceInv, Placed, MutexInv, Holding
<1>4. OwnsInv'
  BY <1>1 DEF TypeOK, SessionRecords, WorkRecords, PlaceInv, Placed, MutexInv, Holding, OwnsInv
<1>5. FailedInv'
  BY <1>1 DEF TypeOK, SessionRecords, WorkRecords, PlaceInv, Placed, MutexInv, Holding, OwnsInv,
     FailedInv, NewInv, Live
<1>6. NewInv'
  BY <1>1 DEF TypeOK, SessionRecords, WorkRecords, PlaceInv, Placed, MutexInv, Holding, NewInv
<1>7. ExpiryInv'
  BY <1>1 DEF TypeOK, SessionRecords, WorkRecords, PlaceInv, Placed, MutexInv, Holding, ExpiryInv
<1>8. DeadInv'
  BY <1>1 DEF TypeOK, SessionRecords, WorkRecords, PlaceInv, Placed, MutexInv, Holding, ExpiryInv,
     DeadInv, ForgottenInv
<1>9. ForgottenInv'
  BY <1>1 DEF TypeOK, SessionRecords, WorkRecords, PlaceInv, Placed, MutexInv, Holding, ForgottenInv
<1>10. TerminalIsAccountedFor'
  BY <1>1 DEF TypeOK, SessionRecords, WorkRecords, PlaceInv, Placed, MutexInv, Holding, FailedInv,
     NewInv, Live, TerminalIsAccountedFor
<1>11. RetainedHasDeadline'
  BY <1>1 DEF TypeOK, SessionRecords, WorkRecords, PlaceInv, Placed, MutexInv, Holding, DeadInv,
     ForgottenInv, RetainedHasDeadline
<1>12. QED
  BY <1>2, <1>3, <1>4, <1>5, <1>6, <1>7, <1>8, <1>9, <1>10, <1>11

LEMMA RefuseInv ==
    ASSUME ConstantsFit, IInv, NEW t \in Turns, Refuse(t)
    PROVE  IInv'
<1> USE DEF ConstantsFit, IInv, Threads, Refuse, At, StepAt, SameScope, SameSettings
<1>1. work[t].at \in Sessions
  BY DEF TypeOK, WorkRecords, PlaceInv, Placed
<1>2. TypeOK'
  BY <1>1 DEF TypeOK, SessionRecords, WorkRecords, Labels, BudgetRecords
<1>3. PlaceInv' /\ MutexInv'
  BY <1>1 DEF TypeOK, SessionRecords, WorkRecords, PlaceInv, Placed, MutexInv, Holding
<1>4. OwnsInv'
  BY <1>1 DEF TypeOK, SessionRecords, WorkRecords, PlaceInv, Placed, MutexInv, Holding, OwnsInv
<1>5. FailedInv'
  BY <1>1 DEF TypeOK, SessionRecords, WorkRecords, PlaceInv, Placed, MutexInv, Holding, OwnsInv,
     FailedInv, NewInv, Live
<1>6. NewInv'
  BY <1>1 DEF TypeOK, SessionRecords, WorkRecords, PlaceInv, Placed, MutexInv, Holding, NewInv
<1>7. ExpiryInv'
  BY <1>1 DEF TypeOK, SessionRecords, WorkRecords, PlaceInv, Placed, MutexInv, Holding, ExpiryInv
<1>8. DeadInv'
  BY <1>1 DEF TypeOK, SessionRecords, WorkRecords, PlaceInv, Placed, MutexInv, Holding, ExpiryInv,
     DeadInv, ForgottenInv
<1>9. ForgottenInv'
  BY <1>1 DEF TypeOK, SessionRecords, WorkRecords, PlaceInv, Placed, MutexInv, Holding, ForgottenInv
<1>10. TerminalIsAccountedFor'
  BY <1>1 DEF TypeOK, SessionRecords, WorkRecords, PlaceInv, Placed, MutexInv, Holding, FailedInv,
     NewInv, Live, TerminalIsAccountedFor
<1>11. RetainedHasDeadline'
  BY <1>1 DEF TypeOK, SessionRecords, WorkRecords, PlaceInv, Placed, MutexInv, Holding, DeadInv,
     ForgottenInv, RetainedHasDeadline
<1>12. QED
  BY <1>2, <1>3, <1>4, <1>5, <1>6, <1>7, <1>8, <1>9, <1>10, <1>11

LEMMA ReuseInv ==
    ASSUME ConstantsFit, IInv, NEW t \in Turns, Reuse(t)
    PROVE  IInv'
<1> USE DEF ConstantsFit, IInv, Threads, Reuse, At, Step, SameScope, SameSettings
<1>1. work[t].at \in Sessions
  BY DEF TypeOK, WorkRecords, PlaceInv, Placed
<1>2. TypeOK'
  BY <1>1 DEF TypeOK, SessionRecords, WorkRecords, Labels, BudgetRecords
<1>3. PlaceInv' /\ MutexInv'
  BY <1>1 DEF TypeOK, SessionRecords, WorkRecords, PlaceInv, Placed, MutexInv, Holding
<1>4. OwnsInv'
  BY <1>1 DEF TypeOK, SessionRecords, WorkRecords, PlaceInv, Placed, MutexInv, Holding, OwnsInv
<1>5. FailedInv'
  BY <1>1 DEF TypeOK, SessionRecords, WorkRecords, PlaceInv, Placed, MutexInv, Holding, OwnsInv,
     FailedInv, NewInv, Live
<1>6. NewInv'
  BY <1>1 DEF TypeOK, SessionRecords, WorkRecords, PlaceInv, Placed, MutexInv, Holding, NewInv
<1>7. ExpiryInv'
  BY <1>1 DEF TypeOK, SessionRecords, WorkRecords, PlaceInv, Placed, MutexInv, Holding, ExpiryInv
<1>8. DeadInv'
  BY <1>1 DEF TypeOK, SessionRecords, WorkRecords, PlaceInv, Placed, MutexInv, Holding, ExpiryInv,
     DeadInv, ForgottenInv
<1>9. ForgottenInv'
  BY <1>1 DEF TypeOK, SessionRecords, WorkRecords, PlaceInv, Placed, MutexInv, Holding, ForgottenInv
<1>10. TerminalIsAccountedFor'
  BY <1>1 DEF TypeOK, SessionRecords, WorkRecords, PlaceInv, Placed, MutexInv, Holding, FailedInv,
     NewInv, Live, TerminalIsAccountedFor
<1>11. RetainedHasDeadline'
  BY <1>1 DEF TypeOK, SessionRecords, WorkRecords, PlaceInv, Placed, MutexInv, Holding, DeadInv,
     ForgottenInv, RetainedHasDeadline
<1>12. QED
  BY <1>2, <1>3, <1>4, <1>5, <1>6, <1>7, <1>8, <1>9, <1>10, <1>11

(* A session that is failed and unlocked is still a session.               *)
LEMMA FailedRecords ==
    ASSUME NEW r \in SessionRecords
    PROVE  /\ [r EXCEPT !.failed = TRUE, !.mu = None] \in SessionRecords
           /\ [r EXCEPT !.failed = TRUE, !.lease = "dead", !.mu = None] \in SessionRecords
  BY DEF SessionRecords

LEMMA LaunchInv ==
    ASSUME ConstantsFit, IInv, NEW t \in Turns, Launch(t)
    PROVE  IInv'
<1> USE DEF ConstantsFit, IInv, Threads
<1> DEFINE s == work[t].at
<1>1. work[t].pc = "launch" /\ s \in Sessions
  BY DEF Launch, At, TypeOK, WorkRecords, PlaceInv, Placed
<1>2. UNCHANGED <<adapter, registry, name, budget>>
  BY DEF Launch
<1>3. CASE /\ terminal' = [terminal EXCEPT ![s] = "live"]
           /\ Step(t, "register") /\ UNCHANGED session
  <2>1. TypeOK'
    BY <1>1, <1>2, <1>3 DEF Step, TypeOK, SessionRecords, WorkRecords, Labels, BudgetRecords
  <2>2. PlaceInv' /\ MutexInv'
    BY <1>1, <1>2, <1>3 DEF Step, TypeOK, SessionRecords, WorkRecords, PlaceInv, Placed, MutexInv,
       Holding
  <2>3. OwnsInv'
    BY <1>1, <1>2, <1>3 DEF Step, TypeOK, SessionRecords, WorkRecords, PlaceInv, Placed, MutexInv,
       Holding, OwnsInv, SameScope, SameSettings
  <2>4. FailedInv'
    BY <1>1, <1>2, <1>3 DEF Step, TypeOK, SessionRecords, WorkRecords, PlaceInv, Placed, MutexInv,
       Holding, OwnsInv, FailedInv, NewInv, Live
  <2>5. NewInv'
    BY <1>1, <1>2, <1>3 DEF Step, TypeOK, SessionRecords, WorkRecords, PlaceInv, Placed, MutexInv,
       Holding, NewInv
  <2>6. ExpiryInv'
    BY <1>1, <1>2, <1>3 DEF Step, TypeOK, SessionRecords, WorkRecords, PlaceInv, Placed, MutexInv,
       Holding, ExpiryInv
  <2>7. DeadInv'
    BY <1>1, <1>2, <1>3 DEF Step, TypeOK, SessionRecords, WorkRecords, PlaceInv, Placed, MutexInv,
       Holding, ExpiryInv, DeadInv, ForgottenInv
  <2>8. ForgottenInv'
    BY <1>1, <1>2, <1>3 DEF Step, TypeOK, SessionRecords, WorkRecords, PlaceInv, Placed, MutexInv,
       Holding, ForgottenInv
  <2>9. TerminalIsAccountedFor'
    BY <1>1, <1>2, <1>3 DEF Step, TypeOK, SessionRecords, WorkRecords, PlaceInv, Placed, MutexInv,
       Holding, FailedInv, NewInv, Live, TerminalIsAccountedFor
  <2>10. RetainedHasDeadline'
    BY <1>1, <1>2, <1>3 DEF Step, TypeOK, SessionRecords, WorkRecords, PlaceInv, Placed, MutexInv,
       Holding, At, DeadInv, ForgottenInv, RetainedHasDeadline
  <2>11. QED
    BY <2>1, <2>2, <2>3, <2>4, <2>5, <2>6, <2>7, <2>8, <2>9, <2>10
<1>4. CASE /\ \E left \in {"none", "lost"} : terminal' = [terminal EXCEPT ![s] = left]
           /\ session' = [session EXCEPT ![s].failed = TRUE, ![s].mu = None]
           /\ Step(t, "discard")
  <2>1. TypeOK'
    <3>1. session' \in [Sessions -> SessionRecords]
      <4>1. session' = [session EXCEPT ![s] = [session[s] EXCEPT !.failed = TRUE, !.mu = None]]
        BY <1>1, <1>4 DEF Step, TypeOK, SessionRecords
      <4>2. [session[s] EXCEPT !.failed = TRUE, !.mu = None] \in SessionRecords
        BY <1>1, FailedRecords DEF Step, TypeOK
      <4>3. QED
        BY <1>1, <4>1, <4>2 DEF Step, TypeOK
    <3>2. work' \in [Threads -> WorkRecords]
      BY <1>1, <1>4 DEF Step, TypeOK, WorkRecords, Labels
    <3>3. QED
      BY <1>1, <1>2, <1>4, <3>1, <3>2 DEF Step, TypeOK
  <2>2. PlaceInv' /\ MutexInv'
    BY <1>1, <1>2, <1>4 DEF Step, TypeOK, SessionRecords, WorkRecords, PlaceInv, Placed, MutexInv,
       Holding
  <2>3. OwnsInv'
    BY <1>1, <1>2, <1>4 DEF Step, TypeOK, SessionRecords, WorkRecords, PlaceInv, Placed, MutexInv,
       Holding, OwnsInv, SameScope, SameSettings
  <2>4. FailedInv'
    BY <1>1, <1>2, <1>4 DEF Step, TypeOK, SessionRecords, WorkRecords, PlaceInv, Placed, MutexInv,
       Holding, OwnsInv, FailedInv, NewInv, Live
  <2>5. NewInv'
    BY <1>1, <1>2, <1>4 DEF Step, TypeOK, SessionRecords, WorkRecords, PlaceInv, Placed, MutexInv,
       Holding, NewInv
  <2>6. ExpiryInv'
    BY <1>1, <1>2, <1>4 DEF Step, TypeOK, SessionRecords, WorkRecords, PlaceInv, Placed, MutexInv,
       Holding, ExpiryInv
  <2>7. DeadInv'
    BY <1>1, <1>2, <1>4 DEF Step, TypeOK, SessionRecords, WorkRecords, PlaceInv, Placed, MutexInv,
       Holding, ExpiryInv, DeadInv, ForgottenInv
  <2>8. ForgottenInv'
    BY <1>1, <1>2, <1>4 DEF Step, TypeOK, SessionRecords, WorkRecords, PlaceInv, Placed, MutexInv,
       Holding, ForgottenInv
  <2>9. TerminalIsAccountedFor'
    BY <1>1, <1>2, <1>4 DEF Step, TypeOK, SessionRecords, WorkRecords, PlaceInv, Placed, MutexInv,
       Holding, FailedInv, NewInv, Live, TerminalIsAccountedFor
  <2>10. RetainedHasDeadline'
    BY <1>1, <1>2, <1>4 DEF Step, TypeOK, SessionRecords, WorkRecords, PlaceInv, Placed, MutexInv,
       Holding, At, DeadInv, ForgottenInv, RetainedHasDeadline
  <2>11. QED
    BY <2>1, <2>2, <2>3, <2>4, <2>5, <2>6, <2>7, <2>8, <2>9, <2>10
<1>5. QED
  BY <1>3, <1>4 DEF Launch

LEMMA DiscardInv ==
    ASSUME ConstantsFit, IInv, NEW t \in Turns, Discard(t)
    PROVE  IInv'
<1> USE DEF ConstantsFit, IInv, Threads, Discard, At, StepAt, Forget
<1>1. work[t].at \in Sessions
  BY DEF TypeOK, WorkRecords, PlaceInv, Placed
<1>2. TypeOK'
  BY <1>1 DEF TypeOK, SessionRecords, WorkRecords, Labels, BudgetRecords
<1>3. PlaceInv' /\ MutexInv'
  BY <1>1 DEF TypeOK, SessionRecords, WorkRecords, PlaceInv, Placed, MutexInv, Holding
<1>4. OwnsInv'
  BY <1>1 DEF TypeOK, SessionRecords, WorkRecords, PlaceInv, Placed, MutexInv, Holding, OwnsInv,
     SameScope, SameSettings
<1>5. FailedInv'
  BY <1>1 DEF TypeOK, SessionRecords, WorkRecords, PlaceInv, Placed, MutexInv, Holding, OwnsInv,
     FailedInv, NewInv, Live
<1>6. NewInv'
  BY <1>1 DEF TypeOK, SessionRecords, WorkRecords, PlaceInv, Placed, MutexInv, Holding, NewInv
<1>7. ExpiryInv'
  BY <1>1 DEF TypeOK, SessionRecords, WorkRecords, PlaceInv, Placed, MutexInv, Holding, ExpiryInv
<1>8. DeadInv'
  BY <1>1 DEF TypeOK, SessionRecords, WorkRecords, PlaceInv, Placed, MutexInv, Holding, ExpiryInv,
     DeadInv, ForgottenInv
<1>9. ForgottenInv'
  BY <1>1 DEF TypeOK, SessionRecords, WorkRecords, PlaceInv, Placed, MutexInv, Holding, ForgottenInv
<1>10. TerminalIsAccountedFor'
  BY <1>1 DEF TypeOK, SessionRecords, WorkRecords, PlaceInv, Placed, MutexInv, Holding, FailedInv,
     NewInv, Live, TerminalIsAccountedFor
<1>11. RetainedHasDeadline'
  BY <1>1 DEF TypeOK, SessionRecords, WorkRecords, PlaceInv, Placed, MutexInv, Holding, DeadInv,
     ForgottenInv, RetainedHasDeadline
<1>12. QED
  BY <1>2, <1>3, <1>4, <1>5, <1>6, <1>7, <1>8, <1>9, <1>10, <1>11

LEMMA RegisterInv ==
    ASSUME ConstantsFit, IInv, NEW t \in Turns, Register(t)
    PROVE  IInv'
<1> USE DEF ConstantsFit, IInv, Threads, Register, At, Step
<1>1. work[t].at \in Sessions
  BY DEF TypeOK, WorkRecords, PlaceInv, Placed
<1>2. TypeOK'
  BY <1>1 DEF TypeOK, SessionRecords, WorkRecords, Labels, BudgetRecords
<1>3. PlaceInv' /\ MutexInv'
  BY <1>1 DEF TypeOK, SessionRecords, WorkRecords, PlaceInv, Placed, MutexInv, Holding
<1>4. OwnsInv'
  BY <1>1 DEF TypeOK, SessionRecords, WorkRecords, PlaceInv, Placed, MutexInv, Holding, OwnsInv,
     SameScope, SameSettings
<1>5. FailedInv'
  BY <1>1 DEF TypeOK, SessionRecords, WorkRecords, PlaceInv, Placed, MutexInv, Holding, OwnsInv,
     FailedInv, NewInv, Live
<1>6. NewInv'
  BY <1>1 DEF TypeOK, SessionRecords, WorkRecords, PlaceInv, Placed, MutexInv, Holding, NewInv
<1>7. ExpiryInv'
  BY <1>1 DEF TypeOK, SessionRecords, WorkRecords, PlaceInv, Placed, MutexInv, Holding, ExpiryInv
<1>8. DeadInv'
  BY <1>1 DEF TypeOK, SessionRecords, WorkRecords, PlaceInv, Placed, MutexInv, Holding, ExpiryInv,
     DeadInv, ForgottenInv
<1>9. ForgottenInv'
  BY <1>1 DEF TypeOK, SessionRecords, WorkRecords, PlaceInv, Placed, MutexInv, Holding, ForgottenInv
<1>10. TerminalIsAccountedFor'
  BY <1>1 DEF TypeOK, SessionRecords, WorkRecords, PlaceInv, Placed, MutexInv, Holding, FailedInv,
     NewInv, Live, TerminalIsAccountedFor
<1>11. RetainedHasDeadline'
  BY <1>1 DEF TypeOK, SessionRecords, WorkRecords, PlaceInv, Placed, MutexInv, Holding, DeadInv,
     ForgottenInv, RetainedHasDeadline
<1>12. QED
  BY <1>2, <1>3, <1>4, <1>5, <1>6, <1>7, <1>8, <1>9, <1>10, <1>11

-----------------------------------------------------------------------------
(* The turn.                                                               *)
LEMMA StartedInv ==
    ASSUME ConstantsFit, IInv, NEW t \in Turns, Started(t)
    PROVE  IInv'
<1> USE DEF ConstantsFit, IInv, Threads, Started, At, Step, Live
<1>1. work[t].at \in Sessions
  BY DEF TypeOK, WorkRecords, PlaceInv, Placed
<1>2. TypeOK'
  BY <1>1 DEF TypeOK, SessionRecords, WorkRecords, Labels, BudgetRecords
<1>3. PlaceInv' /\ MutexInv'
  BY <1>1 DEF TypeOK, SessionRecords, WorkRecords, PlaceInv, Placed, MutexInv, Holding
<1>4. OwnsInv'
  BY <1>1 DEF TypeOK, SessionRecords, WorkRecords, PlaceInv, Placed, MutexInv, Holding, OwnsInv,
     SameScope, SameSettings
<1>5. FailedInv'
  BY <1>1 DEF TypeOK, SessionRecords, WorkRecords, PlaceInv, Placed, MutexInv, Holding, OwnsInv,
     FailedInv, NewInv
<1>6. NewInv'
  BY <1>1 DEF TypeOK, SessionRecords, WorkRecords, PlaceInv, Placed, MutexInv, Holding, NewInv
<1>7. ExpiryInv'
  BY <1>1 DEF TypeOK, SessionRecords, WorkRecords, PlaceInv, Placed, MutexInv, Holding, ExpiryInv
<1>8. DeadInv'
  BY <1>1 DEF TypeOK, SessionRecords, WorkRecords, PlaceInv, Placed, MutexInv, Holding, ExpiryInv,
     DeadInv, ForgottenInv
<1>9. ForgottenInv'
  BY <1>1 DEF TypeOK, SessionRecords, WorkRecords, PlaceInv, Placed, MutexInv, Holding, ForgottenInv
<1>10. TerminalIsAccountedFor'
  BY <1>1 DEF TypeOK, SessionRecords, WorkRecords, PlaceInv, Placed, MutexInv, Holding, FailedInv,
     NewInv, TerminalIsAccountedFor
<1>11. RetainedHasDeadline'
  BY <1>1 DEF TypeOK, SessionRecords, WorkRecords, PlaceInv, Placed, MutexInv, Holding, DeadInv,
     ForgottenInv, RetainedHasDeadline
<1>12. QED
  BY <1>2, <1>3, <1>4, <1>5, <1>6, <1>7, <1>8, <1>9, <1>10, <1>11

LEMMA PromptedInv ==
    ASSUME ConstantsFit, IInv, NEW t \in Turns, Prompted(t)
    PROVE  IInv'
<1> USE DEF ConstantsFit, IInv, Threads, Prompted, At, Step, Live
<1>1. work[t].at \in Sessions
  BY DEF TypeOK, WorkRecords, PlaceInv, Placed
<1>2. TypeOK'
  BY <1>1 DEF TypeOK, SessionRecords, WorkRecords, Labels, BudgetRecords
<1>3. PlaceInv' /\ MutexInv'
  BY <1>1 DEF TypeOK, SessionRecords, WorkRecords, PlaceInv, Placed, MutexInv, Holding
<1>4. OwnsInv'
  BY <1>1 DEF TypeOK, SessionRecords, WorkRecords, PlaceInv, Placed, MutexInv, Holding, OwnsInv,
     SameScope, SameSettings
<1>5. FailedInv'
  BY <1>1 DEF TypeOK, SessionRecords, WorkRecords, PlaceInv, Placed, MutexInv, Holding, OwnsInv,
     FailedInv, NewInv
<1>6. NewInv'
  BY <1>1 DEF TypeOK, SessionRecords, WorkRecords, PlaceInv, Placed, MutexInv, Holding, NewInv
<1>7. ExpiryInv'
  BY <1>1 DEF TypeOK, SessionRecords, WorkRecords, PlaceInv, Placed, MutexInv, Holding, ExpiryInv
<1>8. DeadInv'
  BY <1>1 DEF TypeOK, SessionRecords, WorkRecords, PlaceInv, Placed, MutexInv, Holding, ExpiryInv,
     DeadInv, ForgottenInv
<1>9. ForgottenInv'
  BY <1>1 DEF TypeOK, SessionRecords, WorkRecords, PlaceInv, Placed, MutexInv, Holding, ForgottenInv
<1>10. TerminalIsAccountedFor'
  BY <1>1 DEF TypeOK, SessionRecords, WorkRecords, PlaceInv, Placed, MutexInv, Holding, FailedInv,
     NewInv, TerminalIsAccountedFor
<1>11. RetainedHasDeadline'
  BY <1>1 DEF TypeOK, SessionRecords, WorkRecords, PlaceInv, Placed, MutexInv, Holding, DeadInv,
     ForgottenInv, RetainedHasDeadline
<1>12. QED
  BY <1>2, <1>3, <1>4, <1>5, <1>6, <1>7, <1>8, <1>9, <1>10, <1>11

LEMMA EndedInv ==
    ASSUME ConstantsFit, IInv, NEW t \in Turns, Ended(t)
    PROVE  IInv'
<1> USE DEF ConstantsFit, IInv, Threads, Ended, At, Step
<1>1. work[t].at \in Sessions
  BY DEF TypeOK, WorkRecords, PlaceInv, Placed
<1>2. TypeOK'
  BY <1>1 DEF TypeOK, SessionRecords, WorkRecords, Labels, BudgetRecords
<1>3. PlaceInv' /\ MutexInv'
  BY <1>1 DEF TypeOK, SessionRecords, WorkRecords, PlaceInv, Placed, MutexInv, Holding
<1>4. OwnsInv'
  BY <1>1 DEF TypeOK, SessionRecords, WorkRecords, PlaceInv, Placed, MutexInv, Holding, OwnsInv,
     SameScope, SameSettings
<1>5. FailedInv'
  BY <1>1 DEF TypeOK, SessionRecords, WorkRecords, PlaceInv, Placed, MutexInv, Holding, OwnsInv,
     FailedInv, NewInv, Live
<1>6. NewInv'
  BY <1>1 DEF TypeOK, SessionRecords, WorkRecords, PlaceInv, Placed, MutexInv, Holding, NewInv
<1>7. ExpiryInv'
  BY <1>1 DEF TypeOK, SessionRecords, WorkRecords, PlaceInv, Placed, MutexInv, Holding, ExpiryInv
<1>8. DeadInv'
  BY <1>1 DEF TypeOK, SessionRecords, WorkRecords, PlaceInv, Placed, MutexInv, Holding, ExpiryInv,
     DeadInv, ForgottenInv
<1>9. ForgottenInv'
  BY <1>1 DEF TypeOK, SessionRecords, WorkRecords, PlaceInv, Placed, MutexInv, Holding, ForgottenInv
<1>10. TerminalIsAccountedFor'
  BY <1>1 DEF TypeOK, SessionRecords, WorkRecords, PlaceInv, Placed, MutexInv, Holding, FailedInv,
     NewInv, Live, TerminalIsAccountedFor
<1>11. RetainedHasDeadline'
  BY <1>1 DEF TypeOK, SessionRecords, WorkRecords, PlaceInv, Placed, MutexInv, Holding, DeadInv,
     ForgottenInv, RetainedHasDeadline
<1>12. QED
  BY <1>2, <1>3, <1>4, <1>5, <1>6, <1>7, <1>8, <1>9, <1>10, <1>11

LEMMA FailInv ==
    ASSUME ConstantsFit, IInv, NEW t \in Turns, Fail(t)
    PROVE  IInv'
<1> USE DEF ConstantsFit, IInv, Threads, Fail, At, Step, Live
<1>1. work[t].at \in Sessions
  BY DEF TypeOK, WorkRecords, PlaceInv, Placed
<1>2. TypeOK'
  <2> DEFINE r == [session[work[t].at] EXCEPT !.failed = TRUE, !.lease = "dead", !.mu = None]
  <2>1. r \in SessionRecords
    BY <1>1, FailedRecords DEF TypeOK
  <2>2. session' = [session EXCEPT ![work[t].at] = r]
    BY <1>1 DEF TypeOK, SessionRecords
  <2>3. work' \in [Threads -> WorkRecords]
    BY <1>1 DEF TypeOK, WorkRecords, Labels
  <2>4. UNCHANGED <<adapter, registry, name, terminal, budget>>
    OBVIOUS
  <2> HIDE DEF r
  <2>5. QED
    BY <1>1, <2>1, <2>2, <2>3, <2>4 DEF TypeOK
<1>3. PlaceInv' /\ MutexInv'
  BY <1>1 DEF TypeOK, SessionRecords, WorkRecords, PlaceInv, Placed, MutexInv, Holding
<1>4. OwnsInv'
  BY <1>1 DEF TypeOK, SessionRecords, WorkRecords, PlaceInv, Placed, MutexInv, Holding, OwnsInv,
     SameScope, SameSettings
<1>5. FailedInv'
  BY <1>1 DEF TypeOK, SessionRecords, WorkRecords, PlaceInv, Placed, MutexInv, Holding, OwnsInv,
     FailedInv, NewInv
<1>6. NewInv'
  BY <1>1 DEF TypeOK, SessionRecords, WorkRecords, PlaceInv, Placed, MutexInv, Holding, NewInv
<1>7. ExpiryInv'
  BY <1>1 DEF TypeOK, SessionRecords, WorkRecords, PlaceInv, Placed, MutexInv, Holding, ExpiryInv
<1>8. DeadInv'
  BY <1>1 DEF TypeOK, SessionRecords, WorkRecords, PlaceInv, Placed, MutexInv, Holding, ExpiryInv,
     DeadInv, ForgottenInv
<1>9. ForgottenInv'
  BY <1>1 DEF TypeOK, SessionRecords, WorkRecords, PlaceInv, Placed, MutexInv, Holding, ForgottenInv
<1>10. TerminalIsAccountedFor'
  BY <1>1 DEF TypeOK, SessionRecords, WorkRecords, PlaceInv, Placed, MutexInv, Holding, FailedInv,
     NewInv, TerminalIsAccountedFor
<1>11. RetainedHasDeadline'
  BY <1>1 DEF TypeOK, SessionRecords, WorkRecords, PlaceInv, Placed, MutexInv, Holding, DeadInv,
     ForgottenInv, RetainedHasDeadline
<1>12. QED
  BY <1>2, <1>3, <1>4, <1>5, <1>6, <1>7, <1>8, <1>9, <1>10, <1>11

LEMMA DropInv ==
    ASSUME ConstantsFit, IInv, NEW t \in Turns, Drop(t)
    PROVE  IInv'
<1> USE DEF ConstantsFit, IInv, Threads, Drop, At, Step, Forget
<1>1. work[t].at \in Sessions
  BY DEF TypeOK, WorkRecords, PlaceInv, Placed
<1>2. TypeOK'
  BY <1>1 DEF TypeOK, SessionRecords, WorkRecords, Labels, BudgetRecords
<1>3. PlaceInv' /\ MutexInv'
  BY <1>1 DEF TypeOK, SessionRecords, WorkRecords, PlaceInv, Placed, MutexInv, Holding
<1>4. OwnsInv'
  BY <1>1 DEF TypeOK, SessionRecords, WorkRecords, PlaceInv, Placed, MutexInv, Holding, OwnsInv,
     SameScope, SameSettings
<1>5. FailedInv'
  BY <1>1 DEF TypeOK, SessionRecords, WorkRecords, PlaceInv, Placed, MutexInv, Holding, OwnsInv,
     FailedInv, NewInv, Live
<1>6. NewInv'
  <2>1. /\ \A u \in Threads \ {t} : work'[u] = work[u]
        /\ work'[t].pc = "scrap" /\ work[t].pc = "drop"
    BY DEF TypeOK, WorkRecords
  <2>2. \A u \in Turns : work[u].pc = "launch" => work[u].at # work[t].at
    BY DEF OwnsInv, FailedInv
  <2>3. registry' = IF registry = work[t].at THEN None ELSE registry
    OBVIOUS
  <2>4. QED
    BY <1>1, <2>1, <2>2, <2>3 DEF NewInv
<1>7. ExpiryInv'
  BY <1>1 DEF TypeOK, SessionRecords, WorkRecords, PlaceInv, Placed, MutexInv, Holding, ExpiryInv
<1>8. DeadInv'
  BY <1>1 DEF TypeOK, SessionRecords, WorkRecords, PlaceInv, Placed, MutexInv, Holding, ExpiryInv,
     DeadInv, ForgottenInv
<1>9. ForgottenInv'
  BY <1>1 DEF TypeOK, SessionRecords, WorkRecords, PlaceInv, Placed, MutexInv, Holding, ForgottenInv
<1>10. TerminalIsAccountedFor'
  BY <1>1 DEF TypeOK, SessionRecords, WorkRecords, PlaceInv, Placed, MutexInv, Holding, FailedInv,
     NewInv, Live, TerminalIsAccountedFor
<1>11. RetainedHasDeadline'
  BY <1>1 DEF TypeOK, SessionRecords, WorkRecords, PlaceInv, Placed, MutexInv, Holding, DeadInv,
     ForgottenInv, RetainedHasDeadline
<1>12. QED
  BY <1>2, <1>3, <1>4, <1>5, <1>6, <1>7, <1>8, <1>9, <1>10, <1>11

LEMMA ScrapInv ==
    ASSUME ConstantsFit, IInv, NEW t \in Turns, Scrap(t)
    PROVE  IInv'
<1> USE DEF ConstantsFit, IInv, Threads, Scrap, At, StepAt, Unregister
<1>1. work[t].at \in Sessions
  BY DEF TypeOK, WorkRecords, PlaceInv, Placed
<1>2. TypeOK'
  BY <1>1 DEF TypeOK, SessionRecords, WorkRecords, Labels, BudgetRecords
<1>3. PlaceInv' /\ MutexInv'
  BY <1>1 DEF TypeOK, SessionRecords, WorkRecords, PlaceInv, Placed, MutexInv, Holding
<1>4. OwnsInv'
  BY <1>1 DEF TypeOK, SessionRecords, WorkRecords, PlaceInv, Placed, MutexInv, Holding, OwnsInv,
     SameScope, SameSettings
<1>5. FailedInv'
  BY <1>1 DEF TypeOK, SessionRecords, WorkRecords, PlaceInv, Placed, MutexInv, Holding, OwnsInv,
     FailedInv, NewInv, Live
<1>6. NewInv'
  BY <1>1 DEF TypeOK, SessionRecords, WorkRecords, PlaceInv, Placed, MutexInv, Holding, NewInv
<1>7. ExpiryInv'
  BY <1>1 DEF TypeOK, SessionRecords, WorkRecords, PlaceInv, Placed, MutexInv, Holding, ExpiryInv
<1>8. DeadInv'
  BY <1>1 DEF TypeOK, SessionRecords, WorkRecords, PlaceInv, Placed, MutexInv, Holding, ExpiryInv,
     DeadInv, ForgottenInv
<1>9. ForgottenInv'
  BY <1>1 DEF TypeOK, SessionRecords, WorkRecords, PlaceInv, Placed, MutexInv, Holding, ForgottenInv
<1>10. TerminalIsAccountedFor'
  BY <1>1 DEF TypeOK, SessionRecords, WorkRecords, PlaceInv, Placed, MutexInv, Holding, FailedInv,
     NewInv, Live, TerminalIsAccountedFor
<1>11. RetainedHasDeadline'
  BY <1>1 DEF TypeOK, SessionRecords, WorkRecords, PlaceInv, Placed, MutexInv, Holding, DeadInv,
     ForgottenInv, RetainedHasDeadline
<1>12. QED
  BY <1>2, <1>3, <1>4, <1>5, <1>6, <1>7, <1>8, <1>9, <1>10, <1>11

LEMMA ReleaseInv ==
    ASSUME ConstantsFit, IInv, NEW t \in Turns, Release(t)
    PROVE  IInv'
<1> USE DEF ConstantsFit, IInv, Threads, Release, At, StepAt
<1>1. work[t].at \in Sessions
  BY DEF TypeOK, WorkRecords, PlaceInv, Placed
<1>2. TypeOK'
  BY <1>1 DEF TypeOK, SessionRecords, WorkRecords, Labels, BudgetRecords
<1>3. PlaceInv' /\ MutexInv'
  BY <1>1 DEF TypeOK, SessionRecords, WorkRecords, PlaceInv, Placed, MutexInv, Holding
<1>4. OwnsInv'
  BY <1>1 DEF TypeOK, SessionRecords, WorkRecords, PlaceInv, Placed, MutexInv, Holding, OwnsInv,
     SameScope, SameSettings
<1>5. FailedInv'
  BY <1>1 DEF TypeOK, SessionRecords, WorkRecords, PlaceInv, Placed, MutexInv, Holding, OwnsInv,
     FailedInv, NewInv, Live
<1>6. NewInv'
  BY <1>1 DEF TypeOK, SessionRecords, WorkRecords, PlaceInv, Placed, MutexInv, Holding, NewInv
<1>7. ExpiryInv'
  BY <1>1 DEF TypeOK, SessionRecords, WorkRecords, PlaceInv, Placed, MutexInv, Holding, ExpiryInv
<1>8. DeadInv'
  BY <1>1 DEF TypeOK, SessionRecords, WorkRecords, PlaceInv, Placed, MutexInv, Holding, ExpiryInv,
     DeadInv, ForgottenInv
<1>9. ForgottenInv'
  BY <1>1 DEF TypeOK, SessionRecords, WorkRecords, PlaceInv, Placed, MutexInv, Holding, ForgottenInv
<1>10. TerminalIsAccountedFor'
  BY <1>1 DEF TypeOK, SessionRecords, WorkRecords, PlaceInv, Placed, MutexInv, Holding, FailedInv,
     NewInv, Live, TerminalIsAccountedFor
<1>11. RetainedHasDeadline'
  BY <1>1 DEF TypeOK, SessionRecords, WorkRecords, PlaceInv, Placed, MutexInv, Holding, DeadInv,
     ForgottenInv, RetainedHasDeadline
<1>12. QED
  BY <1>2, <1>3, <1>4, <1>5, <1>6, <1>7, <1>8, <1>9, <1>10, <1>11

LEMMA LeaveInv ==
    ASSUME ConstantsFit, IInv, NEW t \in Turns, Leave(t)
    PROVE  IInv'
<1> USE DEF ConstantsFit, IInv, Threads
<1>1. work[t].pc = "return" /\ work[t].at = None
  BY DEF Leave, At, TypeOK, WorkRecords, PlaceInv, Placed
<1>2. UNCHANGED <<adapter, registry, name, session, terminal, budget>>
  BY DEF Leave
<1>3. work' \in [Threads -> WorkRecords]
  BY DEF Leave, Return, Idle, TypeOK, WorkRecords, Labels
<1>4. /\ \A u \in Threads \ {t} : work'[u] = work[u]
      /\ work'[t].at = None /\ work'[t].pc \in {"idle", "delete"}
  BY DEF Leave, Return, Idle, TypeOK
<1>5. TypeOK'
  BY <1>1, <1>2, <1>3, <1>4 DEF TypeOK, SessionRecords, WorkRecords, Labels, BudgetRecords
<1>6. PlaceInv' /\ MutexInv'
  BY <1>1, <1>2, <1>3, <1>4 DEF TypeOK, SessionRecords, WorkRecords, PlaceInv, Placed, MutexInv,
     Holding
<1>7. OwnsInv'
  BY <1>1, <1>2, <1>3, <1>4 DEF TypeOK, SessionRecords, WorkRecords, PlaceInv, Placed, MutexInv,
     Holding, OwnsInv, SameScope, SameSettings
<1>8. FailedInv'
  BY <1>1, <1>2, <1>3, <1>4 DEF TypeOK, SessionRecords, WorkRecords, PlaceInv, Placed, MutexInv,
     Holding, OwnsInv, FailedInv, NewInv, Live
<1>9. NewInv'
  BY <1>1, <1>2, <1>3, <1>4 DEF TypeOK, SessionRecords, WorkRecords, PlaceInv, Placed, MutexInv,
     Holding, NewInv
<1>10. ExpiryInv'
  BY <1>1, <1>2, <1>3, <1>4 DEF TypeOK, SessionRecords, WorkRecords, PlaceInv, Placed, MutexInv,
     Holding, ExpiryInv
<1>11. DeadInv'
  BY <1>1, <1>2, <1>3, <1>4 DEF TypeOK, SessionRecords, WorkRecords, PlaceInv, Placed, MutexInv,
     Holding, ExpiryInv, DeadInv, ForgottenInv
<1>12. ForgottenInv'
  BY <1>1, <1>2, <1>3, <1>4 DEF TypeOK, SessionRecords, WorkRecords, PlaceInv, Placed, MutexInv,
     Holding, ForgottenInv
<1>13. TerminalIsAccountedFor'
  BY <1>1, <1>2, <1>3, <1>4 DEF TypeOK, SessionRecords, WorkRecords, PlaceInv, Placed, MutexInv,
     Holding, FailedInv, NewInv, Live, TerminalIsAccountedFor
<1>14. RetainedHasDeadline'
  BY <1>1, <1>2, <1>3, <1>4 DEF TypeOK, SessionRecords, WorkRecords, PlaceInv, Placed, MutexInv,
     Holding, At, DeadInv, ForgottenInv, RetainedHasDeadline
<1>15. QED
  BY <1>5, <1>6, <1>7, <1>8, <1>9, <1>10, <1>11, <1>12, <1>13, <1>14

-----------------------------------------------------------------------------
(* Closes by owner.                                                        *)
LEMMA CloseInv ==
    ASSUME ConstantsFit, IInv, NEW c \in Closers, Close(c)
    PROVE  IInv'
<1> USE DEF ConstantsFit, IInv, Threads, Close, At, Step
<1>1. work[c].at = None
  BY DEF TypeOK, WorkRecords, PlaceInv, Placed
<1>2. TypeOK'
  BY <1>1 DEF TypeOK, SessionRecords, WorkRecords, Labels, BudgetRecords
<1>3. PlaceInv' /\ MutexInv'
  BY <1>1 DEF TypeOK, SessionRecords, WorkRecords, PlaceInv, Placed, MutexInv, Holding
<1>4. OwnsInv'
  BY <1>1 DEF TypeOK, SessionRecords, WorkRecords, PlaceInv, Placed, MutexInv, Holding, OwnsInv,
     SameScope, SameSettings
<1>5. FailedInv'
  BY <1>1 DEF TypeOK, SessionRecords, WorkRecords, PlaceInv, Placed, MutexInv, Holding, OwnsInv,
     FailedInv, NewInv, Live
<1>6. NewInv'
  BY <1>1 DEF TypeOK, SessionRecords, WorkRecords, PlaceInv, Placed, MutexInv, Holding, NewInv
<1>7. ExpiryInv'
  BY <1>1 DEF TypeOK, SessionRecords, WorkRecords, PlaceInv, Placed, MutexInv, Holding, ExpiryInv
<1>8. DeadInv'
  BY <1>1 DEF TypeOK, SessionRecords, WorkRecords, PlaceInv, Placed, MutexInv, Holding, ExpiryInv,
     DeadInv, ForgottenInv
<1>9. ForgottenInv'
  BY <1>1 DEF TypeOK, SessionRecords, WorkRecords, PlaceInv, Placed, MutexInv, Holding, ForgottenInv
<1>10. TerminalIsAccountedFor'
  BY <1>1 DEF TypeOK, SessionRecords, WorkRecords, PlaceInv, Placed, MutexInv, Holding, FailedInv,
     NewInv, Live, TerminalIsAccountedFor
<1>11. RetainedHasDeadline'
  BY <1>1 DEF TypeOK, SessionRecords, WorkRecords, PlaceInv, Placed, MutexInv, Holding, DeadInv,
     ForgottenInv, RetainedHasDeadline
<1>12. QED
  BY <1>2, <1>3, <1>4, <1>5, <1>6, <1>7, <1>8, <1>9, <1>10, <1>11

(* A goroutine that is done with a close goes on where it came from.       *)
LEMMA ResumedGoesOn ==
    ASSUME TypeOK, NEW c \in Threads, Resumed(c)
    PROVE  /\ work' \in [Threads -> WorkRecords]
           /\ \A u \in Threads \ {c} : work'[u] = work[u]
           /\ work'[c].at = None /\ work'[c].pc \in {"idle", "acquire"}
<1>1. work \in [Threads -> WorkRecords] /\ work[c].next \in {"idle", "acquire"}
  BY DEF TypeOK, WorkRecords
<1>2. CASE work[c].next = "idle"
  <2>1. work' = [work EXCEPT ![c] = Idle]
    BY <1>2 DEF Resumed
  <2>2. Idle \in WorkRecords /\ Idle.at = None /\ Idle.pc = "idle"
    BY DEF Idle, WorkRecords, Labels
  <2>3. QED
    BY <1>1, <2>1, <2>2
<1>3. CASE work[c].next = "acquire"
  <2> DEFINE r == [work[c] EXCEPT !.pc = "acquire", !.next = "idle", !.at = None]
  <2>1. work' = [work EXCEPT ![c] = r]
    BY <1>1, <1>3 DEF Resumed
  <2>2. r \in WorkRecords /\ r.at = None /\ r.pc = "acquire"
    BY <1>1 DEF WorkRecords, Labels
  <2> HIDE DEF r
  <2>3. QED
    BY <1>1, <2>1, <2>2
<1>4. QED
  BY <1>1, <1>2, <1>3

LEMMA DeleteInv ==
    ASSUME ConstantsFit, IInv, NEW c \in Turns \cup Closers \cup Sessions, Delete(c)
    PROVE  IInv'
<1> USE DEF ConstantsFit, IInv, Threads
<1>1. work[c].pc = "delete" /\ work[c].at = None
  BY DEF Delete, At, TypeOK, WorkRecords, PlaceInv, Placed
<1>2. registry' = None /\ UNCHANGED <<adapter, name, session, terminal, budget>>
  BY DEF Delete
<1>3. /\ work' \in [Threads -> WorkRecords]
      /\ \A u \in Threads \ {c} : work'[u] = work[u]
      /\ \/ registry = None /\ work'[c].at = None /\ work'[c].pc \in {"idle", "acquire"}
         \/ registry # None /\ work'[c].at = registry /\ work'[c].pc = "wait"
  <2>1. CASE registry = None
    BY <2>1, ResumedGoesOn DEF Delete
  <2>2. CASE registry # None
    BY <2>2 DEF Delete, StepAt, TypeOK, WorkRecords, Labels
  <2>3. QED
    BY <2>1, <2>2
<1>4. TypeOK'
  BY <1>1, <1>2, <1>3 DEF TypeOK, SessionRecords, WorkRecords, Labels, BudgetRecords
<1>5. PlaceInv' /\ MutexInv'
  BY <1>1, <1>2, <1>3 DEF TypeOK, SessionRecords, WorkRecords, PlaceInv, Placed, MutexInv, Holding
<1>6. OwnsInv'
  BY <1>1, <1>2, <1>3 DEF TypeOK, SessionRecords, WorkRecords, PlaceInv, Placed, MutexInv, Holding,
     OwnsInv, SameScope, SameSettings
<1>7. FailedInv'
  BY <1>1, <1>2, <1>3 DEF TypeOK, SessionRecords, WorkRecords, PlaceInv, Placed, MutexInv, Holding,
     OwnsInv, FailedInv, NewInv, Live
<1>8. NewInv'
  BY <1>1, <1>2, <1>3 DEF TypeOK, SessionRecords, WorkRecords, PlaceInv, Placed, MutexInv, Holding,
     NewInv
<1>9. ExpiryInv'
  BY <1>1, <1>2, <1>3 DEF TypeOK, SessionRecords, WorkRecords, PlaceInv, Placed, MutexInv, Holding,
     ExpiryInv
<1>10. DeadInv'
  BY <1>1, <1>2, <1>3 DEF TypeOK, SessionRecords, WorkRecords, PlaceInv, Placed, MutexInv, Holding,
     ExpiryInv, DeadInv, ForgottenInv
<1>11. ForgottenInv'
  BY <1>1, <1>2, <1>3 DEF TypeOK, SessionRecords, WorkRecords, PlaceInv, Placed, MutexInv, Holding,
     ForgottenInv
<1>12. TerminalIsAccountedFor'
  BY SMTT(30), <1>1, <1>2, <1>3 DEF TypeOK, SessionRecords, WorkRecords, PlaceInv, Placed, MutexInv, Holding,
     FailedInv, NewInv, Live, TerminalIsAccountedFor
<1>13. RetainedHasDeadline'
  BY <1>1, <1>2, <1>3 DEF TypeOK, SessionRecords, WorkRecords, PlaceInv, Placed, MutexInv, Holding,
     At, DeadInv, ForgottenInv, RetainedHasDeadline
<1>14. QED
  BY <1>4, <1>5, <1>6, <1>7, <1>8, <1>9, <1>10, <1>11, <1>12, <1>13

LEMMA LockInv ==
    ASSUME ConstantsFit, IInv, NEW c \in Turns \cup Closers \cup Sessions, Lock(c)
    PROVE  IInv'
<1> USE DEF ConstantsFit, IInv, Threads, Lock, At, Step
<1>1. work[c].at \in Sessions
  BY DEF TypeOK, WorkRecords, PlaceInv, Placed
<1>2. TypeOK'
  <2>1. session' \in [Sessions -> SessionRecords]
    BY <1>1 DEF TypeOK, SessionRecords
  <2>2. work' \in [Threads -> WorkRecords]
    BY <1>1 DEF TypeOK, WorkRecords, Labels
  <2>3. QED
    BY <1>1, <2>1, <2>2 DEF TypeOK
<1>3. PlaceInv' /\ MutexInv'
  BY <1>1 DEF TypeOK, SessionRecords, WorkRecords, PlaceInv, Placed, MutexInv, Holding
<1>4. OwnsInv'
  BY <1>1 DEF TypeOK, SessionRecords, WorkRecords, PlaceInv, Placed, MutexInv, Holding, OwnsInv,
     SameScope, SameSettings
<1>5. FailedInv'
  BY <1>1 DEF TypeOK, SessionRecords, WorkRecords, PlaceInv, Placed, MutexInv, Holding, OwnsInv,
     FailedInv, NewInv, Live
<1>6. NewInv'
  BY <1>1 DEF TypeOK, SessionRecords, WorkRecords, PlaceInv, Placed, MutexInv, Holding, NewInv
<1>7. ExpiryInv'
  BY <1>1 DEF TypeOK, SessionRecords, WorkRecords, PlaceInv, Placed, MutexInv, Holding, ExpiryInv
<1>8. DeadInv'
  BY <1>1 DEF TypeOK, SessionRecords, WorkRecords, PlaceInv, Placed, MutexInv, Holding, ExpiryInv,
     DeadInv, ForgottenInv
<1>9. ForgottenInv'
  BY <1>1 DEF TypeOK, SessionRecords, WorkRecords, PlaceInv, Placed, MutexInv, Holding, ForgottenInv
<1>10. TerminalIsAccountedFor'
  BY <1>1 DEF TypeOK, SessionRecords, WorkRecords, PlaceInv, Placed, MutexInv, Holding, FailedInv,
     NewInv, Live, TerminalIsAccountedFor
<1>11. RetainedHasDeadline'
  BY <1>1 DEF TypeOK, SessionRecords, WorkRecords, PlaceInv, Placed, MutexInv, Holding, DeadInv,
     ForgottenInv, RetainedHasDeadline
<1>12. QED
  BY <1>2, <1>3, <1>4, <1>5, <1>6, <1>7, <1>8, <1>9, <1>10, <1>11

LEMMA UnlistInv ==
    ASSUME ConstantsFit, IInv, NEW c \in Turns \cup Closers \cup Sessions, Unlist(c)
    PROVE  IInv'
<1> USE DEF ConstantsFit, IInv, Threads, Unlist, At, Step, Unregister
<1>1. work[c].at \in Sessions
  BY DEF TypeOK, WorkRecords, PlaceInv, Placed
<1>2. TypeOK'
  BY <1>1 DEF TypeOK, SessionRecords, WorkRecords, Labels, BudgetRecords
<1>3. PlaceInv' /\ MutexInv'
  BY <1>1 DEF TypeOK, SessionRecords, WorkRecords, PlaceInv, Placed, MutexInv, Holding
<1>4. OwnsInv'
  BY <1>1 DEF TypeOK, SessionRecords, WorkRecords, PlaceInv, Placed, MutexInv, Holding, OwnsInv,
     SameScope, SameSettings
<1>5. FailedInv'
  BY <1>1 DEF TypeOK, SessionRecords, WorkRecords, PlaceInv, Placed, MutexInv, Holding, OwnsInv,
     FailedInv, NewInv, Live
<1>6. NewInv'
  BY <1>1 DEF TypeOK, SessionRecords, WorkRecords, PlaceInv, Placed, MutexInv, Holding, NewInv
<1>7. ExpiryInv'
  BY <1>1 DEF TypeOK, SessionRecords, WorkRecords, PlaceInv, Placed, MutexInv, Holding, ExpiryInv
<1>8. DeadInv'
  BY <1>1 DEF TypeOK, SessionRecords, WorkRecords, PlaceInv, Placed, MutexInv, Holding, ExpiryInv,
     DeadInv, ForgottenInv
<1>9. ForgottenInv'
  BY <1>1 DEF TypeOK, SessionRecords, WorkRecords, PlaceInv, Placed, MutexInv, Holding, ForgottenInv
<1>10. TerminalIsAccountedFor'
  BY <1>1 DEF TypeOK, SessionRecords, WorkRecords, PlaceInv, Placed, MutexInv, Holding, FailedInv,
     NewInv, Live, TerminalIsAccountedFor
<1>11. RetainedHasDeadline'
  BY <1>1 DEF TypeOK, SessionRecords, WorkRecords, PlaceInv, Placed, MutexInv, Holding, DeadInv,
     ForgottenInv, RetainedHasDeadline
<1>12. QED
  BY <1>2, <1>3, <1>4, <1>5, <1>6, <1>7, <1>8, <1>9, <1>10, <1>11

LEMMA KillInv ==
    ASSUME ConstantsFit, IInv, NEW c \in Turns \cup Closers \cup Sessions, Kill(c)
    PROVE  IInv'
<1> USE DEF ConstantsFit, IInv, Threads, Kill, At, Idle, Live, Resumed, Typing
<1>1. work[c].at \in Sessions
  BY DEF TypeOK, WorkRecords, PlaceInv, Placed
<1>2. TypeOK'
  <2>1. session' \in [Sessions -> SessionRecords]
    BY <1>1 DEF TypeOK, SessionRecords
  <2>2. work' \in [Threads -> WorkRecords]
    BY ResumedGoesOn
  <2>3. QED
    BY <1>1, <2>1, <2>2 DEF TypeOK
<1>3. PlaceInv' /\ MutexInv'
  BY <1>1 DEF TypeOK, SessionRecords, WorkRecords, PlaceInv, Placed, MutexInv, Holding
<1>4. OwnsInv'
  BY <1>1 DEF TypeOK, SessionRecords, WorkRecords, PlaceInv, Placed, MutexInv, Holding, OwnsInv,
     SameScope, SameSettings
<1>5. FailedInv'
  BY <1>1 DEF TypeOK, SessionRecords, WorkRecords, PlaceInv, Placed, MutexInv, Holding, OwnsInv,
     FailedInv, NewInv
<1>6. NewInv'
  BY <1>1 DEF TypeOK, SessionRecords, WorkRecords, PlaceInv, Placed, MutexInv, Holding, NewInv
<1>7. ExpiryInv'
  BY <1>1 DEF TypeOK, SessionRecords, WorkRecords, PlaceInv, Placed, MutexInv, Holding, ExpiryInv
<1>8. DeadInv'
  BY <1>1 DEF TypeOK, SessionRecords, WorkRecords, PlaceInv, Placed, MutexInv, Holding, ExpiryInv,
     DeadInv, ForgottenInv
<1>9. ForgottenInv'
  BY <1>1 DEF TypeOK, SessionRecords, WorkRecords, PlaceInv, Placed, MutexInv, Holding, ForgottenInv
<1>10. TerminalIsAccountedFor'
  BY <1>1 DEF TypeOK, SessionRecords, WorkRecords, PlaceInv, Placed, MutexInv, Holding, FailedInv,
     NewInv, TerminalIsAccountedFor
<1>11. RetainedHasDeadline'
  BY <1>1 DEF TypeOK, SessionRecords, WorkRecords, PlaceInv, Placed, MutexInv, Holding, DeadInv,
     ForgottenInv, RetainedHasDeadline
<1>12. QED
  BY <1>2, <1>3, <1>4, <1>5, <1>6, <1>7, <1>8, <1>9, <1>10, <1>11

-----------------------------------------------------------------------------
(* Expiry, terminals killed from outside and live input.                   *)
LEMMA ElapseInv ==
    ASSUME ConstantsFit, IInv, NEW s \in Sessions, Elapse(s)
    PROVE  IInv'
<1> USE DEF ConstantsFit, IInv, Threads, Elapse
<1>1. TypeOK'
  BY DEF TypeOK, SessionRecords, WorkRecords, Labels, BudgetRecords
<1>2. PlaceInv' /\ MutexInv'
  BY DEF TypeOK, SessionRecords, WorkRecords, PlaceInv, Placed, MutexInv, Holding
<1>3. OwnsInv'
  BY DEF TypeOK, SessionRecords, WorkRecords, PlaceInv, Placed, MutexInv, Holding, OwnsInv,
     SameScope, SameSettings
<1>4. FailedInv'
  BY DEF TypeOK, SessionRecords, WorkRecords, PlaceInv, Placed, MutexInv, Holding, OwnsInv,
     FailedInv, NewInv, Live
<1>5. NewInv'
  BY DEF TypeOK, SessionRecords, WorkRecords, PlaceInv, Placed, MutexInv, Holding, NewInv
<1>6. ExpiryInv'
  BY DEF TypeOK, SessionRecords, WorkRecords, PlaceInv, Placed, MutexInv, Holding, ExpiryInv
<1>7. DeadInv'
  BY DEF TypeOK, SessionRecords, WorkRecords, PlaceInv, Placed, MutexInv, Holding, ExpiryInv,
     DeadInv, ForgottenInv
<1>8. ForgottenInv'
  BY DEF TypeOK, SessionRecords, WorkRecords, PlaceInv, Placed, MutexInv, Holding, ForgottenInv
<1>9. TerminalIsAccountedFor'
  BY DEF TypeOK, SessionRecords, WorkRecords, PlaceInv, Placed, MutexInv, Holding, FailedInv,
     NewInv, Live, TerminalIsAccountedFor
<1>10. RetainedHasDeadline'
  BY DEF TypeOK, SessionRecords, WorkRecords, PlaceInv, Placed, MutexInv, Holding, At, DeadInv,
     ForgottenInv, RetainedHasDeadline
<1>11. QED
  BY <1>1, <1>2, <1>3, <1>4, <1>5, <1>6, <1>7, <1>8, <1>9, <1>10

LEMMA ExpireInv ==
    ASSUME ConstantsFit, IInv, NEW s \in Sessions, Expire(s)
    PROVE  IInv'
<1> USE DEF ConstantsFit, IInv, Threads, Expire, Step
<1>1. work[s].pc = "idle" /\ work[s].at = None
  BY DEF TypeOK, PlaceInv, Placed, ExpiryInv
<1>2. TypeOK'
  <2>1. session' \in [Sessions -> SessionRecords]
    BY <1>1 DEF TypeOK, SessionRecords
  <2>2. work' \in [Threads -> WorkRecords]
    BY <1>1 DEF TypeOK, WorkRecords, Labels
  <2>3. QED
    BY <1>1, <2>1, <2>2 DEF TypeOK
<1>3. PlaceInv' /\ MutexInv'
  BY <1>1 DEF TypeOK, SessionRecords, WorkRecords, PlaceInv, Placed, MutexInv, Holding
<1>4. OwnsInv'
  BY <1>1 DEF TypeOK, SessionRecords, WorkRecords, PlaceInv, Placed, MutexInv, Holding, OwnsInv,
     SameScope, SameSettings
<1>5. FailedInv'
  BY <1>1 DEF TypeOK, SessionRecords, WorkRecords, PlaceInv, Placed, MutexInv, Holding, OwnsInv,
     FailedInv, NewInv, Live
<1>6. NewInv'
  BY <1>1 DEF TypeOK, SessionRecords, WorkRecords, PlaceInv, Placed, MutexInv, Holding, NewInv
<1>7. ExpiryInv'
  BY <1>1 DEF TypeOK, SessionRecords, WorkRecords, PlaceInv, Placed, MutexInv, Holding, ExpiryInv
<1>8. DeadInv'
  BY <1>1 DEF TypeOK, SessionRecords, WorkRecords, PlaceInv, Placed, MutexInv, Holding, ExpiryInv,
     DeadInv, ForgottenInv
<1>9. ForgottenInv'
  BY <1>1 DEF TypeOK, SessionRecords, WorkRecords, PlaceInv, Placed, MutexInv, Holding, ForgottenInv
<1>10. TerminalIsAccountedFor'
  BY <1>1 DEF TypeOK, SessionRecords, WorkRecords, PlaceInv, Placed, MutexInv, Holding, FailedInv,
     NewInv, Live, TerminalIsAccountedFor
<1>11. RetainedHasDeadline'
  BY <1>1 DEF TypeOK, SessionRecords, WorkRecords, PlaceInv, Placed, MutexInv, Holding, At, DeadInv,
     ForgottenInv, RetainedHasDeadline
<1>12. QED
  BY <1>2, <1>3, <1>4, <1>5, <1>6, <1>7, <1>8, <1>9, <1>10, <1>11

LEMMA CrashInv ==
    ASSUME ConstantsFit, IInv, NEW s \in Sessions, Crash(s)
    PROVE  IInv'
<1> USE DEF ConstantsFit, IInv, Threads, Crash, Live
<1>1. TypeOK'
  BY DEF TypeOK, SessionRecords, WorkRecords, Labels, BudgetRecords
<1>2. PlaceInv' /\ MutexInv'
  BY DEF TypeOK, SessionRecords, WorkRecords, PlaceInv, Placed, MutexInv, Holding
<1>3. OwnsInv'
  BY DEF TypeOK, SessionRecords, WorkRecords, PlaceInv, Placed, MutexInv, Holding, OwnsInv,
     SameScope, SameSettings
<1>4. FailedInv'
  BY DEF TypeOK, SessionRecords, WorkRecords, PlaceInv, Placed, MutexInv, Holding, OwnsInv,
     FailedInv, NewInv
<1>5. NewInv'
  BY DEF TypeOK, SessionRecords, WorkRecords, PlaceInv, Placed, MutexInv, Holding, NewInv
<1>6. ExpiryInv'
  BY DEF TypeOK, SessionRecords, WorkRecords, PlaceInv, Placed, MutexInv, Holding, ExpiryInv
<1>7. DeadInv'
  BY DEF TypeOK, SessionRecords, WorkRecords, PlaceInv, Placed, MutexInv, Holding, ExpiryInv,
     DeadInv, ForgottenInv
<1>8. ForgottenInv'
  BY DEF TypeOK, SessionRecords, WorkRecords, PlaceInv, Placed, MutexInv, Holding, ForgottenInv
<1>9. TerminalIsAccountedFor'
  BY DEF TypeOK, SessionRecords, WorkRecords, PlaceInv, Placed, MutexInv, Holding, FailedInv,
     NewInv, TerminalIsAccountedFor
<1>10. RetainedHasDeadline'
  BY DEF TypeOK, SessionRecords, WorkRecords, PlaceInv, Placed, MutexInv, Holding, At, DeadInv,
     ForgottenInv, RetainedHasDeadline
<1>11. QED
  BY <1>1, <1>2, <1>3, <1>4, <1>5, <1>6, <1>7, <1>8, <1>9, <1>10

(* What a step of live input does, whichever of its calls comes first: it  *)
(* moves, and may renew the lease of the registered session.               *)
LEMMA SenderSteps ==
    ASSUME ConstantsFit, TypeOK, PlaceInv, NEW d \in Senders, Send(d) \/ SendOn(d)
    PROVE  /\ UNCHANGED <<adapter, registry, name, terminal>>
           /\ budget' \in BudgetRecords
           /\ work' \in [Threads -> WorkRecords]
           /\ \A u \in Threads \ {d} : work'[u] = work[u]
           /\ {work[d].pc, work'[d].pc} \subseteq {"idle", "target", "renew", "typing"}
           /\ work'[d].at # None <=> work'[d].pc \in {"renew", "typing"}
           /\ \/ UNCHANGED session
              \/ /\ registry # None /\ session[registry].lease # "dead"
                 /\ session' = [session EXCEPT ![registry].lease = "armed"]
<1> USE DEF ConstantsFit, Threads
<1>1. CASE Send(d)
  <2>1. work[d].pc = "idle" /\ work[d].at = None
    BY <1>1 DEF Send, At, TypeOK, PlaceInv, Placed
  <2>2. budget' \in BudgetRecords /\ UNCHANGED <<adapter, registry, name, terminal>>
    BY <1>1 DEF Send, TypeOK, BudgetRecords
  <2>3. CASE adapter = "claude"
    <3>1. Renew(d, "target")
      BY <1>1, <2>3 DEF Send
    <3>2. QED
      BY <2>1, <2>2, <3>1 DEF Renew, Renewable, Step, Return, Idle, TypeOK, WorkRecords, Labels
  <2>4. CASE adapter # "claude"
    <3>1. Target(d, "renew") /\ UNCHANGED session
      BY <1>1, <2>4 DEF Send
    <3>2. QED
      BY <2>1, <2>2, <3>1 DEF Target, StepAt, Return, Idle, TypeOK, WorkRecords, Labels
  <2>5. QED
    BY <2>3, <2>4
<1>2. CASE SendOn(d)
  <2>1. UNCHANGED <<adapter, registry, name, terminal, budget>>
    BY <1>2 DEF SendOn
  <2>2. CASE At(d, "target") /\ Target(d, "typing") /\ UNCHANGED session
    BY <2>1, <2>2 DEF At, Target, StepAt, Return, Idle, TypeOK, WorkRecords, Labels
  <2>3. CASE At(d, "renew") /\ Renew(d, "typing")
    <3>1. work[d].pc = "renew" /\ work[d].at # None
      BY <2>3 DEF At, PlaceInv, Placed
    <3>2. QED
      BY <2>1, <2>3, <3>1 DEF Renew, Renewable, Step, Return, Idle, TypeOK, WorkRecords, Labels
  <2>4. CASE At(d, "typing") /\ Return(d) /\ UNCHANGED session
    BY <2>1, <2>4 DEF At, Return, Idle, TypeOK, WorkRecords, Labels
  <2>5. QED
    BY <1>2, <2>2, <2>3, <2>4 DEF SendOn
<1>3. QED
  BY <1>1, <1>2

LEMMA SenderInv ==
    ASSUME ConstantsFit, IInv, NEW d \in Senders, Send(d) \/ SendOn(d)
    PROVE  IInv'
<1> USE DEF ConstantsFit, IInv, Threads
<1>1. /\ UNCHANGED <<adapter, registry, name, terminal>>
      /\ budget' \in BudgetRecords
      /\ work' \in [Threads -> WorkRecords]
      /\ \A u \in Threads \ {d} : work'[u] = work[u]
      /\ {work[d].pc, work'[d].pc} \subseteq {"idle", "target", "renew", "typing"}
      /\ work'[d].at # None <=> work'[d].pc \in {"renew", "typing"}
      /\ \/ UNCHANGED session
         \/ /\ registry # None /\ session[registry].lease # "dead"
            /\ session' = [session EXCEPT ![registry].lease = "armed"]
  BY SenderSteps
<1>2. \A s \in Sessions :
        /\ session'[s].mu = session[s].mu /\ session'[s].failed = session[s].failed
        /\ session'[s].scope = session[s].scope /\ session'[s].settings = session[s].settings
  BY <1>1 DEF TypeOK, SessionRecords
<1>3. \A t \in Turns : work'[t] = work[t] /\ (work[t].at # None => work[t].at \in Sessions)
  BY <1>1 DEF TypeOK, WorkRecords
<1>4. TypeOK'
  BY <1>1 DEF TypeOK, SessionRecords, WorkRecords, Labels, BudgetRecords
<1>5. PlaceInv' /\ MutexInv'
  BY SMTT(30), <1>1 DEF TypeOK, SessionRecords, WorkRecords, PlaceInv, Placed, MutexInv, Holding
<1>6. OwnsInv'
  BY <1>1, <1>2, <1>3 DEF PlaceInv, Placed, OwnsInv, SameScope, SameSettings
<1>7. FailedInv'
  BY <1>1, <1>2, <1>3 DEF PlaceInv, Placed, FailedInv, Live
<1>8. NewInv'
  BY <1>1 DEF TypeOK, SessionRecords, WorkRecords, PlaceInv, Placed, MutexInv, Holding, NewInv
<1>9. ExpiryInv'
  BY SMTT(30), <1>1 DEF TypeOK, SessionRecords, WorkRecords, PlaceInv, Placed, MutexInv, Holding, ExpiryInv
<1>10. DeadInv'
  BY <1>1 DEF TypeOK, SessionRecords, WorkRecords, PlaceInv, Placed, MutexInv, Holding, ExpiryInv,
     DeadInv, ForgottenInv
<1>11. ForgottenInv'
  BY <1>1 DEF TypeOK, SessionRecords, WorkRecords, PlaceInv, Placed, MutexInv, Holding, ForgottenInv
<1>12. TerminalIsAccountedFor'
  BY <1>1 DEF TypeOK, SessionRecords, WorkRecords, PlaceInv, Placed, MutexInv, Holding, FailedInv,
     NewInv, Live, TerminalIsAccountedFor
<1>13. RetainedHasDeadline'
  BY <1>1 DEF TypeOK, SessionRecords, WorkRecords, PlaceInv, Placed, MutexInv, Holding, At, DeadInv,
     ForgottenInv, RetainedHasDeadline
<1>14. QED
  BY <1>4, <1>5, <1>6, <1>7, <1>8, <1>9, <1>10, <1>11, <1>12, <1>13
-----------------------------------------------------------------------------
LEMMA InitInv == ConstantsFit /\ Init => IInv
<1> SUFFICES ASSUME ConstantsFit, Init PROVE IInv
  OBVIOUS
<1> USE DEF ConstantsFit, Init, Threads, NewSession, Idle
<1>1. TypeOK
  BY DEF TypeOK, SessionRecords, WorkRecords, Labels
<1>2. PlaceInv /\ MutexInv /\ OwnsInv /\ FailedInv /\ NewInv
  BY DEF PlaceInv, Placed, MutexInv, Holding, OwnsInv, FailedInv, NewInv
<1>3. ExpiryInv /\ DeadInv /\ ForgottenInv
  BY DEF ExpiryInv, DeadInv, ForgottenInv
<1>4. TerminalIsAccountedFor /\ RetainedHasDeadline
  BY DEF TerminalIsAccountedFor, Live, RetainedHasDeadline
<1>5. QED
  BY <1>1, <1>2, <1>3, <1>4 DEF IInv

LEMMA StutterInv == IInv /\ UNCHANGED vars => IInv'
<1> SUFFICES ASSUME IInv, UNCHANGED vars PROVE IInv'
  OBVIOUS
<1> USE DEF IInv, vars
<1>1. TypeOK'
  BY DEF TypeOK
<1>2. PlaceInv' /\ MutexInv' /\ OwnsInv' /\ FailedInv' /\ NewInv'
  BY DEF PlaceInv, MutexInv, OwnsInv, SameScope, SameSettings, FailedInv, Live, NewInv
<1>3. ExpiryInv' /\ DeadInv' /\ ForgottenInv'
  BY DEF ExpiryInv, DeadInv, ForgottenInv
<1>4. TerminalIsAccountedFor' /\ RetainedHasDeadline'
  BY DEF TerminalIsAccountedFor, Live, RetainedHasDeadline, At
<1>5. QED
  BY <1>1, <1>2, <1>3, <1>4

LEMMA IInvInductive == ConstantsFit /\ IInv /\ [Next]_vars => IInv'
<1> SUFFICES ASSUME ConstantsFit, IInv, [Next]_vars PROVE IInv'
  OBVIOUS
<1>1. CASE \E t \in Turns : Call(t) \/ Acquire(t) \/ Run(t)
  <2>1. PICK t \in Turns : Call(t) \/ Acquire(t) \/ Run(t)
    BY <1>1
  <2>2. CASE Call(t) \/ Acquire(t)
    BY <2>2, CallInv, FindInv, CreateInv, ReplaceInv, RefuseInv, ReuseInv, LaunchInv, DiscardInv,
       RegisterInv DEF Acquire
  <2>3. CASE Run(t)
    BY <2>3, StartedInv, PromptedInv, EndedInv, FailInv, DropInv, ScrapInv, ReleaseInv, LeaveInv DEF
       Run
  <2>4. QED
    BY <2>1, <2>2, <2>3
<1>2. CASE \E c \in Closers : Close(c)
  BY <1>2, CloseInv
<1>3. CASE \E c \in Turns \cup Closers \cup Sessions : Delete(c) \/ Lock(c) \/ Unlist(c) \/ Kill(c)
  BY <1>3, DeleteInv, LockInv, UnlistInv, KillInv
<1>4. CASE \E s \in Sessions : Elapse(s) \/ Expire(s) \/ Crash(s)
  BY <1>4, ElapseInv, ExpireInv, CrashInv
<1>5. CASE \E d \in Senders : Send(d) \/ SendOn(d)
  BY <1>5, SenderInv
<1>6. CASE UNCHANGED vars
  BY <1>6, StutterInv
<1>7. QED
  BY <1>1, <1>2, <1>3, <1>4, <1>5, <1>6 DEF Next

-----------------------------------------------------------------------------
(* The module is instantiated and never extended by what TLC runs: what it *)
(* assumes of its constants is a hypothesis here.                          *)

(* The retained session of either adapter never leaves the invariant.      *)
THEOREM RetainedInvariant == ConstantsFit /\ Spec => []IInv
<1> SUFFICES ASSUME ConstantsFit PROVE Spec => []IInv
  OBVIOUS
<1>1. Init => IInv
  BY InitInv
<1>2. IInv /\ [Next]_vars => IInv'
  BY IInvInductive
<1>3. QED
  BY <1>1, <1>2, PTL DEF Spec

(* Every variable holds a value of its kind.                               *)
THEOREM RetainedTypeCorrect == ConstantsFit /\ Spec => []TypeOK
<1>1. IInv => TypeOK
  BY DEF IInv
<1>2. QED
  BY <1>1, RetainedInvariant, PTL

(* A turn that prompts or runs holds the mutex of a session of its own     *)
(* scope and settings that nobody failed, for any number of replacements.  *)
THEOREM RetainedTurnOwnsSession == ConstantsFit /\ Spec => []TurnOwnsSession
<1>1. ASSUME IInv, NEW t \in Turns, work[t].pc \in {"prompt", "running"}
      PROVE  LET s == work[t].at IN
             /\ session[s].mu = t /\ ~session[s].failed
             /\ session[s].scope = work[t].scope
             /\ adapter = "claude" => session[s].settings = work[t].settings
  <2>1. t \in Threads /\ work[t].at \in Sessions
    BY <1>1 DEF IInv, TypeOK, WorkRecords, PlaceInv, Placed, Threads
  <2>2. QED
    BY <1>1, <2>1 DEF IInv, MutexInv, Holding, OwnsInv, SameScope, SameSettings
<1>2. IInv => TurnOwnsSession
  BY <1>1 DEF TurnOwnsSession
<1>3. QED
  BY <1>2, RetainedInvariant, PTL

(* A terminal that is no longer in the registry has somebody who is about  *)
(* to kill it.                                                             *)
THEOREM RetainedTerminalAccountedFor == ConstantsFit /\ Spec => []TerminalIsAccountedFor
<1>1. IInv => TerminalIsAccountedFor
  BY DEF IInv
<1>2. QED
  BY <1>1, RetainedInvariant, PTL

(* A registered session that no turn holds has a deadline, or somebody is  *)
(* about to remove it.                                                     *)
THEOREM RetainedDeadlineHolds == ConstantsFit /\ Spec => []RetainedHasDeadline
<1>1. IInv => RetainedHasDeadline
  BY DEF IInv
<1>2. QED
  BY <1>1, RetainedInvariant, PTL
=============================================================================
