---------------------------- MODULE CodexSession ----------------------------
(***************************************************************************)
(* The retained terminal session of one owner in the Codex adapter         *)
(* (pkg/adapters/codexcli), over the owner registries (sessionregistry),   *)
(* the idle lease (sessionlease) and the readiness gate (tmuxinput).       *)
(*                                                                         *)
(* A session object has a mutex that a turn holds from acquisition to      *)
(* release.  Turns, explicit closes, expiry callbacks and live input reach *)
(* the session through the owner registry, whose entry may be removed or   *)
(* replaced while they wait for the mutex.  Each registry or lease         *)
(* operation is atomic, everything between two of them interleaves.        *)
(* Owners share nothing, so one is modelled; an object nobody refers to    *)
(* any more may be allocated again.                                        *)
(***************************************************************************)
EXTENDS Naturals

CONSTANTS Sessions,   \* bound: session objects alive at a time
          Turns,      \* goroutines that run turns (GenerateContent)
          Closers,    \* goroutines that close the owner's session
          Senders,    \* goroutines that send live input
          Scopes,     \* launch scopes: sandbox policy, credentials, model
          None,       \* no session, nobody
          Budgets     \* bounds: what is called from outside in a behaviour

ASSUME ThreadsAssumption ==
    /\ Sessions \cap (Turns \cup Closers \cup Senders) = {}
    /\ Turns \cap (Closers \cup Senders) = {} /\ Closers \cap Senders = {}
    /\ None \notin Sessions \cup Turns \cup Closers \cup Senders \cup Scopes
(* The goroutines that call, the scopes they call for, the calls of turns, *)
(* the live inputs and the terminals killed from outside.                  *)
BudgetRecords == [callers : SUBSET (Turns \cup Closers \cup Senders), scopes : SUBSET Scopes,
                  calls : Nat, sends : Nat, crashes : Nat]
ASSUME BudgetsAssumption == Budgets \subseteq BudgetRecords

VARIABLES
    registry,    \* codexPersistentRegistry: the owner's session object
    name,        \* codexInteractiveRegistry: the session its terminal belongs to
    mu,          \* mu[s]: the goroutine that holds the session's mutex
    scope,       \* scope[s]: cliSecurityFingerprint
    failed,      \* failed[s]: initErr is set
    lease,       \* lease[s]: the mode of its idleLease, see Lease
    gate,        \* gate[s]: readiness of its terminal, "none", "starting", "ready"
    proc,        \* proc[s]: its tmux session and CLI process, see ProcStates
    projected,   \* projected[s]: projectInstructionCleanup, its block in AGENTS.md
    pc, at,      \* what each goroutine does, and to which session
    want,        \* want[t]: the scope of turn t
    relaunched,  \* relaunched[t]: it has already replaced a session of another scope
    budget       \* what is left of the bounds

object   == <<scope, failed>>
process  == <<proc, projected>>
registries == <<registry, name, gate>>
caller   == <<want, relaunched, budget>>
vars     == <<registries, mu, object, lease, process, pc, at, caller>>

(* An expired lease runs its callback in a goroutine named by the session. *)
Threads == Turns \cup Closers \cup Senders \cup Sessions

(* No tmux session; one without the owner option yet; one with it; one     *)
(* whose close gave up killing it; one whose launch failed half-way.       *)
ProcStates == {"none", "bare", "tagged", "stranded", "lost"}
Live(s) == proc[s] # "none"

Init == /\ registry = None /\ name = None
        /\ mu        = [s \in Sessions |-> None]
        /\ scope     = [s \in Sessions |-> None]
        /\ failed    = [s \in Sessions |-> FALSE]
        /\ lease     = [s \in Sessions |-> "idle"]
        /\ gate      = [s \in Sessions |-> "none"]
        /\ proc      = [s \in Sessions |-> "none"]
        /\ projected = [s \in Sessions |-> FALSE]
        /\ pc        = [t \in Threads |-> "idle"]
        /\ at        = [t \in Threads |-> None]
        /\ want      = [t \in Turns |-> None]
        /\ relaunched = [t \in Turns |-> FALSE]
        /\ budget \in Budgets

Goto(t, label) == pc' = [pc EXCEPT ![t] = label]

(* Goroutine t goes on at label and refers to session s from now on.       *)
GotoAt(t, label, s) == Goto(t, label) /\ at' = [at EXCEPT ![t] = s]

Unlock(s) == mu' = [mu EXCEPT ![s] = None]

(* A session object nobody refers to: it stands for a newly allocated one. *)
Unreferenced(s) == /\ registry # s /\ name # s
                   /\ lease[s] \notin {"armed", "due"}
                   /\ pc[s] = "idle"
                   /\ \A t \in Threads : at[t] # s
Allocatable(s) == Unreferenced(s) /\ ~Live(s)

(* Variants named Faulty... put one bug into the definition that follows:  *)
(* they show that a property notices it, and nothing else uses them.       *)
FaultyUnregister(s) == /\ name' = IF name = s THEN None ELSE name
                       /\ gate' = [gate EXCEPT ![s] = "closed"]

Forget(s) == registry' = IF registry = s THEN None ELSE registry
Unregister(s) == /\ name' = IF name = s THEN None ELSE name
                 /\ gate' = [gate EXCEPT ![s] = "none"]

-----------------------------------------------------------------------------
(***************************************************************************)
(* acquireCodexInteractiveSession.                                         *)
(***************************************************************************)
TurnCalled(t) == /\ pc[t] = "idle"
                 /\ t \in budget.callers /\ budget.calls > 0
                 /\ budget' = [budget EXCEPT !.calls = @ - 1]
                 /\ \E x \in budget.scopes : want' = [want EXCEPT ![t] = x]
                 /\ relaunched' = [relaunched EXCEPT ![t] = FALSE]
                 /\ Goto(t, "acquire")
                 /\ UNCHANGED <<registries, mu, object, lease, process, at>>

(* GetOrCreate finds a session: its mutex is taken after the registry's is *)
(* released.                                                               *)
AcquireFinds(t) == /\ pc[t] = "acquire"
                   /\ registry # None
                   /\ GotoAt(t, "lock", registry)
                   /\ UNCHANGED <<registries, mu, object, lease, process, caller>>

(* GetOrCreate installs a new one, locked.                                 *)
AcquireCreates(t) ==
    /\ pc[t] = "acquire"
    /\ registry = None
    /\ \E s \in Sessions :
         /\ Allocatable(s)
         /\ registry' = s
         /\ mu'        = [mu EXCEPT ![s] = t]
         /\ scope'     = [scope EXCEPT ![s] = want[t]]
         /\ failed'    = [failed EXCEPT ![s] = FALSE]
         /\ lease'     = [lease EXCEPT ![s] = "idle"]
         /\ projected' = [projected EXCEPT ![s] = FALSE]
         /\ GotoAt(t, "build", s)
    /\ UNCHANGED <<name, gate, proc, caller>>

FaultyUsable(s) == TRUE

Usable(s) == ~failed[s]

(* The mutex of an existing session is free: reuse it, refuse a failed one *)
(* or replace one that was launched under another scope.  A launch-only    *)
(* call has nothing more to do with it.                                    *)
LockReuses(t) == LET s == at[t] IN
    /\ pc[t] = "lock" /\ mu[s] = None
    /\ scope[s] = want[t] /\ Usable(s)
    /\ mu' = [mu EXCEPT ![s] = t]
    /\ lease' = [lease EXCEPT ![s] = IF @ = "dead" THEN @ ELSE "idle"]
    /\ \E next \in {"prompt", "release"} : Goto(t, next)
    /\ UNCHANGED <<registries, object, process, at, caller>>

LockRefuses(t) == LET s == at[t] IN
    /\ pc[t] = "lock" /\ mu[s] = None
    /\ scope[s] = want[t] /\ ~Usable(s)
    /\ GotoAt(t, "return", None)
    /\ UNCHANGED <<registries, mu, object, lease, process, caller>>

LockReplaces(t) == LET s == at[t] IN
    /\ pc[t] = "lock" /\ mu[s] = None
    /\ scope[s] # want[t]
    /\ mu' = [mu EXCEPT ![s] = t]
    /\ Goto(t, "close")
    /\ UNCHANGED <<registries, object, lease, process, at, caller>>

(* The arguments and the projection into the working directory.            *)
Build(t) == LET s == at[t] IN
    /\ pc[t] = "build"
    /\ projected' = [projected EXCEPT ![s] = TRUE]
    /\ Goto(t, "reap")
    /\ UNCHANGED <<registries, mu, object, lease, proc, at, caller>>

(* The arguments, the runtime paths or tmux fail; if only the configuration *)
(* of the new tmux session fails, that session is left behind.             *)
LaunchFails(t) == LET s == at[t] IN
    /\ pc[t] \in {"build", "launch"}
    /\ failed' = [failed EXCEPT ![s] = TRUE]
    /\ projected' = [projected EXCEPT ![s] = FALSE]
    /\ \/ UNCHANGED proc
       \/ pc[t] = "launch" /\ proc' = [proc EXCEPT ![s] = "lost"]
    /\ Unlock(s)
    /\ Goto(t, "discard")
    /\ UNCHANGED <<registries, scope, lease, at, caller>>

Discard(t) == /\ pc[t] = "discard"
              /\ Forget(at[t])
              /\ GotoAt(t, "return", None)
              /\ UNCHANGED <<name, gate, mu, object, lease, process, caller>>

(* Kill every other terminal that carries the owner's tag.                 *)
Reap(t) == LET s == at[t] IN
    /\ pc[t] = "reap"
    /\ proc' = [x \in Sessions |->
                 IF x # s /\ proc[x] \in {"tagged", "stranded"} THEN "none" ELSE proc[x]]
    /\ Goto(t, "launch")
    /\ UNCHANGED <<registries, mu, object, lease, projected, at, caller>>

Launch(t) == LET s == at[t] IN
    /\ pc[t] = "launch"
    /\ proc' = [proc EXCEPT ![s] = "bare"]
    /\ Goto(t, "register")
    /\ UNCHANGED <<registries, mu, object, lease, projected, at, caller>>

FaultyRegister(t) == LET s == at[t] IN
    /\ pc[t] = "register"
    /\ proc' = [proc EXCEPT ![s] = IF Live(s) THEN "tagged" ELSE @]
    /\ name' = s
    /\ Goto(t, "startup")
    /\ UNCHANGED <<registry, gate, mu, object, lease, projected, at, caller>>

Register(t) == LET s == at[t] IN
    /\ pc[t] = "register"
    /\ gate' = [gate EXCEPT ![s] = "starting"]
    /\ proc' = [proc EXCEPT ![s] = IF Live(s) THEN "tagged" ELSE @]
    /\ name' = s
    /\ Goto(t, "startup")
    /\ UNCHANGED <<registry, mu, object, lease, projected, at, caller>>

-----------------------------------------------------------------------------
(***************************************************************************)
(* The turn, with the session's mutex held.                                *)
(***************************************************************************)
(* The composer of a new terminal shows; the caller may only want that.    *)
StartupDone(t) == LET s == at[t] IN
    /\ pc[t] = "startup" /\ Live(s)
    /\ \/ Goto(t, "prompt") /\ UNCHANGED gate
       \/ Goto(t, "release") /\ gate' = [gate EXCEPT ![s] = "ready"]
    /\ UNCHANGED <<registry, name, mu, object, lease, process, at, caller>>

(* The first prompt is in: input from elsewhere may follow.                *)
PromptSent(t) == LET s == at[t] IN
    /\ pc[t] = "prompt" /\ Live(s)
    /\ gate' = [gate EXCEPT ![s] = IF @ = "starting" THEN "ready" ELSE @]
    /\ Goto(t, "running")
    /\ UNCHANGED <<registry, name, mu, object, lease, process, at, caller>>

(* Startup or the prompt fails: the session is failed, unlocked, and then  *)
(* cleaned up.                                                             *)
TurnFails(t) == LET s == at[t] IN
    /\ pc[t] \in {"startup", "prompt"}
    /\ failed' = [failed EXCEPT ![s] = TRUE]
    /\ lease' = [lease EXCEPT ![s] = "dead"]
    /\ Unlock(s)
    /\ Goto(t, "drop")
    /\ UNCHANGED <<registries, scope, process, at, caller>>

Drop(t) == /\ pc[t] = "drop"
           /\ Forget(at[t])
           /\ Goto(t, "scrap")
           /\ UNCHANGED <<name, gate, mu, object, lease, process, at, caller>>

FaultyScrap(t) == LET s == at[t] IN
    /\ pc[t] = "scrap"
    /\ Unregister(s)
    /\ GotoAt(t, "return", None)
    /\ UNCHANGED <<registry, mu, object, lease, proc, projected, caller>>

Scrap(t) == LET s == at[t] IN
    /\ pc[t] = "scrap"
    /\ proc' = [proc EXCEPT ![s] = "none"]
    /\ Unregister(s)
    /\ GotoAt(t, "return", None)
    /\ UNCHANGED <<registry, mu, object, lease, projected, caller>>

(* The response is complete, fails or times out.                           *)
TurnEnds(t) == /\ pc[t] = "running"
               /\ Goto(t, "release")
               /\ UNCHANGED <<registries, mu, object, lease, process, at, caller>>

FaultyRelease(t) == LET s == at[t] IN
    /\ pc[t] = "release"
    /\ Unlock(s)
    /\ GotoAt(t, "return", None)
    /\ UNCHANGED <<registries, object, lease, process, caller>>

FaultyReleaseLocked(t) == LET s == at[t] IN
    /\ pc[t] = "release"
    /\ lease' = [lease EXCEPT ![s] = IF @ = "dead" THEN @ ELSE "armed"]
    /\ GotoAt(t, "return", None)
    /\ UNCHANGED <<registries, mu, object, process, caller>>

(* Arm a fresh deadline, whether or not the lease still accepts it.        *)
Release(t) == LET s == at[t] IN
    /\ pc[t] = "release"
    /\ lease' = [lease EXCEPT ![s] = IF @ = "dead" THEN @ ELSE "armed"]
    /\ Unlock(s)
    /\ GotoAt(t, "return", None)
    /\ UNCHANGED <<registries, object, process, caller>>

(* GenerateContent returns; a cancelled caller closes the owner's session. *)
Return(t) == /\ pc[t] = "return"
             /\ \E cancelled \in BOOLEAN : Goto(t, IF cancelled THEN "delete" ELSE "idle")
             /\ UNCHANGED <<registries, mu, object, lease, process, at, caller>>

-----------------------------------------------------------------------------
(***************************************************************************)
(* closeCodexPersistentSession, by owner, and closeCodexSessionLocked.     *)
(***************************************************************************)
CloseCalled(c) == /\ pc[c] = "idle"
                  /\ c \in budget.callers
                  /\ Goto(c, "delete")
                  /\ UNCHANGED <<registries, mu, object, lease, process, at, caller>>

Delete(c) == /\ pc[c] = "delete"
             /\ registry' = None
             /\ IF registry = None THEN GotoAt(c, "idle", None)
                                   ELSE GotoAt(c, "closeLock", registry)
             /\ UNCHANGED <<name, gate, mu, object, lease, process, caller>>

CloseLock(c) == /\ pc[c] = "closeLock"
                /\ mu[at[c]] = None
                /\ mu' = [mu EXCEPT ![at[c]] = c]
                /\ Goto(c, "close")
                /\ UNCHANGED <<registries, object, lease, process, at, caller>>

CloseForgets(c) == LET s == at[c] IN
    /\ pc[c] = "close"
    /\ lease' = [lease EXCEPT ![s] = "dead"]
    /\ Forget(s)
    /\ Goto(c, "unregister")
    /\ UNCHANGED <<name, gate, mu, object, process, at, caller>>

CloseUnregisters(c) == /\ pc[c] = "unregister"
                       /\ Unregister(at[c])
                       /\ Goto(c, "kill")
                       /\ UNCHANGED <<registry, mu, object, lease, process, at, caller>>

(* Another input transaction holds the terminal for longer than the close  *)
(* waits for the input broker.                                             *)
Typing(s) == \E d \in Senders : pc[d] = "typing" /\ at[d] = s

(* Kill the terminal, unless the broker is too late, and drop its block.   *)
(* A turn that replaces a session goes on to acquire, once.                *)
CloseKills(c) == LET s == at[c]
                     replaces == c \in Turns /\ scope[s] # want[c] IN
    /\ pc[c] = "kill"
    /\ \/ proc' = [proc EXCEPT ![s] = "none"]
       \/ Typing(s) /\ proc' = [proc EXCEPT ![s] = IF Live(s) THEN "stranded" ELSE @]
    /\ projected' = [projected EXCEPT ![s] = FALSE]
    /\ Unlock(s)
    /\ GotoAt(c, IF ~replaces THEN "idle"
                 ELSE IF relaunched[c] THEN "return" ELSE "acquire", None)
    /\ relaunched' = IF replaces THEN [relaunched EXCEPT ![c] = TRUE] ELSE relaunched
    /\ UNCHANGED <<registries, object, lease, want, budget>>

-----------------------------------------------------------------------------
(***************************************************************************)
(* The lease's timer and its callback, which closes by owner.              *)
(***************************************************************************)
Elapse(s) == /\ lease[s] = "armed"
             /\ lease' = [lease EXCEPT ![s] = "due"]
             /\ UNCHANGED <<registries, mu, object, process, pc, at, caller>>

Expire(s) == /\ lease[s] = "due"
             /\ lease' = [lease EXCEPT ![s] = "dead"]
             /\ Goto(s, "delete")
             /\ UNCHANGED <<registries, mu, object, process, at, caller>>

(***************************************************************************)
(* SendCodexInteractiveInput.                                              *)
(***************************************************************************)
SendCalled(d) == /\ pc[d] = "idle"
                 /\ name # None
                 /\ d \in budget.callers /\ budget.sends > 0
                 /\ budget' = [budget EXCEPT !.sends = @ - 1]
                 /\ Goto(d, "arm")
                 /\ UNCHANGED <<registries, mu, object, lease, process, at, want, relaunched>>

Renewable(s) == lease[s] # "dead"

(* Renew the lease of the registered session, if there is one; a session   *)
(* that is expiring rejects the input.                                     *)
SendArms(d) ==
    /\ pc[d] = "arm"
    /\ \/ /\ registry = None
          /\ Goto(d, "target") /\ UNCHANGED lease
       \/ /\ registry # None /\ Renewable(registry)
          /\ lease' = [lease EXCEPT ![registry] = "armed"]
          /\ Goto(d, "target")
       \/ /\ registry # None /\ ~Renewable(registry)
          /\ Goto(d, "idle") /\ UNCHANGED lease
    /\ UNCHANGED <<registries, mu, object, process, at, caller>>

SendTargets(d) == /\ pc[d] = "target"
                  /\ IF name = None THEN GotoAt(d, "idle", None) ELSE GotoAt(d, "gate", name)
                  /\ UNCHANGED <<registries, mu, object, lease, process, caller>>

(* Wait for the first prompt; a terminal that is not managed (any more)    *)
(* does not wait, and one that closes meanwhile wakes its waiters.         *)
SendWaits(d) == /\ pc[d] = "gate"
                /\ \/ gate[at[d]] # "starting" /\ GotoAt(d, "typing", at[d])
                   \/ gate[at[d]] # "ready" /\ GotoAt(d, "idle", None)
                /\ UNCHANGED <<registries, mu, object, lease, process, caller>>

SendDelivers(d) == /\ pc[d] = "typing"
                   /\ GotoAt(d, "idle", None)
                   /\ UNCHANGED <<registries, mu, object, lease, process, caller>>

(* The terminal is killed from outside.                                    *)
Crash(s) == /\ Live(s)
            /\ budget.crashes > 0
            /\ budget' = [budget EXCEPT !.crashes = @ - 1]
            /\ proc' = [proc EXCEPT ![s] = "none"]
            /\ UNCHANGED <<registries, mu, object, lease, projected, pc, at, want, relaunched>>

-----------------------------------------------------------------------------
Acquire(t) == AcquireFinds(t) \/ AcquireCreates(t)
Lock(t)    == LockReuses(t) \/ LockRefuses(t) \/ LockReplaces(t)
Create(t)  == Build(t) \/ Reap(t) \/ Launch(t) \/ LaunchFails(t) \/ Register(t) \/ Discard(t)
Run(t)     == \/ StartupDone(t) \/ PromptSent(t) \/ TurnFails(t) \/ Drop(t) \/ Scrap(t)
              \/ TurnEnds(t) \/ Release(t) \/ Return(t)
Close(c)   == CloseForgets(c) \/ CloseUnregisters(c) \/ CloseKills(c)
Send(d)    == SendArms(d) \/ SendTargets(d) \/ SendWaits(d) \/ SendDelivers(d)

Next == \/ \E t \in Turns : TurnCalled(t) \/ Acquire(t) \/ Lock(t) \/ Create(t) \/ Run(t)
        \/ \E c \in Closers : CloseCalled(c)
        \/ \E c \in Turns \cup Closers \cup Sessions : Delete(c) \/ CloseLock(c) \/ Close(c)
        \/ \E s \in Sessions : Elapse(s) \/ Expire(s) \/ Crash(s)
        \/ \E d \in Senders : SendCalled(d) \/ Send(d)

Spec == Init /\ [][Next]_vars

(* Timers fire, calls to tmux and the waits for the composer and for the   *)
(* prompt are bounded by timeouts, and Go mutexes are handed over fairly.  *)
(* Nobody has to call and no terminal to be killed.  A running turn has no *)
(* deadline by default: that every turn ends is an assumption on Codex.    *)
Fairness ==
    /\ \A t \in Turns : /\ WF_vars(Acquire(t) \/ Create(t) \/ (pc[t] # "running" /\ Run(t)))
                       /\ SF_vars(Lock(t))
    /\ \A c \in Turns \cup Closers \cup Sessions : WF_vars(Delete(c) \/ Close(c)) /\ SF_vars(CloseLock(c))
    /\ \A s \in Sessions : WF_vars(Elapse(s) \/ Expire(s))
    /\ \A d \in Senders : WF_vars(Send(d))
    /\ \A t \in Turns : []<>(pc[t] # "running")

FairSpec == Spec /\ Fairness

-----------------------------------------------------------------------------
(* Properties.                                                             *)

Labels == {"idle", "acquire", "lock", "build", "reap", "launch", "register", "discard",
           "startup", "prompt", "running", "release", "drop", "scrap", "return",
           "delete", "closeLock", "close", "unregister", "kill",
           "arm", "target", "gate", "typing"}

(* Every variable holds a value of its kind.                               *)
TypeOK == /\ registry \in Sessions \cup {None} /\ name \in Sessions \cup {None}
          /\ mu \in [Sessions -> Threads \cup {None}]
          /\ scope \in [Sessions -> Scopes \cup {None}]
          /\ failed \in [Sessions -> BOOLEAN]
          /\ lease \in [Sessions -> {"idle", "armed", "due", "dead"}]
          /\ gate \in [Sessions -> {"none", "starting", "ready"}]
          /\ proc \in [Sessions -> ProcStates]
          /\ projected \in [Sessions -> BOOLEAN]
          /\ pc \in [Threads -> Labels]
          /\ at \in [Threads -> Sessions \cup {None}]
          /\ want \in [Turns -> Scopes \cup {None}]
          /\ relaunched \in [Turns -> BOOLEAN]
          /\ budget \in BudgetRecords
          /\ \E b \in Budgets : /\ budget.callers = b.callers /\ budget.scopes = b.scopes
                               /\ budget.calls <= b.calls /\ budget.sends <= b.sends
                               /\ budget.crashes <= b.crashes

(* A turn runs in a session of its own scope whose mutex it holds and      *)
(* which nobody failed, although it may have waited for that mutex while   *)
(* the session failed to launch, was closed or was replaced.               *)
TurnOwnsSession == \A t \in Turns : pc[t] \in {"prompt", "running"} =>
    mu[at[t]] = t /\ ~failed[at[t]] /\ scope[at[t]] = want[t]

(* A terminal outlives its place in the registry only while somebody is on *)
(* the way to kill it, unless a close has already given up or its launch   *)
(* failed half-way.                                                        *)
ProcessIsAccountedFor == \A s \in Sessions : Live(s) =>
    \/ registry = s
    \/ proc[s] \in {"stranded", "lost"}
    \/ \E c \in Threads : at[c] = s /\ pc[c] \in {"closeLock", "close", "unregister",
                                                    "kill", "drop", "scrap"}

(* A registered session no turn holds is on a deadline, or somebody is on  *)
(* the way to remove it: it is never retained for good.                    *)
RetainedHasDeadline == \A s \in Sessions : registry = s /\ mu[s] = None =>
    \/ lease[s] \in {"armed", "due"}
    \/ \E c \in Threads : pc[c] = "delete"
    \/ \E c \in Turns : at[c] = s /\ pc[c] \in {"drop", "discard"}

(* Live input is never typed into a terminal that is still starting or     *)
(* whose first prompt has not been submitted.                              *)
FollowUpWaits == \A d \in Senders : pc[d] = "typing" =>
    /\ gate[at[d]] # "starting"
    /\ \A t \in Turns : at[t] = at[d] => pc[t] # "startup"

(* A close of the owner's session waits for its turns only: it returns if  *)
(* they end, whatever else is called meanwhile.                            *)
CloseCompletes == \A c \in Closers : []<>(pc[c] = "idle")

(* After the last call every terminal ends, except one whose kill timed    *)
(* out, whose launch failed half-way or whose turn goes on.                *)
TerminalsEnd == <>[](\A s \in Sessions : Live(s) => proc[s] \in {"stranded", "lost"})

(* projectInstructionCleanup "runs at session teardown": a session nobody  *)
(* refers to has no block left in the project's AGENTS.md.                 *)
TeardownRestores == \A s \in Sessions : projected[s] => ~Unreferenced(s)
=============================================================================
