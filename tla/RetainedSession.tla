-------------------------- MODULE RetainedSession --------------------------
(***************************************************************************)
(* The retained terminal session of one owner in the Claude Code           *)
(* (claudecode_interactive_adapter.go) and the Cursor (cursorcli_tmux.go)  *)
(* adapters, over the owner registries and the idle lease.  Both replace a *)
(* session that was launched for something else by closing, by owner,      *)
(* whatever is registered once its mutex is released, and start over; both *)
(* delete the registry's entry before they wait for the mutex.  Codex does *)
(* neither: see CodexSession.  The first prompt's gate is modelled there.  *)
(***************************************************************************)
EXTENDS Naturals

CONSTANTS Sessions,   \* bound: session objects alive at a time
          Turns,      \* goroutines that run turns
          Closers,    \* goroutines that close, by owner or by terminal
          Senders,    \* goroutines that send live input
          Scopes,     \* credentials and environments of launches
          Settings,   \* native tools and hooks of launches of Claude Code
          None,
          Budgets     \* bounds: what is called from outside in a behaviour

(* What the theorems and the runs assume of the constants.                 *)
BudgetRecords == [callers : SUBSET (Turns \cup Closers \cup Senders), scopes : SUBSET (Scopes \cup {None}),
                  settings : SUBSET (Settings \cup {None}), calls : Nat, sends : Nat, crashes : Nat]
ConstantsFit ==
    /\ Sessions \cap (Turns \cup Closers \cup Senders) = {}
    /\ Turns \cap (Closers \cup Senders) = {} /\ Closers \cap Senders = {}
    /\ None \notin Sessions \cup Turns \cup Closers \cup Senders
    /\ Budgets \subseteq BudgetRecords

VARIABLES
    adapter,     \* "claude" or "cursor"
    registry,    \* the owner's session in the persistent registry
    name,        \* the session of the terminal live input goes to
    session,     \* per object: mu (who holds it), scope, settings, failed
                 \*   (initErr), lease
    terminal,    \* per object: "none", "live", "lost" (launched half-way) or
                 \*   "stranded" (its close gave up)
    work,        \* per goroutine: where it is and what it holds
    budget       \* what is left of the bounds

vars == <<adapter, registry, name, session, terminal, work, budget>>

(* An expired lease runs its callback in a goroutine named by the session. *)
Threads == Turns \cup Closers \cup Senders \cup Sessions

NewSession == [mu |-> None, scope |-> None, settings |-> None, failed |-> FALSE, lease |-> "idle"]

Idle == [pc |-> "idle", at |-> None, scope |-> None, settings |-> None, next |-> "idle"]

Init == /\ adapter \in {"claude", "cursor"}
        /\ registry = None /\ name = None
        /\ session = [s \in Sessions |-> NewSession]
        /\ terminal = [s \in Sessions |-> "none"]
        /\ work = [x \in Threads |-> Idle]
        /\ budget \in Budgets

At(x, label) == work[x].pc = label
Step(x, label) == work' = [work EXCEPT ![x].pc = label]
StepAt(x, label, s) == work' = [work EXCEPT ![x].pc = label, ![x].at = s]
Return(x) == work' = [work EXCEPT ![x] = Idle]
Live(s) == terminal[s] = "live"
Forget(s) == registry' = IF registry = s THEN None ELSE registry
Unregister(s) == name' = IF name = s THEN None ELSE name

(* Session objects nobody refers to are alike.                             *)
Unreferenced == {s \in Sessions :
    /\ registry # s /\ name # s /\ ~Live(s)
    /\ session[s].lease \notin {"armed", "due"}
    /\ At(s, "idle")
    /\ \A x \in Threads : work[x].at # s}

-----------------------------------------------------------------------------
(* acquirePersistentInteractiveSession, acquireCursorInteractiveSession.   *)

Call(t) == /\ At(t, "idle") /\ t \in budget.callers /\ budget.calls > 0
           /\ budget' = [budget EXCEPT !.calls = @ - 1]
           /\ \E scope \in budget.scopes, settings \in budget.settings :
                work' = [work EXCEPT ![t] = [Idle EXCEPT !.pc = "acquire", !.scope = scope, !.settings = settings]]
           /\ UNCHANGED <<adapter, registry, name, session, terminal>>

Find(t) == /\ At(t, "acquire") /\ registry # None
           /\ StepAt(t, "lock", registry)
           /\ UNCHANGED <<adapter, registry, name, session, terminal, budget>>

Create(t) == /\ At(t, "acquire") /\ registry = None
             /\ Unreferenced # {}
             /\ LET s == CHOOSE o \in Unreferenced : TRUE IN
                /\ registry' = s
                /\ session' = [session EXCEPT ![s] =
                     [NewSession EXCEPT !.mu = t, !.scope = work[t].scope, !.settings = work[t].settings]]
                /\ terminal' = [terminal EXCEPT ![s] = "none"]
                /\ StepAt(t, "launch", s)
             /\ UNCHANGED <<adapter, name, budget>>

(* Variants named Faulty... put one bug into the definition that follows:  *)
(* they show that a property notices it, and nothing else uses them.       *)
FaultySameScope(t, s) == TRUE

SameScope(t, s) == session[s].scope = work[t].scope
SameSettings(t, s) == adapter = "cursor" \/ session[s].settings = work[t].settings

(* The process keeps what it was launched with: close it and start over.   *)
Replace(t) == LET s == work[t].at IN
    /\ At(t, "lock") /\ session[s].mu = None
    /\ ~(SameScope(t, s) /\ SameSettings(t, s))
    /\ work' = [work EXCEPT ![t].pc = "delete", ![t].at = None, ![t].next = "acquire"]
    /\ UNCHANGED <<adapter, registry, name, session, terminal, budget>>

Refuse(t) == LET s == work[t].at IN
    /\ At(t, "lock") /\ session[s].mu = None
    /\ SameScope(t, s) /\ SameSettings(t, s) /\ session[s].failed
    /\ StepAt(t, "return", None)
    /\ UNCHANGED <<adapter, registry, name, session, terminal, budget>>

(* A closed session is not failed: a turn that waited for it takes it too. *)
Reuse(t) == LET s == work[t].at IN
    /\ At(t, "lock") /\ session[s].mu = None
    /\ SameScope(t, s) /\ SameSettings(t, s) /\ ~session[s].failed
    /\ session' = [session EXCEPT ![s].mu = t, ![s].lease = IF @ = "dead" THEN @ ELSE "idle"]
    /\ \E label \in {"prompt", "release"} : Step(t, label)
    /\ UNCHANGED <<adapter, registry, name, terminal, budget>>

(* tmux may fail before or after it has started the terminal.              *)
Launch(t) == LET s == work[t].at IN
    /\ At(t, "launch")
    /\ \/ /\ terminal' = [terminal EXCEPT ![s] = "live"]
          /\ Step(t, "register") /\ UNCHANGED session
       \/ /\ \E left \in {"none", "lost"} : terminal' = [terminal EXCEPT ![s] = left]
          /\ session' = [session EXCEPT ![s].failed = TRUE, ![s].mu = None]
          /\ Step(t, "discard")
    /\ UNCHANGED <<adapter, registry, name, budget>>

Discard(t) == /\ At(t, "discard")
              /\ Forget(work[t].at)
              /\ StepAt(t, "return", None)
              /\ UNCHANGED <<adapter, name, session, terminal, budget>>

Register(t) == /\ At(t, "register")
               /\ name' = work[t].at
               /\ Step(t, "startup")
               /\ UNCHANGED <<adapter, registry, session, terminal, budget>>

-----------------------------------------------------------------------------
(* The turn, with the session's mutex held.                                *)

(* The composer shows; the caller may only want that.                      *)
Started(t) == /\ At(t, "startup") /\ Live(work[t].at)
              /\ \E label \in {"prompt", "release"} : Step(t, label)
              /\ UNCHANGED <<adapter, registry, name, session, terminal, budget>>

Prompted(t) == /\ At(t, "prompt") /\ Live(work[t].at)
               /\ Step(t, "running")
               /\ UNCHANGED <<adapter, registry, name, session, terminal, budget>>

Ended(t) == /\ At(t, "running")
            /\ Step(t, "release")
            /\ UNCHANGED <<adapter, registry, name, session, terminal, budget>>

(* A running turn fails its session when the terminal is lost; Claude Code *)
(* also when its credentials are refused or an interrupt is not answered.  *)
Fail(t) == LET s == work[t].at IN
    /\ \/ work[t].pc \in {"startup", "prompt"}
       \/ At(t, "running") /\ (adapter = "claude" \/ ~Live(s))
    /\ session' = [session EXCEPT ![s].failed = TRUE, ![s].lease = "dead", ![s].mu = None]
    /\ Step(t, "drop")
    /\ UNCHANGED <<adapter, registry, name, terminal, budget>>

Drop(t) == /\ At(t, "drop")
           /\ Forget(work[t].at)
           /\ Step(t, "scrap")
           /\ UNCHANGED <<adapter, name, session, terminal, budget>>

FaultyScrap(t) == /\ At(t, "scrap")
                  /\ Unregister(work[t].at)
                  /\ StepAt(t, "return", None)
                  /\ UNCHANGED <<adapter, registry, session, terminal, budget>>

Scrap(t) == /\ At(t, "scrap")
            /\ terminal' = [terminal EXCEPT ![work[t].at] = "none"]
            /\ Unregister(work[t].at)
            /\ StepAt(t, "return", None)
            /\ UNCHANGED <<adapter, registry, session, budget>>

FaultyRelease(t) == LET s == work[t].at IN
    /\ At(t, "release")
    /\ session' = [session EXCEPT ![s].mu = None]
    /\ StepAt(t, "return", None)
    /\ UNCHANGED <<adapter, registry, name, terminal, budget>>

Release(t) == LET s == work[t].at IN
    /\ At(t, "release")
    /\ session' = [session EXCEPT ![s].mu = None, ![s].lease = IF @ = "dead" THEN @ ELSE "armed"]
    /\ StepAt(t, "return", None)
    /\ UNCHANGED <<adapter, registry, name, terminal, budget>>

(* A cancelled caller closes the owner's session.                          *)
Leave(t) == /\ At(t, "return")
            /\ \/ Return(t)
               \/ work' = [work EXCEPT ![t] = [Idle EXCEPT !.pc = "delete"]]
            /\ UNCHANGED <<adapter, registry, name, session, terminal, budget>>

-----------------------------------------------------------------------------
(* closeClaudePersistentInteractiveSession, closeCursorPersistentSession.  *)
(* A close by terminal looks up the owner of its session and closes by it. *)

Close(c) == /\ At(c, "idle") /\ c \in budget.callers
            /\ Step(c, "delete")
            /\ UNCHANGED <<adapter, registry, name, session, terminal, budget>>

Resumed(c) == work' = [work EXCEPT ![c] =
    IF @.next = "idle" THEN Idle ELSE [@ EXCEPT !.pc = work[c].next, !.next = "idle", !.at = None]]

Delete(c) == /\ At(c, "delete")
             /\ registry' = None
             /\ IF registry = None THEN Resumed(c) ELSE StepAt(c, "wait", registry)
             /\ UNCHANGED <<adapter, name, session, terminal, budget>>

Lock(c) == LET s == work[c].at IN
    /\ At(c, "wait") /\ session[s].mu = None
    /\ session' = [session EXCEPT ![s].mu = c, ![s].lease = "dead"]
    /\ Step(c, "unregister")
    /\ UNCHANGED <<adapter, registry, name, terminal, budget>>

Unlist(c) == /\ At(c, "unregister")
             /\ Unregister(work[c].at)
             /\ Step(c, "kill")
             /\ UNCHANGED <<adapter, registry, session, terminal, budget>>

(* Cursor kills through the input broker, which another input may occupy   *)
(* for longer than the close waits.                                        *)
Typing(s) == \E d \in Senders : At(d, "typing") /\ work[d].at = s

Kill(c) == LET s == work[c].at IN
    /\ At(c, "kill")
    /\ \/ terminal' = [terminal EXCEPT ![s] = "none"]
       \/ /\ adapter = "cursor" /\ Typing(s) /\ Live(s)
          /\ terminal' = [terminal EXCEPT ![s] = "stranded"]
    /\ session' = [session EXCEPT ![s].mu = None]
    /\ Resumed(c)
    /\ UNCHANGED <<adapter, registry, name, budget>>

Elapse(s) == /\ session[s].lease = "armed"
             /\ session' = [session EXCEPT ![s].lease = "due"]
             /\ UNCHANGED <<adapter, registry, name, terminal, work, budget>>

Expire(s) == /\ session[s].lease = "due"
             /\ session' = [session EXCEPT ![s].lease = "dead"]
             /\ Step(s, "delete")
             /\ UNCHANGED <<adapter, registry, name, terminal, budget>>

-----------------------------------------------------------------------------
(* SendClaudeCodeInput renews the lease and then looks up the terminal,    *)
(* SendCursorInteractiveInput the other way round.                         *)

Renewable(s) == session[s].lease # "dead"

Renew(d, label) ==
    \/ /\ registry = None
       /\ Step(d, label) /\ UNCHANGED session
    \/ /\ registry # None /\ Renewable(registry)
       /\ session' = [session EXCEPT ![registry].lease = "armed"]
       /\ Step(d, label)
    \/ /\ registry # None /\ ~Renewable(registry)
       /\ Return(d) /\ UNCHANGED session

Target(d, label) == IF name = None THEN Return(d) ELSE StepAt(d, label, name)

Send(d) == /\ At(d, "idle") /\ d \in budget.callers /\ budget.sends > 0
           /\ budget' = [budget EXCEPT !.sends = @ - 1]
           /\ IF adapter = "claude" THEN Renew(d, "target")
                                    ELSE Target(d, "renew") /\ UNCHANGED session
           /\ UNCHANGED <<adapter, registry, name, terminal>>

SendOn(d) == /\ \/ At(d, "target") /\ Target(d, "typing") /\ UNCHANGED session
                \/ At(d, "renew") /\ Renew(d, "typing")
                \/ At(d, "typing") /\ Return(d) /\ UNCHANGED session
             /\ UNCHANGED <<adapter, registry, name, terminal, budget>>

(* The terminal is killed from outside.                                    *)
Crash(s) == /\ Live(s) /\ budget.crashes > 0
            /\ budget' = [budget EXCEPT !.crashes = @ - 1]
            /\ terminal' = [terminal EXCEPT ![s] = "none"]
            /\ UNCHANGED <<adapter, registry, name, session, work>>

-----------------------------------------------------------------------------
Acquire(t) == Find(t) \/ Create(t) \/ Replace(t) \/ Refuse(t) \/ Reuse(t) \/ Launch(t) \/ Discard(t) \/ Register(t)
Run(t) == Started(t) \/ Prompted(t) \/ Ended(t) \/ Fail(t) \/ Drop(t) \/ Scrap(t) \/ Release(t) \/ Leave(t)

Next == \/ \E t \in Turns : Call(t) \/ Acquire(t) \/ Run(t)
        \/ \E c \in Closers : Close(c)
        \/ \E c \in Turns \cup Closers \cup Sessions : Delete(c) \/ Lock(c) \/ Unlist(c) \/ Kill(c)
        \/ \E s \in Sessions : Elapse(s) \/ Expire(s) \/ Crash(s)
        \/ \E d \in Senders : Send(d) \/ SendOn(d)

Spec == Init /\ [][Next]_vars

-----------------------------------------------------------------------------
(* Properties.                                                             *)

Labels == {"idle", "acquire", "lock", "launch", "register", "discard", "startup", "prompt", "running",
           "release", "drop", "scrap", "return", "delete", "wait", "unregister", "kill",
           "target", "renew", "typing"}

SessionRecords == [mu : Threads \cup {None}, scope : Scopes \cup {None}, settings : Settings \cup {None},
                   failed : BOOLEAN, lease : {"idle", "armed", "due", "dead"}]
WorkRecords == [pc : Labels, at : Sessions \cup {None}, scope : Scopes \cup {None},
                settings : Settings \cup {None}, next : {"idle", "acquire"}]

(* Every variable holds a value of its kind.                               *)
TypeOK == /\ adapter \in {"claude", "cursor"}
          /\ registry \in Sessions \cup {None} /\ name \in Sessions \cup {None}
          /\ session \in [Sessions -> SessionRecords]
          /\ terminal \in [Sessions -> {"none", "live", "lost", "stranded"}]
          /\ work \in [Threads -> WorkRecords]
          /\ budget \in BudgetRecords

(* A turn runs in a session of its own scope and settings whose mutex it   *)
(* holds and which nobody failed, although any number of replacements may  *)
(* have come between its look-up and the mutex.                            *)
TurnOwnsSession == \A t \in Turns : work[t].pc \in {"prompt", "running"} =>
    LET s == work[t].at IN
    /\ session[s].mu = t /\ ~session[s].failed
    /\ session[s].scope = work[t].scope
    /\ adapter = "claude" => session[s].settings = work[t].settings

(* A terminal outlives its place in the registry only while somebody is on *)
(* the way to kill it, although closes delete the entry before they wait   *)
(* for the mutex and turns that fail delete it after they released theirs. *)
TerminalIsAccountedFor == \A s \in Sessions : Live(s) =>
    \/ registry = s
    \/ \E c \in Threads : work[c].at = s /\ work[c].pc \in {"wait", "unregister", "kill", "drop", "scrap"}

(* A registered session no turn holds is on a deadline, or somebody is on  *)
(* the way to remove it.                                                   *)
RetainedHasDeadline == \A s \in Sessions : registry = s /\ session[s].mu = None =>
    \/ session[s].lease \in {"armed", "due"}
    \/ \E c \in Threads : At(c, "delete")
    \/ \E t \in Turns : work[t].at = s /\ work[t].pc \in {"drop", "discard"}
=============================================================================
