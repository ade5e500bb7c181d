----------------------------- MODULE RpcSession -----------------------------
(***************************************************************************)
(* The sessions of the two RPC transports of one owner: Codex app-server   *)
(* (pkg/adapters/codexcli/codexcli_appserver*.go) and Pi RPC               *)
(* (pkg/adapters/picli/picli_rpc*.go), which share their design.  A call   *)
(* finds or creates the owner's session, takes its turn mutex, launches or *)
(* reuses a process, follows one native turn, and leaves the process to an *)
(* idle timer; closes and idle callbacks come at any time.  Live input     *)
(* (turn/steer) and the follow-up turn it may cause are Codex's only.      *)
(***************************************************************************)
EXTENDS Naturals, FiniteSets, Nothing

CONSTANTS
    Sessions,    \* session objects
    Procs,       \* processes, each launched once
    Calls,       \* goroutines that call GenerateContent
    Closers,     \* goroutines that close the owner's session
    Callbacks,   \* goroutines that run the callback of a fired idle timer
    Senders,     \* goroutines that send live input
    Scopes,      \* launch fingerprints and resume identities
    MaxCalls,    \* bound: calls
    MaxCloses,   \* bound: closes
    MaxTurns     \* bound: native turns of one process

ASSUME RpcAssumption ==
    /\ Calls \cap (Closers \cup Callbacks \cup Senders) = {}
    /\ Closers \cap (Callbacks \cup Senders) = {} /\ Callbacks \cap Senders = {}
    /\ None \notin Sessions \cup Procs \cup Scopes \cup Calls \cup Closers \cup Callbacks \cup Senders
    /\ MaxCalls \in Nat /\ MaxCloses \in Nat /\ MaxTurns \in Nat

VARIABLES
    adapter,     \* "codex" or "pi"
    registry,    \* sessions[owner]
    session,     \* per object: turn (holder of turnMu), rpc, scope, timer
                 \*   (idle armed), active (turnID), steers
    process,     \* per process: state, scope, busy (a native turn runs), turns
                 \*   (so far), result of the last, queued (steers accepted and
                 \*   not consumed), items (their userMessage items, unread)
    work,        \* per goroutine: where it is and what it holds
    counts       \* how many calls and closes so far

vars == <<adapter, registry, session, process, work, counts>>

Threads == Calls \cup Closers \cup Callbacks \cup Senders

NewSession == [turn |-> None, rpc |-> None, scope |-> None, timer |-> FALSE, active |-> 0, steers |-> {}]
NewProcess == [state |-> "unborn", scope |-> None, busy |-> FALSE, turns |-> 0, result |-> "completed", queued |-> {}, items |-> {}]
Idle == [pc |-> "idle", session |-> None, target |-> None, process |-> None, scope |-> None, failed |-> FALSE, turn |-> 0]

Init == /\ adapter \in {"codex", "pi"}
        /\ registry = None
        /\ session = [s \in Sessions |-> NewSession]
        /\ process = [p \in Procs |-> NewProcess]
        /\ work = [x \in Threads |-> Idle]
        /\ counts = [calls |-> 0, closes |-> 0]

Running(p)   == process[p].state = "running"
HasExited(p) == process[p].state = "exited"
At(x, label) == work[x].pc = label

(* finish runs once: it closes done, kills the group and closes stdin.     *)
Finished(p) == [process EXCEPT ![p].state = IF @ = "running" THEN "stopping" ELSE @]
Step(x, label) == work' = [work EXCEPT ![x].pc = label]
Return(x) == work' = [work EXCEPT ![x] = Idle]

(* close is finish and the wait for the exit, which continues at label.    *)
Stop(x, p, label) == /\ process' = Finished(p)
                     /\ work' = [work EXCEPT ![x].pc = label, ![x].process = p]

-----------------------------------------------------------------------------
(* The call.                                                               *)

(* Objects nobody refers to, and processes not launched yet, are alike.    *)
Unreferenced == {s \in Sessions :
    /\ registry # s /\ ~session[s].timer
    /\ \A x \in Threads : s \notin {work[x].session, work[x].target}
    /\ session[s].rpc # None => ~Running(session[s].rpc)}
Unborn == {p \in Procs : process[p].state = "unborn"}
Fresh(S) == IF S = {} THEN {} ELSE {CHOOSE o \in S : TRUE}

Call(t) ==
    /\ At(t, "idle") /\ counts.calls < MaxCalls
    /\ counts' = [counts EXCEPT !.calls = @ + 1]
    /\ \E s \in IF registry # None THEN {registry} ELSE Fresh(Unreferenced) :
        /\ registry' = s
        /\ session' = IF registry = s THEN session ELSE [session EXCEPT ![s] = NewSession]
        /\ work' = [work EXCEPT ![t] = [Idle EXCEPT !.pc = "lock", !.session = s]]
    /\ UNCHANGED <<adapter, process>>

LockTurn(t) ==
    LET s == work[t].session IN
    /\ At(t, "lock")
    /\ \/ /\ session[s].turn # None              \* already has a turn
          /\ Return(t) /\ UNCHANGED session
       \/ /\ session[s].turn = None
          /\ session' = [session EXCEPT ![s].turn = t, ![s].timer = FALSE]
          /\ Step(t, "choose")
    /\ UNCHANGED <<adapter, registry, process, counts>>

(* Variants named Faulty... put one bug into the definition that follows:  *)
(* they show that a property notices it, and nothing else uses them.       *)
FaultyReusable(s, sc) == session[s].rpc # None /\ Running(session[s].rpc)

(* A process is reused while it lives and its launch has not changed.      *)
Reusable(s, sc) == session[s].rpc # None /\ Running(session[s].rpc) /\ session[s].scope = sc

Choose(t) ==
    LET s == work[t].session  p == session[s].rpc IN
    /\ At(t, "choose")
    /\ \E sc \in Scopes :
        \/ /\ Reusable(s, sc)
           /\ work' = [work EXCEPT ![t].pc = "start", ![t].scope = sc, ![t].process = p]
           /\ UNCHANGED process
        \/ /\ p = None
           /\ work' = [work EXCEPT ![t].pc = "launch", ![t].scope = sc]
           /\ UNCHANGED process
        \/ /\ p # None /\ ~Reusable(s, sc)
           /\ process' = Finished(p)
           /\ work' = [work EXCEPT ![t].pc = "replace", ![t].scope = sc, ![t].process = p]
    /\ UNCHANGED <<adapter, registry, session, counts>>

(* The call returns once its deferred functions have run.                  *)
End(t, failed) == work' = [work EXCEPT ![t].pc = "end", ![t].process = None, ![t].failed = failed]
Fails(t) == End(t, adapter = "pi")

Launch(t) ==
    /\ At(t, "launch")
    /\ \/ \E p \in Fresh(Unborn) :
            /\ process' = [process EXCEPT ![p].state = "running", ![p].scope = work[t].scope]
            /\ work' = [work EXCEPT ![t].pc = "attach", ![t].process = p]
       \/ Fails(t) /\ UNCHANGED process
    /\ UNCHANGED <<adapter, registry, session, counts>>

(* thread/start or get_state answers, or fails and the process is closed.  *)
Attach(t) ==
    LET p == work[t].process  s == work[t].session IN
    /\ At(t, "attach")
    /\ \/ /\ session' = [session EXCEPT ![s].rpc = p, ![s].scope = work[t].scope]
          /\ Step(t, "start") /\ UNCHANGED process
       \/ Stop(t, p, "abort") /\ UNCHANGED session
    /\ UNCHANGED <<adapter, registry, counts>>

(* turn/start or prompt; a launch-only call ends here.  Codex closes the   *)
(* process of a turn that did not start, Pi leaves that to its own end.    *)
Start(t) ==
    LET p == work[t].process  s == work[t].session IN
    /\ At(t, "start")
    /\ \/ /\ Running(p) /\ process[p].turns < MaxTurns
          /\ process' = [process EXCEPT ![p].busy = TRUE, ![p].turns = @ + 1]
          /\ session' = [session EXCEPT ![s].active = process[p].turns + 1, ![s].steers = {}]
          /\ Step(t, "follow")
       \/ End(t, FALSE) /\ UNCHANGED <<session, process>>
       \/ adapter = "codex" /\ Stop(t, p, "abort") /\ UNCHANGED session
       \/ adapter = "pi" /\ Fails(t) /\ UNCHANGED <<session, process>>
    /\ UNCHANGED <<adapter, registry, counts>>

(* The last event of the turn the call follows may be read late, when the  *)
(* server already runs the turn after it.                                  *)
Followed(t) == process[work[t].process].turns = session[work[t].session].active
Result(t) == IF Followed(t) THEN process[work[t].process].result ELSE "completed"

FaultyTurnCompleted(t) ==
    /\ At(t, "follow") /\ (~process[work[t].process].busy \/ ~Followed(t))
    /\ End(t, FALSE)
    /\ UNCHANGED <<adapter, registry, session, process, counts>>

(* Input the server accepted and a completed turn did not consume runs as  *)
(* a turn of its own, which Codex's call waits for and follows.            *)
TurnCompleted(t) ==
    LET p == work[t].process  s == work[t].session
        steers == session[s].steers \ (IF Followed(t) THEN process[p].items ELSE {}) IN
    /\ At(t, "follow") /\ (~process[p].busy \/ ~Followed(t))
    /\ session' = [session EXCEPT ![s].steers = steers]
    /\ \/ Result(t) = "completed" /\ steers # {} /\ Step(t, "followup")
       \/ Result(t) = "completed" /\ steers = {} /\ End(t, FALSE)
       \/ Result(t) = "failed" /\ (Fails(t) \/ End(t, FALSE))   \* Pi spares the session of an aborted turn
    /\ UNCHANGED <<adapter, registry, process, counts>>

FollowUp(t) ==
    LET p == work[t].process  s == work[t].session IN
    /\ At(t, "followup")
    /\ \/ /\ ~Followed(t)
          /\ session' = [session EXCEPT ![s].active = process[p].turns]
          /\ Step(t, "follow")
       \/ /\ process[p].queued = {} /\ Followed(t)      \* the three seconds are over
          /\ End(t, FALSE) /\ UNCHANGED session
    /\ UNCHANGED <<adapter, registry, process, counts>>

(* The context ends, or the connection is closed under the call.           *)
Interrupted(t) ==
    /\ At(t, "follow") \/ At(t, "followup")
    /\ \/ Stop(t, work[t].process, "abort")
       \/ adapter = "pi" /\ Fails(t) /\ UNCHANGED process     \* a record that does not decode
    /\ UNCHANGED <<adapter, registry, session, counts>>

(* The wait of close for the exit of the process.                          *)
Exited(t) ==
    /\ \/ /\ At(t, "replace") /\ HasExited(work[t].process)
          /\ work' = [work EXCEPT ![t].pc = "launch", ![t].process = None]
       \/ At(t, "abort") /\ HasExited(work[t].process) /\ Fails(t)
    /\ UNCHANGED <<adapter, registry, session, process, counts>>

FaultyEndCall(t) ==
    LET s == work[t].session IN
    /\ At(t, "end")
    /\ session' = [session EXCEPT ![s].turn = None, ![s].active = 0]
    /\ Return(t)
    /\ UNCHANGED <<adapter, registry, process, counts>>

(* A persistent session (an option of the call) stays for the idle timer,  *)
(* unless a Pi turn failed.                                                *)
EndCall(t) ==
    LET s == work[t].session IN
    /\ At(t, "end")
    /\ \/ /\ ~work[t].failed
          /\ session' = [session EXCEPT ![s].timer = TRUE, ![s].turn = None, ![s].active = 0]
          /\ Return(t) /\ UNCHANGED registry
       \/ /\ registry' = None
          /\ IF registry # None
             THEN /\ session' = [session EXCEPT ![s].active = 0]
                  /\ work' = [work EXCEPT ![t].pc = "take", ![t].target = registry]
             ELSE session' = [session EXCEPT ![s].turn = None, ![s].active = 0] /\ Return(t)
    /\ UNCHANGED <<adapter, process, counts>>

-----------------------------------------------------------------------------
(* The close by owner, called by others and by the end of a call.          *)

Close(c) ==
    /\ At(c, "idle") /\ counts.closes < MaxCloses /\ registry # None
    /\ counts' = [counts EXCEPT !.closes = @ + 1]
    /\ registry' = None
    /\ work' = [work EXCEPT ![c].pc = "take", ![c].target = registry]
    /\ UNCHANGED <<adapter, session, process>>

(* The deferred unlock of the turn mutex, if x holds one.                  *)
Unlock(x, ss) == IF work[x].session = None THEN ss ELSE [ss EXCEPT ![work[x].session].turn = None]

FaultyTake(x) ==
    /\ At(x, "take")
    /\ session' = Unlock(x, [session EXCEPT ![work[x].target].timer = FALSE])
    /\ Return(x)
    /\ UNCHANGED <<adapter, registry, process, counts>>

Take(x) ==
    LET s == work[x].target  p == session[s].rpc
        quiet == [session EXCEPT ![s].timer = FALSE] IN
    /\ At(x, "take")
    /\ IF p = None THEN session' = Unlock(x, quiet) /\ Return(x) /\ UNCHANGED process
                   ELSE session' = quiet /\ Stop(x, p, "closing")
    /\ UNCHANGED <<adapter, registry, counts>>

Closed(x) ==
    /\ At(x, "closing") /\ HasExited(work[x].process)
    /\ session' = Unlock(x, session)
    /\ Return(x)
    /\ UNCHANGED <<adapter, registry, process, counts>>

-----------------------------------------------------------------------------
(* The idle timer.                                                         *)

TimerFires(s, k) ==
    /\ session[s].timer /\ At(k, "idle")
    /\ session' = [session EXCEPT ![s].timer = FALSE]
    /\ work' = [work EXCEPT ![k].pc = "fired", ![k].session = s]
    /\ UNCHANGED <<adapter, registry, process, counts>>

FaultyExpireLocks(k) ==
    /\ At(k, "fired")
    /\ Step(k, "expire")
    /\ UNCHANGED <<adapter, registry, session, process, counts>>

ExpireLocks(k) ==
    LET s == work[k].session IN
    /\ At(k, "fired")
    /\ \/ session[s].turn # None /\ Return(k) /\ UNCHANGED session
       \/ /\ session[s].turn = None
          /\ session' = [session EXCEPT ![s].turn = k]
          /\ Step(k, "expire")
    /\ UNCHANGED <<adapter, registry, process, counts>>

Expire(k) ==
    LET s == work[k].session  p == session[s].rpc IN
    /\ At(k, "expire")
    /\ registry' = IF registry = s THEN None ELSE registry
    /\ IF registry = s /\ p # None
       THEN Stop(k, p, "closing") /\ UNCHANGED session
       ELSE session' = Unlock(k, session) /\ Return(k) /\ UNCHANGED process
    /\ UNCHANGED <<adapter, counts>>

-----------------------------------------------------------------------------
(* Live input of Codex.                                                    *)

Find(d) ==
    /\ adapter = "codex" /\ At(d, "idle") /\ registry # None /\ work[d].turn = 0
    /\ work' = [work EXCEPT ![d].pc = "read", ![d].target = registry]
    /\ UNCHANGED <<adapter, registry, session, process, counts>>

(* Process and turn are read, and the steer is registered, under one lock. *)
Register(d) ==
    LET s == work[d].target IN
    /\ At(d, "read")
    /\ \/ /\ session[s].rpc # None /\ session[s].active # 0
          /\ session' = [session EXCEPT ![s].steers = @ \cup {d}]
          /\ work' = [work EXCEPT ![d].pc = "steer", ![d].process = session[s].rpc, ![d].turn = session[s].active]
       \/ /\ session[s].rpc = None \/ session[s].active = 0
          /\ Return(d) /\ UNCHANGED session
    /\ UNCHANGED <<adapter, registry, process, counts>>

(* The server accepts input for the turn it is in, and nothing else; it    *)
(* does not know whether the caller still waits for the answer.            *)
Steer(d) ==
    LET p == work[d].process IN
    /\ work[d].pc \in {"steer", "late"} /\ Running(p)
    /\ \/ /\ process[p].busy /\ process[p].turns = work[d].turn
          /\ process' = [process EXCEPT ![p].queued = @ \cup {d}]
          /\ Step(d, IF At(d, "steer") THEN "taken" ELSE "lost")
       \/ /\ ~(process[p].busy /\ process[p].turns = work[d].turn)
          /\ Step(d, IF At(d, "steer") THEN "refused" ELSE "rejected")
          /\ UNCHANGED process
    /\ UNCHANGED <<adapter, registry, session, counts>>

(* Whatever error the request returns, the steer is forgotten.             *)
Forget(d, label) ==
    /\ session' = [session EXCEPT ![work[d].target].steers = @ \ {d}]
    /\ work' = [work EXCEPT ![d].pc = label, ![d].target = None]

SteerAnswered(d) ==
    /\ \/ /\ At(d, "taken")
          /\ work' = [work EXCEPT ![d].pc = "sent", ![d].target = None]
          /\ UNCHANGED session
       \/ At(d, "refused") /\ Forget(d, "rejected")
    /\ UNCHANGED <<adapter, registry, process, counts>>

(* The caller's context ends, or the connection closes, before the answer  *)
(* is read: the server may have taken the input, or may take it later.     *)
GiveUp(d) ==
    /\ \/ At(d, "steer") /\ Forget(d, "late")
       \/ At(d, "taken") /\ Forget(d, "lost")
       \/ At(d, "refused") /\ Forget(d, "rejected")
    /\ UNCHANGED <<adapter, registry, process, counts>>

-----------------------------------------------------------------------------
(* The processes.                                                          *)

(* The native turn takes queued input in and writes its userMessage item,  *)
(* which the call reads before the end of that turn.                       *)
Consume(p) ==
    /\ Running(p) /\ process[p].busy
    /\ \E d \in process[p].queued :
        process' = [process EXCEPT ![p].queued = @ \ {d}, ![p].items = @ \cup {d}]
    /\ UNCHANGED <<adapter, registry, session, work, counts>>

(* A turn that fails or is interrupted drops what was queued for it.       *)
NativeTurnEnds(p) ==
    /\ Running(p) /\ process[p].busy
    /\ \/ process' = [process EXCEPT ![p].busy = FALSE, ![p].result = "completed"]
       \/ process' = [process EXCEPT ![p].busy = FALSE, ![p].result = "failed", ![p].queued = {}]
    /\ UNCHANGED <<adapter, registry, session, work, counts>>

NativeFollowUp(p) ==
    /\ Running(p) /\ ~process[p].busy /\ process[p].queued # {} /\ process[p].turns < MaxTurns
    /\ process' = [process EXCEPT ![p].busy = TRUE, ![p].turns = @ + 1]
    /\ UNCHANGED <<adapter, registry, session, work, counts>>

Crash(p) == /\ Running(p)
            /\ process' = Finished(p)
            /\ UNCHANGED <<adapter, registry, session, work, counts>>

Exit(p) == /\ process[p].state = "stopping"
           /\ process' = [process EXCEPT ![p].state = "exited"]
           /\ UNCHANGED <<adapter, registry, session, work, counts>>

-----------------------------------------------------------------------------
CallStep(t) == LockTurn(t) \/ Choose(t) \/ Launch(t) \/ Attach(t) \/ Start(t) \/ TurnCompleted(t)
               \/ FollowUp(t) \/ Exited(t) \/ EndCall(t) \/ Take(t) \/ Closed(t)
CloseStep(c) == Take(c) \/ Closed(c)
CallbackStep(k) == ExpireLocks(k) \/ Expire(k) \/ Closed(k)
SendStep(d) == Register(d) \/ Steer(d) \/ SteerAnswered(d)

Next == \/ \E t \in Calls : Call(t) \/ CallStep(t) \/ Interrupted(t)
        \/ \E c \in Closers : Close(c) \/ CloseStep(c)
        \/ \E k \in Callbacks : CallbackStep(k) \/ \E s \in Sessions : TimerFires(s, k)
        \/ \E d \in Senders : Find(d) \/ SendStep(d) \/ GiveUp(d)
        \/ \E p \in Procs : Consume(p) \/ NativeTurnEnds(p) \/ NativeFollowUp(p) \/ Crash(p) \/ Exit(p)

Spec == Init /\ [][Next]_vars

(* Goroutines run, a stopped process exits, a timer fires, a native turn   *)
(* ends and its follow-up starts; calls, closes and crashes need not come, *)
(* and no context need end.                                                *)
Fairness ==
    /\ \A t \in Calls : /\ WF_vars(CallStep(t))
                       /\ WF_vars(Interrupted(t) /\ ~Running(work[t].process))
    /\ \A c \in Closers : WF_vars(CloseStep(c))
    /\ \A k \in Callbacks : WF_vars(CallbackStep(k))
    /\ \A s \in Sessions : WF_vars(\E k \in Callbacks : TimerFires(s, k))
    /\ \A d \in Senders : /\ WF_vars(SendStep(d))
                         /\ WF_vars(GiveUp(d) /\ ~Running(work[d].process))
    /\ \A p \in Procs : WF_vars(Exit(p)) /\ WF_vars(NativeTurnEnds(p)) /\ WF_vars(NativeFollowUp(p))

FairSpec == Spec /\ Fairness

-----------------------------------------------------------------------------
(* Properties.                                                             *)

Labels == {"idle", "lock", "choose", "launch", "replace", "attach", "start", "follow", "followup", "abort", "end",
           "take", "closing", "fired", "expire", "read", "steer", "late", "taken", "refused", "sent", "lost", "rejected"}
SessionRecords == [turn : Calls \cup Callbacks \cup {None}, rpc : Procs \cup {None}, scope : Scopes \cup {None},
                   timer : BOOLEAN, active : 0..MaxTurns, steers : SUBSET Senders]
ProcessRecords == [state : {"unborn", "running", "stopping", "exited"}, scope : Scopes \cup {None},
                   busy : BOOLEAN, turns : 0..MaxTurns, result : {"completed", "failed"},
                   queued : SUBSET Senders, items : SUBSET Senders]
WorkRecords == [pc : Labels, session : Sessions \cup {None}, target : Sessions \cup {None},
                process : Procs \cup {None}, scope : Scopes \cup {None}, failed : BOOLEAN, turn : 0..MaxTurns]

(* Every variable holds a value of its kind.                               *)
TypeOK == /\ adapter \in {"codex", "pi"}
          /\ registry \in Sessions \cup {None}
          /\ session \in [Sessions -> SessionRecords]
          /\ process \in [Procs -> ProcessRecords]
          /\ work \in [Threads -> WorkRecords]
          /\ counts \in [calls : 0..MaxCalls, closes : 0..MaxCloses]

(* "Never reuse a process after its account, secret grants, sandbox or     *)
(* launch config changes": a call only ever uses a process that was        *)
(* launched for its own fingerprint, whatever launches failed before.      *)
TurnUsesItsScope ==
    \A t \in Calls : work[t].pc \in {"start", "follow", "followup"} =>
        process[work[t].process].scope = work[t].scope

(* "Protocol/read errors must not leave an unobserved native turn running" *)
(* and steered input runs under the call that follows it: in Codex every   *)
(* native turn of a live process has a call that watches it.  The one way  *)
(* out is a sender who gave up on input that the server took during an     *)
(* earlier turn: the call no longer knows of it and does not wait.         *)
Watched(p) == \E t \in Calls : work[t].process = p /\ work[t].pc \in {"follow", "followup"}
GaveUp(d, p) == At(d, "lost") /\ work[d].process = p
NoUnobservedTurn ==
    adapter = "codex" => \A p \in Procs : Running(p) /\ process[p].busy =>
        Watched(p) \/ \E d \in Senders : GaveUp(d, p) /\ work[d].turn < process[p].turns

(* An idle callback, however late, never closes a process a call uses.     *)
Uses(t, p) == work[t].process = p /\ work[t].pc \in {"attach", "start", "follow", "followup"}
ExpirySparesCalls ==
    [][\A k \in Callbacks : At(k, "expire") /\ work'[k].pc = "closing" =>
          \A t \in Calls : ~Uses(t, work'[k].process)]_vars

(* A live process escapes when nothing will close it: its session is not   *)
(* registered, and nobody has it in hand to close or to launch it.  The    *)
(* one way to escape is a launch that ends after the session was closed.   *)
InHand(x, p) == \/ At(x, "take") /\ session[work[x].target].rpc = p
                \/ At(x, "attach") /\ work[x].process = p
Kept(p) == registry # None /\ session[registry].rpc = p
Escaped == {p \in Procs : Running(p) /\ ~Kept(p) /\ ~\E x \in Threads : InHand(x, p)}
OnlyLateLaunchesEscape ==
    [][\A p \in Escaped' \ Escaped : \E t \in Calls : At(t, "attach") /\ work[t].process = p /\ registry # work[t].session]_vars

(* Calls, closes and idle callbacks return, and the idle timer (or the     *)
(* call's own end) unregisters the session: nothing is left to retain.     *)
ComesToRest == <>[](registry = None /\ \A x \in Threads \ Senders : At(x, "idle"))

(* "idle process exceeded retention", "bounded call retained a process":   *)
(* after the last call no process outlives the idle timer.                 *)
ProcessesEnd == <>[](\A p \in Procs : ~Running(p))
=============================================================================
