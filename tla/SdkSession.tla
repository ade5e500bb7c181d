----------------------------- MODULE SdkSession -----------------------------
(***************************************************************************)
(* Claude's Agent SDK sessions of one chat                                 *)
(* (pkg/adapters/claudecode/claudecode_sdk_session.go, the SDK part of     *)
(* claudecode_structured_adapter.go, claude_sdk_bridge.cjs).  A turn owns  *)
(* a bridge process while it runs.  If Claude's own background tasks still *)
(* run at its answer the process is kept: a drain reads its output until   *)
(* the next turn takes it over, or until it is closed because it was idle, *)
(* its tasks finished, the chat closed or another launch is needed.        *)
(***************************************************************************)
EXTENDS Naturals, Sequences, Nothing

CONSTANTS
    Sdks,       \* sessions, each with one bridge process, started once
    Turns,      \* turns of the chat, each called once
    MaxLines,   \* bound: lines between a bridge and its reader
    Budgets     \* bounds: how many sessions are launched, how often the list of
                \*   tasks changes, and how many outside events (crashes,
                \*   cancellations, releases, closes of the chat) there are

ASSUME SdkAssumption == /\ None \notin Sdks \cup Turns
                        /\ Budgets \subseteq [launches : Nat, swings : Nat, events : Nat]

VARIABLES
    kept,       \* claudeSDKKept.sessions[owner]
    active,     \* claudeSDKProcesses[owner], as the turn that is registered
    sdk,        \* per session: its fields, where drain, closeIfParked and the
                \*   waiter are, and calls: goroutines yet to close or kill it
    bridge,     \* per session: state, turn (turnActive), tasks (of its own run),
                \*   stop (stop_background to handle), out (lines not read)
    turns,      \* per turn: pc, session, ctx (has ended), released, other (a
                \*   session it closes)
    closer,     \* the close of the chat: pc and the session it found
    shown,      \* the session whose tasks the listener was last told of
    budget      \* what is left of the bounds

sdkVars == <<kept, active, sdk, bridge, turns, closer, shown, budget>>

NewSdk == [parked |-> FALSE, closing |-> FALSE, tasks |-> FALSE, idle |-> FALSE,
           drain |-> "off", stop |-> FALSE, close |-> "open", waiter |-> "wait",
           closed |-> 0, calls |-> {}]
NewBridge == [state |-> "none", turn |-> FALSE, tasks |-> FALSE, stop |-> FALSE, out |-> <<>>]
NewTurn == [pc |-> "idle", session |-> None, ctx |-> FALSE, released |-> FALSE, other |-> None]

SdkInit == /\ kept = None /\ active = None /\ shown = None
           /\ sdk = [s \in Sdks |-> NewSdk]
           /\ bridge = [s \in Sdks |-> NewBridge]
           /\ turns = [t \in Turns |-> NewTurn]
           /\ closer = [pc |-> "idle", session |-> None]
           /\ budget \in Budgets

Spend(what) == budget[what] > 0 /\ budget' = [budget EXCEPT ![what] = @ - 1]
Outside == Spend("events")
TurnAt(t, label) == turns[t].pc = label
Goto(t, label) == turns' = [turns EXCEPT ![t].pc = label]
Alive(s) == bridge[s].state \in {"running", "ended"}
BridgeExited(s) == bridge[s].state = "exited"
Killed(s) == [bridge EXCEPT ![s].state = "exited"]
Shown(s, tasks) == IF tasks THEN s ELSE None

-----------------------------------------------------------------------------
(* The bridge.                                                             *)

(* A task of Claude's own starts or ends, in a turn or between turns.      *)
BridgeTasks(s) ==
    LET b == bridge[s] IN
    /\ Alive(s) /\ Len(b.out) < MaxLines /\ Spend("swings")
    /\ bridge' = [bridge EXCEPT ![s] = [b EXCEPT !.tasks = ~@,
                      !.out = Append(@, IF b.tasks THEN "none" ELSE "tasks")]]
    /\ UNCHANGED <<kept, active, sdk, turns, closer, shown>>

(* The answer ends the turn, and the process unless tasks still run.       *)
BridgeAnswers(s) ==
    LET b == bridge[s] IN
    /\ b.state = "running" /\ b.turn /\ Len(b.out) < MaxLines
    /\ bridge' = [bridge EXCEPT ![s] = [b EXCEPT !.turn = FALSE,
                      !.state = IF b.tasks THEN "running" ELSE "ended",
                      !.out = Append(@, IF b.tasks THEN "parked" ELSE "result")]]
    /\ UNCHANGED <<kept, active, sdk, turns, closer, shown, budget>>

(* stop_background: the tasks are stopped; between turns input ends too.   *)
BridgeStops(s) ==
    LET b == bridge[s] IN
    /\ Alive(s) /\ b.stop /\ Len(b.out) < MaxLines
    /\ bridge' = [bridge EXCEPT ![s] = [b EXCEPT !.stop = FALSE, !.tasks = FALSE,
                      !.state = IF b.turn THEN @ ELSE "ended",
                      !.out = IF b.tasks THEN Append(@, "none") ELSE @]]
    /\ UNCHANGED <<kept, active, sdk, turns, closer, shown, budget>>

(* It exits once its input has ended, and may crash before.                *)
BridgeExits(s) == /\ bridge[s].state = "ended"
                  /\ bridge' = Killed(s)
                  /\ UNCHANGED <<kept, active, sdk, turns, closer, shown, budget>>
BridgeCrashes(s) == /\ bridge[s].state = "running" /\ Outside
                    /\ bridge' = Killed(s)
                    /\ UNCHANGED <<kept, active, sdk, turns, closer, shown>>

-----------------------------------------------------------------------------
(* closeIfParked, by whoever gets here first; its steps belong to s.       *)

(* Variants named Faulty... put one bug into the definition that follows:  *)
(* they show that a property notices it, and nothing else uses them.       *)
FaultyCanClose(s) == ~sdk[s].closing
CanClose(s) == sdk[s].parked /\ ~sdk[s].closing
BeginClose(s) ==
    [sdk EXCEPT ![s] = [sdk[s] EXCEPT !.closing = TRUE, !.idle = FALSE, !.tasks = FALSE,
                                      !.close = "unregister"]]

CloseUnregisters(s) ==
    /\ sdk[s].close = "unregister"
    /\ kept' = IF kept = s THEN None ELSE kept
    /\ sdk' = [sdk EXCEPT ![s].close = "shutdown"]
    /\ UNCHANGED <<active, bridge, turns, closer, shown, budget>>

(* The listener is told, and the process asked to stop and killed after a  *)
(* grace.                                                                  *)
Shutdown(s) ==
    /\ sdk[s].close = "shutdown"
    /\ shown' = None
    /\ bridge' = [bridge EXCEPT ![s].stop = Alive(s)]
    /\ sdk' = [sdk EXCEPT ![s] = [sdk[s] EXCEPT !.close = "closed", !.closed = @ + 1,
                                                !.calls = @ \cup {"kill"}]]
    /\ UNCHANGED <<kept, active, turns, closer, budget>>

IdleFires(s) ==
    /\ sdk[s].idle
    /\ sdk' = [sdk EXCEPT ![s] = [sdk[s] EXCEPT !.idle = FALSE, !.calls = @ \cup {"idle"}]]
    /\ UNCHANGED <<kept, active, bridge, turns, closer, shown, budget>>

(* A goroutine that was started to close or to kill s runs at last.        *)
CallCloses(s) == \E c \in sdk[s].calls \ {"kill"} :
    /\ sdk' = [(IF CanClose(s) THEN BeginClose(s) ELSE sdk) EXCEPT ![s].calls = @ \ {c}]
    /\ UNCHANGED <<kept, active, bridge, turns, closer, shown, budget>>

CallKills(s) ==
    /\ "kill" \in sdk[s].calls
    /\ bridge' = Killed(s)
    /\ sdk' = [sdk EXCEPT ![s].calls = @ \ {"kill"}]
    /\ UNCHANGED <<kept, active, turns, closer, shown, budget>>

-----------------------------------------------------------------------------
(* The waiter of the process.                                              *)

FaultyReports(s) == sdk[s].parked \/ sdk[s].tasks
Reports(s) == ~sdk[s].closing /\ (sdk[s].parked \/ sdk[s].tasks)
ProcessEnds(s) ==
    /\ BridgeExited(s) /\ sdk[s].waiter = "wait"
    /\ sdk' = [sdk EXCEPT ![s] = [sdk[s] EXCEPT !.closing = TRUE, !.tasks = FALSE, !.idle = FALSE,
                  !.waiter = IF Reports(s) THEN "report" ELSE "unregister"]]
    /\ UNCHANGED <<kept, active, bridge, turns, closer, shown, budget>>

(* It unregisters the session, tells the listener and closes exited.       *)
WaiterEnds(s) ==
    /\ sdk[s].waiter \in {"report", "unregister"}
    /\ kept' = IF kept = s THEN None ELSE kept
    /\ IF sdk[s].waiter = "report"
       THEN shown' = None /\ sdk' = [sdk EXCEPT ![s] = [sdk[s] EXCEPT !.waiter = "done", !.closed = @ + 1]]
       ELSE sdk' = [sdk EXCEPT ![s].waiter = "done"] /\ UNCHANGED shown
    /\ UNCHANGED <<active, bridge, turns, closer, budget>>

-----------------------------------------------------------------------------
(* The readers of a session's lines: the drain between turns, the discard  *)
(* after a release, and the turn (below).                                  *)

Line(s) == Head(bridge[s].out)
Rest(s) == [bridge EXCEPT ![s].out = Tail(@)]

DrainReads(s) ==
    /\ sdk[s].drain = "on" /\ bridge[s].out # <<>>
    /\ bridge' = Rest(s)
    /\ \/ /\ Line(s) \in {"tasks", "none"}
          /\ sdk' = [sdk EXCEPT ![s] = [sdk[s] EXCEPT !.tasks = (Line(s) = "tasks"),
                        !.calls = IF Line(s) = "none" THEN @ \cup {"finished"} ELSE @]]
          /\ shown' = Shown(s, Line(s) = "tasks")
       \/ Line(s) \in {"parked", "result"} /\ UNCHANGED <<sdk, shown>>
    /\ UNCHANGED <<kept, active, turns, closer, budget>>

DrainEnds(s) ==
    /\ sdk[s].drain \in {"on", "discard"}
    /\ (sdk[s].drain = "on" /\ sdk[s].stop) \/ (BridgeExited(s) /\ bridge[s].out = <<>>)
    /\ sdk' = [sdk EXCEPT ![s].drain = "off"]
    /\ UNCHANGED <<kept, active, bridge, turns, closer, shown, budget>>

Discards(s) ==
    /\ sdk[s].drain = "discard" /\ bridge[s].out # <<>>
    /\ bridge' = Rest(s)
    /\ UNCHANGED <<kept, active, sdk, turns, closer, shown, budget>>

-----------------------------------------------------------------------------
(* A turn: it takes the kept session or launches one.                      *)

Waiting == {t \in Turns : TurnAt(t, "idle")}
TakeKept(t) ==
    /\ TurnAt(t, "idle") /\ t = CHOOSE u \in Waiting : TRUE     \* turns are alike
    /\ kept' = None
    /\ turns' = [turns EXCEPT ![t] = [turns[t] EXCEPT !.pc = IF kept = None THEN "launch" ELSE "decide",
                                               !.session = kept]]
    /\ UNCHANGED <<active, sdk, bridge, closer, shown, budget>>

(* The session is taken if launch and conversation are the same, and the   *)
(* drain is told to stop.                                                  *)
Decide(t) ==
    LET s == turns[t].session IN
    /\ TurnAt(t, "decide")
    /\ \/ sdk[s].closing /\ Goto(t, "launch") /\ UNCHANGED sdk
       \/ ~sdk[s].closing /\ Goto(t, "refuse") /\ UNCHANGED sdk
       \/ /\ ~sdk[s].closing /\ sdk[s].waiter # "done"
          /\ sdk' = [sdk EXCEPT ![s] = [sdk[s] EXCEPT !.parked = FALSE, !.idle = FALSE, !.stop = TRUE]]
          /\ Goto(t, "handover")
    /\ UNCHANGED <<kept, active, bridge, closer, shown, budget>>

(* Some closes are made by a turn, which then goes on at next.             *)
Closing == [launch |-> "closing_launch", drain |-> "closing_drain", return |-> "closing_return"]
TurnCloses(t, s, next) ==
    /\ \/ /\ CanClose(s)
          /\ sdk' = BeginClose(s)
          /\ turns' = [turns EXCEPT ![t] = [turns[t] EXCEPT !.pc = Closing[next], !.other = s]]
       \/ /\ ~CanClose(s)
          /\ turns' = [turns EXCEPT ![t] = [turns[t] EXCEPT !.pc = next, !.other = None]]
          /\ UNCHANGED sdk
    /\ UNCHANGED <<kept, active, bridge, closer, shown, budget>>

Refuse(t) == TurnAt(t, "refuse") /\ TurnCloses(t, turns[t].session, "launch")

TurnClosed(t) == \E next \in DOMAIN Closing :
    /\ TurnAt(t, Closing[next]) /\ sdk[turns[t].other].close = "closed"
    /\ turns' = [turns EXCEPT ![t] = [turns[t] EXCEPT !.pc = next, !.other = None]]
    /\ UNCHANGED <<kept, active, sdk, bridge, closer, shown, budget>>

FaultyHandedOver(t) ==
    /\ TurnAt(t, "handover")
    /\ Goto(t, "prompt")
    /\ UNCHANGED <<kept, active, sdk, bridge, closer, shown, budget>>

HandedOver(t) ==
    /\ TurnAt(t, "handover") /\ sdk[turns[t].session].drain = "off"
    /\ Goto(t, "prompt")
    /\ UNCHANGED <<kept, active, sdk, bridge, closer, shown, budget>>

Unstarted == {s \in Sdks : bridge[s].state = "none"}
LaunchBridge(t) ==
    /\ TurnAt(t, "launch") /\ Unstarted # {} /\ Spend("launches")
    /\ LET s == CHOOSE s \in Unstarted : TRUE IN
        /\ bridge' = [bridge EXCEPT ![s].state = "running"]
        /\ turns' = [turns EXCEPT ![t] = [turns[t] EXCEPT !.pc = "prompt", !.session = s]]
    /\ UNCHANGED <<kept, active, sdk, closer, shown>>

(* A bridge whose input has ended takes no prompt, whether or not the      *)
(* write still succeeds.                                                   *)
PromptBridge(t) ==
    LET s == turns[t].session IN
    /\ TurnAt(t, "prompt")
    /\ active' = t
    /\ \/ /\ bridge[s].state = "running"
          /\ bridge' = [bridge EXCEPT ![s].turn = TRUE]
          /\ Goto(t, "read")
       \/ bridge[s].state = "ended" /\ Goto(t, "read") /\ UNCHANGED bridge
       \/ bridge[s].state # "running" /\ bridge' = Killed(s) /\ Goto(t, "wait")
    /\ UNCHANGED <<kept, sdk, closer, shown, budget>>

(* After its last line a process gets a grace before it is killed.         *)
Read(t) ==
    LET s == turns[t].session IN
    /\ TurnAt(t, "read") /\ bridge[s].out # <<>>
    /\ \/ /\ Line(s) \in {"tasks", "none"}
          /\ sdk' = [sdk EXCEPT ![s].tasks = (Line(s) = "tasks")]
          /\ shown' = Shown(s, Line(s) = "tasks")
          /\ bridge' = Rest(s) /\ UNCHANGED turns
       \/ /\ Line(s) = "parked"                            \* keepAllowed
          /\ bridge' = Rest(s)
          /\ Goto(t, "park")
          /\ UNCHANGED <<sdk, shown>>
       \/ /\ Line(s) = "result" \/ Line(s) = "parked"
          /\ bridge' = [Rest(s) EXCEPT ![s].stop = (Line(s) = "parked" /\ Alive(s)) \/ @]
          /\ sdk' = [sdk EXCEPT ![s].calls = @ \cup {"kill"}]
          /\ UNCHANGED <<turns, shown>>
    /\ UNCHANGED <<kept, active, closer, budget>>

EndOfLines(t) ==
    LET s == turns[t].session IN
    /\ TurnAt(t, "read") /\ BridgeExited(s) /\ bridge[s].out = <<>>
    /\ Goto(t, "wait")
    /\ UNCHANGED <<kept, active, sdk, bridge, closer, shown, budget>>

(* The server ends a turn at an answer it already gave.                    *)
Release(t) ==
    LET s == turns[t].session  b == bridge[s] IN
    /\ TurnAt(t, "read") /\ Outside
    /\ \E keep \in {FALSE, sdk[s].tasks} :
        /\ bridge' = [bridge EXCEPT ![s] = [b EXCEPT !.turn = FALSE,
                          !.state = IF b.state = "running" /\ ~(keep /\ b.tasks) THEN "ended" ELSE b.state]]
        /\ turns' = [turns EXCEPT ![t] = [turns[t] EXCEPT !.released = TRUE,
                          !.pc = IF keep THEN "park" ELSE "return"]]
        /\ sdk' = IF keep THEN sdk
                  ELSE [sdk EXCEPT ![s] = [sdk[s] EXCEPT !.drain = "discard", !.calls = @ \cup {"kill"}]]
    /\ UNCHANGED <<kept, active, closer, shown>>

-----------------------------------------------------------------------------
(* park, and the end of the turn.                                          *)

FaultyPark(t) ==
    LET s == turns[t].session IN
    /\ TurnAt(t, "park")
    /\ sdk' = [sdk EXCEPT ![s] = [sdk[s] EXCEPT !.parked = TRUE, !.drain = "due", !.stop = FALSE]]
    /\ Goto(t, "register")
    /\ UNCHANGED <<kept, active, bridge, closer, shown, budget>>

Park(t) ==
    LET s == turns[t].session IN
    /\ TurnAt(t, "park")
    /\ sdk' = [sdk EXCEPT ![s] = [sdk[s] EXCEPT !.parked = TRUE, !.drain = "due", !.stop = FALSE,
                                                !.idle = TRUE]]
    /\ Goto(t, "register")
    /\ UNCHANGED <<kept, active, bridge, closer, shown, budget>>

RegisterKept(t) ==
    LET s == turns[t].session IN
    /\ TurnAt(t, "register")
    /\ kept' = s
    /\ turns' = [turns EXCEPT ![t] = [turns[t] EXCEPT !.pc = IF kept \in {None, s} THEN "drain" ELSE "evict",
                                               !.other = IF kept = s THEN None ELSE kept]]
    /\ UNCHANGED <<active, sdk, bridge, closer, shown, budget>>

Evict(t) == TurnAt(t, "evict") /\ TurnCloses(t, turns[t].other, "drain")

StartDrain(t) ==
    LET s == turns[t].session IN
    /\ TurnAt(t, "drain")
    /\ sdk' = [sdk EXCEPT ![s].drain = "on"]
    /\ Goto(t, "check")
    /\ UNCHANGED <<kept, active, bridge, closer, shown, budget>>

(* A cancelled turn closes the session it has just parked.                 *)
Check(t) ==
    /\ TurnAt(t, "check")
    /\ \/ turns[t].ctx /\ ~turns[t].released /\ TurnCloses(t, turns[t].session, "return")
       \/ /\ ~turns[t].ctx \/ turns[t].released
          /\ Goto(t, "return")
          /\ UNCHANGED <<kept, active, sdk, bridge, closer, shown, budget>>

Wait(t) ==
    /\ TurnAt(t, "wait") /\ sdk[turns[t].session].waiter = "done"
    /\ Goto(t, "return")
    /\ UNCHANGED <<kept, active, sdk, bridge, closer, shown, budget>>

TurnReturns(t) ==
    /\ TurnAt(t, "return")
    /\ active' = IF active = t THEN None ELSE active
    /\ turns' = [turns EXCEPT ![t] = [NewTurn EXCEPT !.pc = "done"]]
    /\ UNCHANGED <<kept, sdk, bridge, closer, shown, budget>>

(* The caller gives up: the watchdog of the turn will kill the session.    *)
Cancel(t) ==
    /\ turns[t].pc \in {"read", "park", "register", "evict", "closing_drain", "drain", "check", "return"}
    /\ ~turns[t].ctx /\ Outside
    /\ turns' = [turns EXCEPT ![t].ctx = TRUE]
    /\ sdk' = [sdk EXCEPT ![turns[t].session].calls = @ \cup {"kill"}]
    /\ UNCHANGED <<kept, active, bridge, closer, shown>>

-----------------------------------------------------------------------------
(* The close of the chat.                                                  *)

CloseOwner ==
    /\ closer.pc = "idle" /\ Outside
    /\ bridge' = IF active = None THEN bridge ELSE Killed(turns[active].session)
    /\ closer' = [closer EXCEPT !.pc = "look"]
    /\ UNCHANGED <<kept, active, sdk, turns, shown>>

CloserLooks ==
    /\ closer.pc = "look"
    /\ closer' = [pc |-> IF kept = None THEN "done" ELSE "close", session |-> kept]
    /\ UNCHANGED <<kept, active, sdk, bridge, turns, shown, budget>>

CloserCloses ==
    /\ closer.pc = "close"
    /\ sdk' = IF CanClose(closer.session) THEN BeginClose(closer.session) ELSE sdk
    /\ closer' = [pc |-> "done", session |-> None]
    /\ UNCHANGED <<kept, active, bridge, turns, shown, budget>>

-----------------------------------------------------------------------------
TurnStep(t) == \/ Decide(t) \/ Refuse(t) \/ TurnClosed(t) \/ HandedOver(t) \/ LaunchBridge(t) \/ PromptBridge(t)
               \/ Read(t) \/ EndOfLines(t) \/ Park(t) \/ RegisterKept(t) \/ Evict(t) \/ StartDrain(t)
               \/ Check(t) \/ Wait(t) \/ TurnReturns(t)
SessionCloseStep(s) == CloseUnregisters(s) \/ Shutdown(s)
WaiterStep(s) == ProcessEnds(s) \/ WaiterEnds(s)
DrainStep(s)  == DrainReads(s) \/ DrainEnds(s) \/ Discards(s)
BridgeStep(s) == BridgeTasks(s) \/ BridgeAnswers(s) \/ BridgeStops(s) \/ BridgeExits(s) \/ BridgeCrashes(s)

SdkNext == \/ \E t \in Turns : TakeKept(t) \/ TurnStep(t) \/ Release(t) \/ Cancel(t)
           \/ \E s \in Sdks : \/ SessionCloseStep(s) \/ WaiterStep(s) \/ DrainStep(s) \/ BridgeStep(s)
                              \/ IdleFires(s) \/ CallCloses(s) \/ CallKills(s)
           \/ CloseOwner \/ CloserLooks \/ CloserCloses

SdkSpec == SdkInit /\ [][SdkNext]_sdkVars

(* Goroutines run, timers fire, an ended bridge exits, a turn is answered. *)
(* Nobody has to call, cancel or close, and no task has to end.            *)
SdkFairness ==
    /\ \A t \in Turns : WF_sdkVars(TurnStep(t))
    /\ \A s \in Sdks : /\ WF_sdkVars(SessionCloseStep(s)) /\ WF_sdkVars(WaiterStep(s)) /\ WF_sdkVars(DrainStep(s))
                       /\ WF_sdkVars(IdleFires(s)) /\ WF_sdkVars(CallCloses(s)) /\ WF_sdkVars(CallKills(s))
                       /\ WF_sdkVars(BridgeAnswers(s)) /\ WF_sdkVars(BridgeStops(s)) /\ WF_sdkVars(BridgeExits(s))
    /\ WF_sdkVars(CloserLooks \/ CloserCloses)

SdkFairSpec == SdkSpec /\ SdkFairness

-----------------------------------------------------------------------------
(* Properties.                                                             *)

SdkRecords == [parked : BOOLEAN, closing : BOOLEAN, tasks : BOOLEAN, idle : BOOLEAN,
               drain : {"off", "due", "on", "discard"}, stop : BOOLEAN,
               close : {"open", "unregister", "shutdown", "closed"},
               waiter : {"wait", "report", "unregister", "done"}, closed : Nat,
               calls : SUBSET {"idle", "finished", "kill"}]
BridgeRecords == [state : {"none", "running", "ended", "exited"}, turn : BOOLEAN, tasks : BOOLEAN,
                  stop : BOOLEAN, out : Seq({"tasks", "none", "parked", "result"})]
TurnRecords == [pc : {"idle", "launch", "decide", "refuse", "handover", "prompt", "read", "park", "register",
                      "evict", "drain", "check", "wait", "return", "done",
                      "closing_launch", "closing_drain", "closing_return"},
                session : Sdks \cup {None}, ctx : BOOLEAN, released : BOOLEAN, other : Sdks \cup {None}]

(* Types of the variables.                                                 *)
SdkTypeOK ==
    /\ kept \in Sdks \cup {None} /\ active \in Turns \cup {None} /\ shown \in Sdks \cup {None}
    /\ sdk \in [Sdks -> SdkRecords]
    /\ bridge \in [Sdks -> BridgeRecords]
    /\ turns \in [Turns -> TurnRecords]
    /\ closer \in [pc : {"idle", "look", "close", "done"}, session : Sdks \cup {None}]
    /\ budget \in [launches : Nat, swings : Nat, events : Nat]

(* The lines of a session have one reader at a time: the drain has stopped *)
(* before a turn that took the session reads, and the turn has stopped     *)
(* before the drain starts.                                                *)
Readers(s) == {t \in Turns : TurnAt(t, "read") /\ turns[t].session = s}
                  \cup {d \in {"on", "discard"} : sdk[s].drain = d}
OneReader == \A s \in Sdks : \A x, y \in Readers(s) : x = y

(* "A session a turn has taken is left to that turn", by every stale timer,*)
(* by goroutines that meant an earlier park and by the close of the chat.  *)
HasTaken(t, s) == turns[t].session = s /\ turns[t].pc \in {"handover", "prompt", "read"}
TakenIsLeftAlone ==
    [][\A s \in Sdks : sdk[s].close = "open" /\ sdk'[s].close # "open"
          => \A t \in Turns : ~HasTaken(t, s)]_sdkVars

(* The listener hears once why a kept session ended, whoever ended it:     *)
(* idle limit, last task, chat, next turn, or the death of its process.    *)
ClosedOnce == \A s \in Sdks : sdk[s].closed <= 1

(* Every bridge process ends, kept or not, when its turns are answered.    *)
BridgesEnd == <>[](\A s \in Sdks : ~Alive(s))

(* "However the process ended, the chat's list must not keep showing tasks *)
(* that died with it": when the last line of a dead process has been read  *)
(* and its waiter is through, the list is not its own.                     *)
DeadTasksAreHidden ==
    \A s \in Sdks : sdk[s].waiter = "done" /\ bridge[s].out = <<>> => shown # s
=============================================================================
