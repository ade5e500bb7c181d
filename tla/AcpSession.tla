----------------------------- MODULE AcpSession -----------------------------
(***************************************************************************)
(* The sessions of one chat on agy's Agent Client Protocol                 *)
(* (pkg/adapters/agycli/agycli_acp.go, agycli_acp_wire.go).  A prompt      *)
(* finds, replaces or launches the chat's process, takes its turn mutex    *)
(* and consumes the events that a pump hands to it until the response to   *)
(* session/prompt arrives, which does not pass through the pump.           *)
(***************************************************************************)
EXTENDS Naturals, SequencesExt, Nothing

CONSTANTS
    Acps,        \* session objects, each with its process, launched once
    Prompts,     \* goroutines that run generateContentACP, once each
    Enders,      \* goroutines that run CloseAgyACPSession, once each
    Prints,      \* launch fingerprints
    MaxChunks    \* bound: messages the agent writes for one prompt

ASSUME AcpAssumption == None \notin Acps \cup Prompts /\ MaxChunks \in Nat

VARIABLES
    slot,        \* agyACPSessions.m[owner]
    acp,         \* per object: process (unborn, running, finished) and why it
                 \*   finished, print, turn (holder of turnMu), listener, agent
                 \*   (the prompt it works on), events, hand (the event the pump
                 \*   holds and its listener), watchdogs (stops that wait 30 s)
    prompt,      \* per prompt: pc, at (session), inbox (the listener channel),
                 \*   replied, answer, stopped (cancelled), result
    ender,       \* per ender: pc, at
    said,        \* said[t]: chunks the agent wrote for prompt t
    overwritten  \* sessions whose slot a later launch took over

acpVars == <<slot, acp, prompt, ender, said, overwritten>>

NewAcp == [process |-> "unborn", cause |-> "none", print |-> None, turn |-> None, listener |-> None,
           agent |-> None, events |-> <<>>, hand |-> <<>>, watchdogs |-> {}]
NewPrompt == [pc |-> "look", at |-> None, print |-> None, inbox |-> <<>>, replied |-> FALSE, answer |-> <<>>,
              stopped |-> FALSE, result |-> "none"]

AcpInit == /\ slot = None
           /\ acp = [s \in Acps |-> NewAcp]
           /\ prompt = [t \in Prompts |-> NewPrompt]
           /\ ender = [c \in Enders |-> [pc |-> "delete", at |-> None]]
           /\ said = [t \in Prompts |-> 0]
           /\ overwritten = {}

Live(s) == acp[s].process = "running"

(* finish runs once: it records the cause and kills the process group.     *)
(* Pump and watchdogs wait for it as well, so what they held is forgotten. *)
Finish(s, cause) ==
    acp' = IF ~Live(s) THEN acp
           ELSE [acp EXCEPT ![s] = [NewAcp EXCEPT !.process = "finished", !.cause = cause, !.turn = acp[s].turn]]

Goes(t, label) == prompt' = [prompt EXCEPT ![t].pc = label]

-----------------------------------------------------------------------------
(* Finding or launching the session, outside the turn mutex.               *)

Look(t) ==
    /\ prompt[t].pc = "look"
    /\ \E f \in Prints :
        prompt' = [prompt EXCEPT
            ![t].print = f,
            ![t].at = slot,
            ![t].pc = IF slot = None THEN "launch"
                      ELSE IF Live(slot) /\ acp[slot].print = f THEN "lock" ELSE "delete"]
    /\ UNCHANGED <<slot, acp, ender, said, overwritten>>

(* CloseAgyACPSession deletes whatever the slot holds by now ...           *)
Delete(t) ==
    /\ prompt[t].pc = "delete"
    /\ prompt' = [prompt EXCEPT ![t].at = slot, ![t].pc = IF slot = None THEN "launch" ELSE "end"]
    /\ slot' = None
    /\ UNCHANGED <<acp, ender, said, overwritten>>

(* ... and ends its process after session/close, which may take 5 s.       *)
EndProcess(t) ==
    /\ prompt[t].pc = "end"
    /\ Finish(prompt[t].at, "closed")
    /\ Goes(t, "launch")
    /\ UNCHANGED <<slot, ender, said, overwritten>>

EnderDeletes(c) ==
    /\ ender[c].pc = "delete"
    /\ ender' = [ender EXCEPT ![c].at = slot, ![c].pc = IF slot = None THEN "over" ELSE "end"]
    /\ slot' = None
    /\ UNCHANGED <<acp, prompt, said, overwritten>>

(* Variants named Faulty... put one bug into the definition that follows:  *)
(* they show that a property notices it, and nothing else uses them.       *)
FaultyEnderEnds(c) ==
    /\ ender[c].pc = "end"
    /\ ender' = [ender EXCEPT ![c].pc = "over"]
    /\ UNCHANGED <<slot, acp, prompt, said, overwritten>>

EnderEnds(c) ==
    /\ ender[c].pc = "end"
    /\ Finish(ender[c].at, "closed")
    /\ ender' = [ender EXCEPT ![c].pc = "over"]
    /\ UNCHANGED <<slot, prompt, said, overwritten>>

UnbornAcps == {s \in Acps : acp[s].process = "unborn"}

(* The launch succeeds, or fails and closes what it started.               *)
LaunchAgy(t) ==
    /\ prompt[t].pc = "launch"
    /\ \/ /\ UnbornAcps # {}
          /\ LET s == CHOOSE u \in UnbornAcps : TRUE IN
              /\ acp' = [acp EXCEPT ![s].process = "running", ![s].print = prompt[t].print]
              /\ prompt' = [prompt EXCEPT ![t].at = s, ![t].pc = "register"]
       \/ /\ prompt' = [prompt EXCEPT ![t].pc = "over", ![t].result = "error"]
          /\ UNCHANGED acp
    /\ UNCHANGED <<slot, ender, said, overwritten>>

RegisterAgy(t) ==
    /\ prompt[t].pc = "register"
    /\ slot' = prompt[t].at
    /\ overwritten' = IF slot = None THEN overwritten ELSE overwritten \cup {slot}
    /\ Goes(t, "lock")
    /\ UNCHANGED <<acp, ender, said>>

-----------------------------------------------------------------------------
(* The turn.                                                               *)

Lock(t) ==
    LET s == prompt[t].at IN
    /\ prompt[t].pc = "lock" /\ acp[s].turn = None
    /\ acp' = [acp EXCEPT ![s].turn = t]
    /\ Goes(t, "prompt")
    /\ UNCHANGED <<slot, ender, said, overwritten>>

(* The turn returns: stopListening, then the mutex.                        *)
Returned(t, result) == [prompt[t] EXCEPT !.pc = "over", !.result = result]
Unlocked(s) == [acp EXCEPT ![s].turn = None, ![s].listener = None]

(* Launch-only calls, empty prompts and refused model options end here.    *)
(* On a finished process nobody works on the prompt.                       *)
Prompt(t) ==
    LET s == prompt[t].at IN
    /\ prompt[t].pc = "prompt"
    /\ \/ /\ prompt' = [prompt EXCEPT ![t] = Returned(t, "unprompted")] /\ acp' = Unlocked(s)
       \/ /\ Goes(t, "run")
          /\ acp' = [acp EXCEPT ![s].listener = t, ![s].agent = IF Live(s) THEN t ELSE None]
    /\ UNCHANGED <<slot, ender, said, overwritten>>

Handle(t) ==
    /\ prompt[t].pc = "run" /\ prompt[t].inbox # <<>>
    /\ prompt' = [prompt EXCEPT ![t].inbox = Tail(@), ![t].answer = Append(@, Head(prompt[t].inbox))]
    /\ UNCHANGED <<slot, acp, ender, said, overwritten>>

(* The response: what is in the listener channel is handled, then the turn *)
(* returns.  An answer without text or tools is an error.                  *)
Complete(t) ==
    LET s == prompt[t].at  answer == prompt[t].answer \o prompt[t].inbox IN
    /\ prompt[t].pc = "run" /\ prompt[t].replied
    /\ prompt' = [prompt EXCEPT ![t] =
          [Returned(t, IF @.stopped THEN "cancelled" ELSE IF answer = <<>> THEN "empty" ELSE "answer")
             EXCEPT !.answer = answer, !.inbox = <<>>]]
    /\ acp' = Unlocked(s)
    /\ UNCHANGED <<slot, ender, said, overwritten>>

FaultyGone(t) ==
    LET s == prompt[t].at IN
    /\ prompt[t].pc = "run" /\ ~Live(s) /\ ~prompt[t].stopped
    /\ prompt' = [prompt EXCEPT ![t] = Returned(t, acp[s].cause)]
    /\ acp' = Unlocked(s)
    /\ UNCHANGED <<slot, ender, said, overwritten>>

(* The process is gone: the turn fails with what finish recorded.          *)
Gone(t) ==
    LET s == prompt[t].at IN
    /\ prompt[t].pc = "run" /\ ~Live(s)
    /\ prompt' = [prompt EXCEPT ![t] = Returned(t, acp[s].cause)]
    /\ acp' = Unlocked(s)
    /\ UNCHANGED <<slot, ender, said, overwritten>>

(* The caller's context ends: agy is asked to cancel, and a goroutine      *)
(* waits 30 s or for the end of the process, not for the end of the turn.  *)
StopPrompt(t) ==
    /\ prompt[t].pc = "run" /\ ~prompt[t].stopped
    /\ prompt' = [prompt EXCEPT ![t].stopped = TRUE]
    /\ acp' = [acp EXCEPT ![prompt[t].at].watchdogs = IF Live(prompt[t].at) THEN @ \cup {t} ELSE @]
    /\ UNCHANGED <<slot, ender, said, overwritten>>

WatchdogFires(t) ==
    /\ \E s \in Acps : t \in acp[s].watchdogs /\ Finish(s, "did not stop")
    /\ UNCHANGED <<slot, prompt, ender, said, overwritten>>

-----------------------------------------------------------------------------
(* The pump of a session, and the agent.                                   *)

FaultyPumpTakes(s) ==
    /\ acp[s].hand = <<>> /\ acp[s].events # <<>>
    /\ acp' = [acp EXCEPT
          ![s].events = Front(@),
          ![s].hand = IF acp[s].listener = None THEN <<>>
                      ELSE <<[msg |-> Last(acp[s].events), to |-> acp[s].listener]>>]
    /\ UNCHANGED <<slot, prompt, ender, said, overwritten>>

(* The pump reads the listener after it has received an event; between     *)
(* turns it drops events.                                                  *)
PumpTakes(s) ==
    /\ acp[s].hand = <<>> /\ acp[s].events # <<>>
    /\ acp' = [acp EXCEPT
          ![s].events = Tail(@),
          ![s].hand = IF acp[s].listener = None THEN <<>>
                      ELSE <<[msg |-> Head(acp[s].events), to |-> acp[s].listener]>>]
    /\ UNCHANGED <<slot, prompt, ender, said, overwritten>>

(* A channel whose turn has returned keeps the event for nobody.           *)
PumpDelivers(s) ==
    /\ acp[s].hand # <<>>
    /\ LET held == acp[s].hand[1] IN
        prompt' = IF prompt[held.to].pc = "run"
                  THEN [prompt EXCEPT ![held.to].inbox = Append(@, held.msg)] ELSE prompt
    /\ acp' = [acp EXCEPT ![s].hand = <<>>]
    /\ UNCHANGED <<slot, ender, said, overwritten>>

(* The agent writes the next chunk of its prompt, and the reader queues it. *)
AgentWrites(s) ==
    LET t == acp[s].agent IN
    /\ t # None /\ said[t] < MaxChunks
    /\ acp' = [acp EXCEPT ![s].events = Append(@, [turn |-> t, n |-> said[t] + 1])]
    /\ said' = [said EXCEPT ![t] = @ + 1]
    /\ UNCHANGED <<slot, prompt, ender, overwritten>>

(* The reader hands the response straight to the call that waits for it.   *)
AgentReplies(s) ==
    /\ acp[s].agent # None
    /\ prompt' = [prompt EXCEPT ![acp[s].agent].replied = TRUE]
    /\ acp' = [acp EXCEPT ![s].agent = None]
    /\ UNCHANGED <<slot, ender, said, overwritten>>

ProcessDies(s) ==
    /\ Live(s)
    /\ Finish(s, "exited")
    /\ UNCHANGED <<slot, prompt, ender, said, overwritten>>

AcpNext ==
    \/ \E t \in Prompts :
        \/ Look(t) \/ Delete(t) \/ EndProcess(t) \/ LaunchAgy(t) \/ RegisterAgy(t) \/ Lock(t) \/ Prompt(t)
        \/ Handle(t) \/ Complete(t) \/ Gone(t) \/ StopPrompt(t) \/ WatchdogFires(t)
    \/ \E c \in Enders : EnderDeletes(c) \/ EnderEnds(c)
    \/ \E s \in Acps : PumpTakes(s) \/ PumpDelivers(s) \/ AgentWrites(s) \/ AgentReplies(s) \/ ProcessDies(s)

AcpSpec == AcpInit /\ [][AcpNext]_acpVars

(* Timers fire and a turn notices the end of its process.  The agent need  *)
(* not answer, and nobody has to stop it.                                  *)
AcpFairness == \A t \in Prompts : WF_acpVars(WatchdogFires(t)) /\ WF_acpVars(Complete(t) \/ Gone(t))
AcpFairSpec == AcpSpec /\ AcpFairness

-----------------------------------------------------------------------------
(* Properties.                                                             *)

Chunks == [turn : Prompts, n : 1..MaxChunks]
AcpRecords == [process : {"unborn", "running", "finished"},
               cause : {"none", "closed", "did not stop", "exited"}, print : Prints \cup {None},
               turn : Prompts \cup {None}, listener : Prompts \cup {None}, agent : Prompts \cup {None},
               events : Seq(Chunks), hand : Seq([msg : Chunks, to : Prompts]), watchdogs : SUBSET Prompts]
PromptRecords == [pc : {"look", "delete", "end", "launch", "register", "lock", "prompt", "run", "over"},
                  at : Acps \cup {None}, print : Prints \cup {None}, inbox : Seq(Chunks), replied : BOOLEAN,
                  answer : Seq(Chunks), stopped : BOOLEAN,
                  result : {"none", "error", "unprompted", "answer", "empty", "cancelled"}
                               \cup {"closed", "did not stop", "exited"}]
EnderRecords == [pc : {"delete", "end", "over"}, at : Acps \cup {None}]

(* Types of the variables.                                                 *)
AcpTypeOK ==
    /\ slot \in Acps \cup {None} /\ overwritten \subseteq Acps
    /\ acp \in [Acps -> AcpRecords]
    /\ prompt \in [Prompts -> PromptRecords]
    /\ ender \in [Enders -> EnderRecords]
    /\ said \in [Prompts -> 0..MaxChunks]

(* "One process per chat": a process that runs is the chat's, is about to  *)
(* be registered or closed, or lost its slot to a call that launched at    *)
(* the same time, which is the one way to lose a process.                  *)
OnlyOverwrittenLeak ==
    \A s \in Acps : Live(s) =>
        \/ slot = s \/ s \in overwritten
        \/ \E t \in Prompts : prompt[t].at = s /\ prompt[t].pc \in {"register", "end"}
        \/ \E c \in Enders : ender[c].at = s /\ ender[c].pc = "end"

(* A turn the caller stopped returns, even if agy never answers.           *)
StoppedTurnsEnd == \A t \in Prompts : []<>(prompt[t].stopped => prompt[t].pc = "over")

(* "agy did not stop within 30s" ends a turn that was asked to stop, and   *)
(* no other: the next message of the chat is answered.                     *)
WatchdogSparesOthers ==
    [][\A s \in Acps : Live(s) /\ acp'[s].cause = "did not stop" /\ acp[s].turn # None
          => prompt[acp[s].turn].stopped]_acpVars

(* Of the messages written for turn t, the queue has those numbered from   *)
(* first + 1 to last, in order.                                            *)
Numbered(queue, t, first, last) ==
    /\ first <= last
    /\ \A i \in DOMAIN queue : queue[i].turn = t => queue[i].n \in (first + 1)..last
    /\ \A n \in (first + 1)..last : \E i \in DOMAIN queue : queue[i].turn = t /\ queue[i].n = n
    /\ \A i, j \in DOMAIN queue : i < j /\ queue[i].turn = t /\ queue[j].turn = t => queue[i].n < queue[j].n

(* Events go "in order, never dropped": the answer to a prompt lacks at    *)
(* most the end of what the agent wrote for it.                            *)
AnswersHaveNoGaps == \A t \in Prompts : \E n \in 0..said[t] : Numbered(prompt[t].answer, t, 0, n)
=============================================================================
