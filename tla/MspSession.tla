----------------------------- MODULE MspSession -----------------------------
(***************************************************************************)
(* One chat's session on the Muse Session Protocol                         *)
(* (pkg/adapters/musecli/musecli_msp*.go): calls that start native turns   *)
(* and follow their events, steers and the turns that make up for missed   *)
(* ones, and the turns Muse runs on its own (a Monitor), whose requests    *)
(* and replies the pump handles between the chat's turns.                  *)
(***************************************************************************)
EXTENDS Naturals, Sequences, FiniteSets, Nothing

CONSTANTS
    Chats,       \* goroutines that run generateContentMSP, once each
    Sends,       \* goroutines that run SendMuseMSPInput, once each
    Natives,     \* native turns
    Host,        \* whose turn a Monitor's is
    MaxWakes,    \* bound: turns Muse runs on its own
    MaxAsks      \* bound: turns that ask something of the client

ASSUME MspAssumption == None \notin Chats \cup Natives /\ Host \notin Chats \cup {None}

VARIABLES
    msp,         \* live, holder (of turnMu), listener, turnID, steers (the
                 \*   list), events (on their way to the pump), hand (what the
                 \*   pump holds and the listener it read), wake (turns with
                 \*   a text kept)
    chat,        \* per call: pc, native, input (missed messages to run next),
                 \*   inbox (the listener channel), answers (turns whose text
                 \*   is in its answer), late (a wait for verdicts ended
                 \*   early), result
    send,        \* per steer: pc, turn (expectedTurnId), host (its answer),
                 \*   fate (waiting, read, doomed, rejected), told
    native,      \* per native turn: by (call or Host), state, wrote (its text),
                 \*   asks (none, open, done), reads (messages it has read)
    posted       \* turns whose text went to the reply handler

mspVars == <<msp, chat, send, native, posted>>

MspInit ==
    /\ msp = [live |-> TRUE, holder |-> None, listener |-> None, turnID |-> None,
              steers |-> {}, events |-> <<>>, hand |-> <<>>, wake |-> {}]
    /\ chat = [t \in Chats |-> [pc |-> "lock", native |-> None, input |-> {}, inbox |-> <<>>,
                                answers |-> {}, late |-> FALSE, result |-> "none"]]
    /\ send = [m \in Sends |-> [pc |-> "idle", turn |-> None, host |-> "none",
                                fate |-> "waiting", told |-> "none"]]
    /\ native = [n \in Natives |-> [by |-> None, state |-> "unborn", wrote |-> FALSE,
                                    asks |-> "none", reads |-> {}]]
    /\ posted = {}

ChatAt(t, label) == chat[t].pc = label
ChatGoes(t, label) == chat' = [chat EXCEPT ![t].pc = label]
ChatReads(t) == [chat[t] EXCEPT !.inbox = Tail(@)]
Event(kind, n) == [kind |-> kind, turn |-> n]
Emitted(event) == [msp EXCEPT !.events = IF msp.live THEN Append(@, event) ELSE @]
UnbornNatives == {n \in Natives : native[n].state = "unborn"}
NewNative == CHOOSE n \in UnbornNatives : TRUE
Begun(n, by, state, input) ==
    native' = [native EXCEPT ![n] = [native[n] EXCEPT !.by = by, !.state = state, !.reads = input]]
HostRuns(n) == msp.live /\ native[n].state = "running"

(* finish: what is on its way to the pump is read by nobody.               *)
Dead == [msp EXCEPT !.live = FALSE, !.events = <<>>, !.hand = <<>>]

-----------------------------------------------------------------------------
(* Between turns: handleIdleMuseMSP answers a request, keeps a text with   *)
(* its turn, and posts the texts of a turn that ends, however it ended.    *)

Ends == {"completed", "failed"}

AfterIdle(m, event) ==
    CASE event.kind = "text" -> [m EXCEPT !.wake = @ \cup {event.turn}]
      [] event.kind \in Ends -> [m EXCEPT !.wake = @ \ {event.turn}]
      [] OTHER -> m
Posts(event) == IF event.kind \in Ends THEN posted \cup ({event.turn} \cap msp.wake) ELSE posted
Answered(event) == IF event.kind = "ask" THEN [native EXCEPT ![event.turn].asks = "done"] ELSE native

(* The pump receives an event and reads the listener, and sends the event  *)
(* to it, or handles it.                                                   *)
MspTakes ==
    LET event == Head(msp.events)  rest == [msp EXCEPT !.events = Tail(@)] IN
    /\ msp.hand = <<>> /\ msp.events # <<>>
    /\ \/ /\ msp.listener # None
          /\ msp' = [rest EXCEPT !.hand = <<[event |-> event, to |-> msp.listener]>>]
          /\ UNCHANGED <<native, posted>>
       \/ /\ msp.listener = None
          /\ msp' = AfterIdle(rest, event) /\ posted' = Posts(event) /\ native' = Answered(event)
    /\ UNCHANGED <<chat, send>>

(* A channel whose call has returned keeps the event for nobody.           *)
MspDelivers ==
    /\ msp.hand # <<>>
    /\ LET held == msp.hand[1] IN
        chat' = IF ChatAt(held.to, "over") THEN chat
                ELSE [chat EXCEPT ![held.to].inbox = Append(@, held.event)]
    /\ msp' = [msp EXCEPT !.hand = <<>>]
    /\ UNCHANGED <<send, native, posted>>

-----------------------------------------------------------------------------
(* The call.                                                               *)

(* The mutex of the turn, and the listener before anything is asked of the *)
(* host.  A launch-only call returns.                                      *)
LockChat(t) ==
    /\ ChatAt(t, "lock") /\ msp.holder = None
    /\ \/ \E label \in {"start", "compact"} :
            /\ msp' = [msp EXCEPT !.holder = t, !.listener = t]
            /\ ChatGoes(t, label)
       \/ ChatGoes(t, "over") /\ UNCHANGED msp
    /\ UNCHANGED <<send, native, posted>>

(* stopListening and the mutex, with the steers of the turn cleared.       *)
Quiet(m) == [m EXCEPT !.holder = None, !.listener = None, !.turnID = None, !.steers = {}]
Over(t, result) == [chat[t] EXCEPT !.pc = "over", !.result = result, !.inbox = <<>>, !.input = {}]
ChatReturns(t, m, result) == msp' = Quiet(m) /\ chat' = [chat EXCEPT ![t] = Over(t, result)]

(* Variants named Faulty... put one bug into the definition that follows:  *)
(* they show that a property notices it, and nothing else uses them.       *)
FaultyStartTurn(t) ==
    /\ ChatAt(t, "start")
    /\ \/ /\ msp.live /\ UnbornNatives # {}
          /\ Begun(NewNative, t, "running", chat[t].input)
          /\ chat' = [chat EXCEPT ![t] = [chat[t] EXCEPT !.pc = "started", !.native = NewNative]]
          /\ msp' = [msp EXCEPT !.listener = None]
       \/ ChatReturns(t, Dead, "error") /\ UNCHANGED native
    /\ UNCHANGED <<send, posted>>

(* turn/start: the host starts a turn, or the call fails and the session   *)
(* is closed.                                                              *)
StartTurn(t) ==
    /\ ChatAt(t, "start")
    /\ \/ /\ msp.live /\ UnbornNatives # {}
          /\ Begun(NewNative, t, "running", chat[t].input)
          /\ chat' = [chat EXCEPT ![t] = [chat[t] EXCEPT !.pc = "started", !.native = NewNative]]
          /\ UNCHANGED msp
       \/ ChatReturns(t, Dead, "error") /\ UNCHANGED native
    /\ UNCHANGED <<send, posted>>

Started(t) ==
    /\ ChatAt(t, "started")
    /\ msp' = [msp EXCEPT !.turnID = chat[t].native]
    /\ ChatGoes(t, "running")
    /\ UNCHANGED <<send, native, posted>>

(* An event while the turn runs.  Those of other turns are handled as      *)
(* between turns; the end of its own ends it.                              *)
HandleEvent(t) ==
    LET event == Head(chat[t].inbox)  own == event.turn = chat[t].native
        rest == ChatReads(t) IN
    /\ ChatAt(t, "running") /\ chat[t].inbox # <<>>
    /\ native' = Answered(event)
    /\ \/ /\ own /\ event.kind = "text"
          /\ chat' = [chat EXCEPT ![t] = [rest EXCEPT !.answers = @ \cup {event.turn}]]
          /\ UNCHANGED <<msp, posted>>
       \/ /\ own /\ event.kind = "completed"
          /\ chat' = [chat EXCEPT ![t] = [rest EXCEPT !.pc = "verdict"]]
          /\ msp' = [msp EXCEPT !.turnID = None]
          /\ UNCHANGED posted
       \/ /\ own /\ event.kind = "failed"
          /\ ChatReturns(t, msp, "error")
          /\ UNCHANGED posted
       \/ /\ ~own \/ event.kind = "ask"
          /\ chat' = [chat EXCEPT ![t] = rest]
          /\ msp' = AfterIdle(msp, event) /\ posted' = Posts(event)
    /\ UNCHANGED send

(* The caller's context ends: the turn is interrupted, which may take 10 s *)
(* during which nobody reads the channel.                                  *)
CancelTurn(t) ==
    /\ ChatAt(t, "running")
    /\ ChatGoes(t, "stopping")
    /\ msp' = [msp EXCEPT !.turnID = None]
    /\ UNCHANGED <<send, native, posted>>

TurnInterrupted(t) ==
    /\ ChatAt(t, "stopping")
    /\ ChatReturns(t, msp, "cancelled")
    /\ UNCHANGED <<send, native, posted>>

ChatGone(t) ==
    /\ ChatAt(t, "running") \/ ChatAt(t, "compact") \/ ChatAt(t, "compacting")
    /\ ~msp.live
    /\ ChatReturns(t, msp, "error")
    /\ UNCHANGED <<send, native, posted>>

-----------------------------------------------------------------------------
(* Steers.                                                                 *)

(* A message is sent to the running turn and put on its list.              *)
Send(m) ==
    /\ send[m].pc = "idle" /\ msp.turnID # None
    /\ send' = [send EXCEPT ![m] = [send[m] EXCEPT !.pc = "sent", !.turn = msp.turnID]]
    /\ msp' = [msp EXCEPT !.steers = @ \cup {m}]
    /\ UNCHANGED <<chat, native, posted>>

(* The host's answer reaches the sender, or its context ends or the        *)
(* connection is lost; a message not accepted leaves the list.             *)
Sent(m) ==
    /\ send[m].pc = "sent"
    /\ \E told \in {"taken", "refused", "error"} :
        /\ told # "error" => send[m].host = told
        /\ send' = [send EXCEPT ![m] = [send[m] EXCEPT !.pc = "over", !.told = told]]
        /\ msp' = IF told = "taken" THEN msp ELSE [msp EXCEPT !.steers = @ \ {m}]
    /\ UNCHANGED <<chat, native, posted>>

AllAnswered == \A m \in msp.steers : send[m].pc = "over"
Rejected == {m \in msp.steers : send[m].fate = "rejected"}
Settled == \A m \in msp.steers : send[m].fate # "doomed"

(* Missed messages are the input of one more turn; without any the call    *)
(* returns its answer.                                                     *)
Concludes(t, missed, late) ==
    /\ msp' = IF missed = {} THEN Quiet(msp) ELSE [msp EXCEPT !.steers = {}]
    /\ LET c == IF missed = {} THEN Over(t, "answer")
                ELSE [chat[t] EXCEPT !.pc = "start", !.input = missed]
       IN chat' = [chat EXCEPT ![t] = [c EXCEPT !.late = chat[t].late \/ late]]

FaultyVerdict(t) ==
    /\ ChatAt(t, "verdict")
    /\ Concludes(t, Rejected, FALSE)
    /\ UNCHANGED <<send, native, posted>>

(* The deadline of 2 s once every steer is answered, by when the journal   *)
(* has the rejections of the turn that ended.                              *)
Verdict(t) ==
    /\ ChatAt(t, "verdict") /\ AllAnswered /\ (Settled \/ Rejected = msp.steers)
    /\ Concludes(t, Rejected, FALSE)
    /\ UNCHANGED <<send, native, posted>>

(* After 15 s, with steers perhaps still unanswered; and when the context  *)
(* ends or the process is gone, which asks for nothing more.               *)
VerdictGivesUp(t) ==
    /\ ChatAt(t, "verdict") /\ msp.steers # {}
    /\ Concludes(t, Rejected, TRUE) \/ Concludes(t, {}, TRUE)
    /\ UNCHANGED <<send, native, posted>>

VerdictHandles(t) ==
    LET event == Head(chat[t].inbox) IN
    /\ ChatAt(t, "verdict") /\ chat[t].inbox # <<>> /\ msp.steers # {}
    /\ chat' = [chat EXCEPT ![t] = ChatReads(t)]
    /\ msp' = AfterIdle(msp, event) /\ posted' = Posts(event) /\ native' = Answered(event)
    /\ UNCHANGED send

-----------------------------------------------------------------------------
(* Compaction: only its own end is looked at.                              *)

Compact(t) ==
    /\ ChatAt(t, "compact") /\ msp.live
    /\ \/ ChatGoes(t, "compacting") /\ UNCHANGED msp
       \/ ChatReturns(t, msp, "error")
    /\ UNCHANGED <<send, native, posted>>

CompactReads(t) ==
    /\ ChatAt(t, "compacting") /\ chat[t].inbox # <<>>
    /\ \/ /\ Head(chat[t].inbox).kind = "compacted"
          /\ ChatReturns(t, msp, "compacted")
       \/ /\ Head(chat[t].inbox).kind # "compacted"
          /\ chat' = [chat EXCEPT ![t] = ChatReads(t)] /\ UNCHANGED msp
    /\ UNCHANGED <<send, native, posted>>

CompactCancelled(t) ==
    /\ ChatAt(t, "compacting")
    /\ ChatReturns(t, msp, "cancelled")
    /\ UNCHANGED <<send, native, posted>>

-----------------------------------------------------------------------------
(* The host.                                                               *)

(* A Monitor wakes Muse; a call that has no turn yet is left one (bound).  *)
HostWakes ==
    /\ msp.live /\ UnbornNatives # {} /\ Cardinality({k \in Natives : native[k].by = Host}) < MaxWakes
    /\ Cardinality(UnbornNatives) > Cardinality({t \in Chats : ~ChatAt(t, "over") /\ chat[t].native = None})
    /\ Begun(NewNative, Host, "running", {})
    /\ UNCHANGED <<msp, chat, send, posted>>

HostWrites(n) ==
    /\ HostRuns(n) /\ ~native[n].wrote /\ native[n].asks # "open"
    /\ native' = [native EXCEPT ![n].wrote = TRUE]
    /\ msp' = Emitted(Event("text", n))
    /\ UNCHANGED <<chat, send, posted>>

HostAsks(n) ==
    /\ HostRuns(n) /\ native[n].asks = "none"
    /\ Cardinality({k \in Natives : native[k].asks # "none"}) < MaxAsks
    /\ native' = [native EXCEPT ![n].asks = "open"]
    /\ msp' = Emitted(Event("ask", n))
    /\ UNCHANGED <<chat, send, posted>>

(* A turn that completes has written its text.  The steers it accepted and *)
(* did not read are lost to it.                                            *)
HostEnds(n, kind) ==
    /\ HostRuns(n)
    /\ kind = "completed" => native[n].wrote /\ native[n].asks # "open"
    /\ msp' = Emitted(Event(kind, n))
    /\ native' = [native EXCEPT ![n] = [native[n] EXCEPT !.state = "over",
                                                        !.asks = IF @ = "open" THEN "done" ELSE @]]
    /\ send' = [m \in Sends |-> IF send[m].turn = n /\ send[m].host = "taken" /\ send[m].fate = "waiting"
                                THEN [send[m] EXCEPT !.fate = "doomed"] ELSE send[m]]
    /\ UNCHANGED <<chat, posted>>

(* The host answers turn/steer, perhaps after the turn it names has ended. *)
HostAnswers(m) ==
    /\ msp.live /\ send[m].turn # None /\ send[m].host = "none"
    /\ \E host \in {"taken", "refused"} :
        send' = [send EXCEPT ![m] = [send[m] EXCEPT
                    !.host = host,
                    !.fate = IF host = "taken" /\ ~HostRuns(send[m].turn) THEN "doomed" ELSE @]]
    /\ UNCHANGED <<msp, chat, native, posted>>

HostReads(m) ==
    /\ send[m].turn # None /\ send[m].host = "taken" /\ send[m].fate = "waiting"
    /\ HostRuns(send[m].turn) /\ ~native[send[m].turn].wrote
    /\ send' = [send EXCEPT ![m].fate = "read"]
    /\ native' = [native EXCEPT ![send[m].turn].reads = @ \cup {m}]
    /\ UNCHANGED <<msp, chat, posted>>

(* The journal's turn_submit.rejected row.                                 *)
HostRejects(m) ==
    /\ send[m].fate = "doomed"
    /\ send' = [send EXCEPT ![m].fate = "rejected"]
    /\ UNCHANGED <<msp, chat, native, posted>>

HostCompacts(t) ==
    /\ ChatAt(t, "compacting") /\ msp.live /\ chat[t].native = None /\ UnbornNatives # {}
    /\ Begun(NewNative, t, "over", {})
    /\ chat' = [chat EXCEPT ![t].native = NewNative]
    /\ msp' = Emitted(Event("compacted", NewNative))
    /\ UNCHANGED <<send, posted>>

HostDies ==
    /\ msp.live
    /\ msp' = Dead
    /\ UNCHANGED <<chat, send, native, posted>>

ChatStep(t) == \/ StartTurn(t) \/ Started(t) \/ HandleEvent(t) \/ TurnInterrupted(t) \/ ChatGone(t)
               \/ Verdict(t) \/ VerdictHandles(t) \/ Compact(t) \/ CompactReads(t)
HostStep(n) == HostWrites(n) \/ HostAsks(n) \/ \E kind \in Ends : HostEnds(n, kind)
MspPump == MspTakes \/ MspDelivers

MspNext ==
    \/ MspPump \/ HostWakes \/ HostDies
    \/ \E t \in Chats : \/ ChatStep(t) \/ LockChat(t) \/ CancelTurn(t) \/ VerdictGivesUp(t)
                        \/ CompactCancelled(t) \/ HostCompacts(t)
    \/ \E m \in Sends : Send(m) \/ Sent(m) \/ HostAnswers(m) \/ HostReads(m) \/ HostRejects(m)
    \/ \E n \in Natives : HostStep(n)

MspSpec == MspInit /\ [][MspNext]_mspVars

(* The goroutines of the adapter go on (one call at a time has the mutex), *)
(* one of the calls that wait when another has returned gets the mutex, a  *)
(* sender hears in the end, and the host writes, completes, compacts and   *)
(* rejects what it has begun, unless it waits for an answer itself.        *)
LockNext == (\E u \in Chats : ChatAt(u, "over")) /\ \E t \in Chats : LockChat(t)
MspFairness ==
    /\ WF_mspVars(MspPump)
    /\ WF_mspVars(\E t \in Chats : ChatStep(t))
    /\ WF_mspVars(LockNext) /\ WF_mspVars(\E t \in Chats : HostCompacts(t))
    /\ \A m \in Sends : WF_mspVars(Sent(m)) /\ WF_mspVars(HostRejects(m))
    /\ \A n \in Natives : WF_mspVars(HostWrites(n)) /\ WF_mspVars(HostEnds(n, "completed"))
MspFairSpec == MspSpec /\ MspFairness

-----------------------------------------------------------------------------
(* Properties.                                                             *)

MspEvents == [kind : {"text", "ask", "completed", "failed", "compacted"}, turn : Natives]
MspHeld == [event : MspEvents, to : Chats]
MspRecords == [live : BOOLEAN, holder : Chats \cup {None}, listener : Chats \cup {None},
               turnID : Natives \cup {None}, steers : SUBSET Sends, events : Seq(MspEvents),
               hand : Seq(MspHeld), wake : SUBSET Natives]
ChatRecords == [pc : {"lock", "start", "started", "running", "stopping", "verdict",
                      "compact", "compacting", "over"},
                native : Natives \cup {None}, input : SUBSET Sends, inbox : Seq(MspEvents),
                answers : SUBSET Natives, late : BOOLEAN,
                result : {"none", "answer", "error", "cancelled", "compacted"}]
SendRecords == [pc : {"idle", "sent", "over"}, turn : Natives \cup {None},
                host : {"none", "taken", "refused"}, fate : {"waiting", "read", "doomed", "rejected"},
                told : {"none", "taken", "refused", "error"}]
NativeRecords == [by : Chats \cup {None, Host}, state : {"unborn", "running", "over"},
                  wrote : BOOLEAN, asks : {"none", "open", "done"}, reads : SUBSET Sends]

(* Types of the variables.                                                 *)
MspTypeOK ==
    /\ msp \in MspRecords /\ chat \in [Chats -> ChatRecords] /\ send \in [Sends -> SendRecords]
    /\ native \in [Natives -> NativeRecords] /\ posted \subseteq Natives

ReadersOf(m) == {n \in Natives : m \in native[n].reads}

(* A message that turn/steer took is read by one turn of the call it was   *)
(* sent to, be it the next one, and never by two; the answer of the call   *)
(* holds the text of that turn.  Calls that failed, that were cancelled or *)
(* whose wait for the verdict ended early are excepted.                    *)
SteersAreAnswered == \A m \in Sends :
    /\ Cardinality(ReadersOf(m)) <= 1
    /\ send[m].turn # None => LET t == native[send[m].turn].by IN
        send[m].told = "taken" /\ chat[t].result = "answer" /\ ~chat[t].late =>
            \E n \in ReadersOf(m) : n \in chat[t].answers /\ native[n].by = t

(* A turn sees its end, and so do those queued behind it: no event that a  *)
(* call waits for is dropped or lost to the listener of another call, and  *)
(* once one call has begun, every call gets the mutex and returns.         *)
TurnsReturn == \A t \in Chats : []<>(ChatAt(t, "over") \/ \A u \in Chats : ChatAt(u, "lock"))

(* A request of the host is answered while its process lives: otherwise it *)
(* "would hold that turn and every message queued behind it".              *)
RequestsAreAnswered == \A n \in Natives : native[n].asks = "open" ~> (native[n].asks # "open" \/ ~msp.live)
=============================================================================
