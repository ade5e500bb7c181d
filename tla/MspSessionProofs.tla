---------------------------- MODULE MspSessionProofs ------------------------
(***************************************************************************)
(* Proofs about MspSession for any number of calls, messages and native    *)
(* turns: a message that turn/steer took is read once, by a turn of its    *)
(* call, and the answer of the call holds the text of that turn.           *)
(***************************************************************************)
EXTENDS MspSession, SequenceTheorems, FiniteSetTheorems, TLAPS

(* Where a call has the turn mutex.                                        *)
Busy == {"start", "started", "running", "stopping", "verdict", "compact", "compacting"}

(* The call that has the mutex is the one that the pump listens for; only  *)
(* while its turn runs there is a turn to steer.                           *)
HolderInv ==
    /\ msp.listener = msp.holder
    /\ \A t \in Chats : chat[t].pc \in Busy <=> msp.holder = t
    /\ msp.turnID # None => \E t \in Chats : chat[t].pc = "running" /\ msp.turnID = chat[t].native

(* Calls that have not begun have nothing, and only those that are over    *)
(* have a result.                                                          *)
CallInv == \A t \in Chats :
    /\ chat[t].pc = "lock" => chat[t].native = None /\ chat[t].input = {}
    /\ chat[t].pc \in {"started", "running", "stopping", "verdict"} => chat[t].native # None
    /\ chat[t].result # "none" => chat[t].pc = "over"
    /\ chat[t].native # None => native[chat[t].native].by = t
    /\ chat[t].pc = "verdict" => native[chat[t].native].state = "over"

(* A native turn has somebody who began it.                                *)
NativeInv == \A n \in Natives :
    /\ native[n].by = None <=> native[n].state = "unborn"
    /\ native[n].state = "unborn" => native[n].reads = {} /\ ~native[n].wrote
    /\ native[n].by \in Chats => chat[native[n].by].pc # "lock"

(* The text of every earlier turn of a call is in its answer, and that of  *)
(* the last one from the end of the turn on.                               *)
AnswerInv == \A t \in Chats, n \in Natives : native[n].by = t =>
    \/ n \in chat[t].answers
    \/ chat[t].native = n /\ chat[t].pc \in {"started", "running", "stopping", "compacting"}
    \/ chat[t].pc = "over" /\ chat[t].result # "answer"

(* An event is of a turn that began, the end of one that is over.          *)
Known(event) == /\ native[event.turn].state # "unborn"
                /\ event.kind \in Ends => native[event.turn].state = "over"
EventInv ==
    /\ \A i \in DOMAIN msp.events : Known(msp.events[i])
    /\ msp.hand # <<>> => Known(msp.hand[1].event)
    /\ \A t \in Chats : \A i \in DOMAIN chat[t].inbox : Known(chat[t].inbox[i])

(* The text of a turn comes before its end: it is in the answer, in the    *)
(* channel of the call, in the hand of the pump or among the events, and   *)
(* no end stands before it.                                                *)
Text(n) == Event("text", n)
End(n)  == Event("completed", n)
Has(q, e) == \E i \in DOMAIN q : q[i] = e
Preceded(q, e, x) == \A j \in DOMAIN q : q[j] = x => \E i \in DOMAIN q : i < j /\ q[i] = e
InHand(t, e) == msp.hand # <<>> /\ msp.hand[1] = [event |-> e, to |-> t]
Arrived(t, n) == Has(chat[t].inbox, Text(n))
TakenUp(t, n) == Arrived(t, n) \/ InHand(t, Text(n))
FlowOf(t, n) ==
    \/ n \in chat[t].answers
    \/ /\ Preceded(chat[t].inbox, Text(n), End(n))
       /\ InHand(t, End(n)) => Arrived(t, n)
       /\ TakenUp(t, n) \/ Preceded(msp.events, Text(n), End(n))
       /\ native[n].wrote /\ msp.live => TakenUp(t, n) \/ Has(msp.events, Text(n))
FlowInv == \A t \in Chats : chat[t].pc \in {"started", "running"} => FlowOf(t, chat[t].native)

(* Steers: a message belongs to the call whose turn it was sent to; it is  *)
(* on the list until its sender hears no, or the call has the verdict.     *)
SendInv == \A m \in Sends :
    /\ send[m].turn = None <=> send[m].pc = "idle"
    /\ send[m].pc = "over" <=> send[m].told # "none"
    /\ send[m].turn # None => native[send[m].turn].by \in Chats
    /\ send[m].told = "taken" => send[m].host = "taken"
    /\ send[m].fate # "waiting" => send[m].host = "taken" /\ send[m].turn # None
    /\ send[m].host = "taken" => send[m].turn # None
    /\ send[m].host = "taken" /\ native[send[m].turn].state # "running" => send[m].fate # "waiting"
ListInv == \A m \in msp.steers :
    /\ send[m].pc = "over" => send[m].told = "taken"
    /\ send[m].turn # None
    /\ \E t \in Chats : /\ chat[t].pc \in {"running", "stopping", "verdict"}
                        /\ send[m].turn = chat[t].native

(* A message is read by the turn it was sent to, or was rejected and is    *)
(* the input of one later turn of the call.                                *)
Pending(m, t) == chat[t].pc = "start" /\ m \in chat[t].input
ReadInv == \A m \in Sends :
    /\ send[m].fate = "read" => m \in native[send[m].turn].reads
    /\ \A n \in ReadersOf(m) :
        /\ send[m].turn # None /\ native[n].by = native[send[m].turn].by
        /\ \/ send[m].fate = "read" /\ n = send[m].turn
           \/ send[m].fate = "rejected" /\ m \notin msp.steers /\ ~Pending(m, native[n].by)
        /\ \A k \in ReadersOf(m) : k = n
    /\ \A t \in Chats : Pending(m, t) =>
        send[m].fate = "rejected" /\ m \notin msp.steers /\ native[send[m].turn].by = t

(* No message that was or may be taken is forgotten, unless a wait for     *)
(* verdicts ended early or the call failed.                                *)
Kept(m, t) == send[m].told = "taken" /\ (Pending(m, t) \/ ReadersOf(m) # {})
TrackInv == \A m \in Sends, t \in Chats :
    send[m].turn # None /\ native[send[m].turn].by = t /\ ~chat[t].late /\ send[m].told \in {"none", "taken"} =>
        /\ chat[t].pc # "over" => m \in msp.steers \/ Kept(m, t)
        /\ chat[t].result = "answer" => Kept(m, t)

MspInv == MspTypeOK /\ HolderInv /\ CallInv /\ NativeInv /\ AnswerInv /\ EventInv /\ FlowInv
          /\ SendInv /\ ListInv /\ ReadInv /\ TrackInv

-----------------------------------------------------------------------------
(* Queues.                                                                 *)

LEMMA TailFacts ==
    ASSUME NEW S, NEW q \in Seq(S), q # <<>>
    PROVE  /\ Head(q) \in S /\ Tail(q) \in Seq(S) /\ 1 \in DOMAIN q /\ Head(q) = q[1]
           /\ \A i \in DOMAIN Tail(q) : i \in Nat /\ i + 1 \in DOMAIN q /\ Tail(q)[i] = q[i + 1]
           /\ \A i \in DOMAIN q : i \in Nat /\ (i # 1 => i - 1 \in DOMAIN Tail(q) /\ Tail(q)[i - 1] = q[i])
<1> DEFINE p == Tail(q)
<1>1. /\ p \in Seq(S) /\ Len(p) = Len(q) - 1 /\ Len(q) \in Nat \ {0} /\ DOMAIN q = 1..Len(q)
      /\ Head(q) = q[1] /\ Head(q) \in S
  BY HeadTailProperties, EmptySeq
<1>2. DOMAIN p = 1..(Len(q) - 1) /\ \A i \in DOMAIN p : p[i] = q[i + 1]
  BY <1>1, HeadTailProperties
<1> HIDE DEF p
<1>3. \A i \in DOMAIN p : i \in Nat /\ i + 1 \in DOMAIN q /\ p[i] = q[i + 1]
  BY <1>1, <1>2
<1>4. \A i \in DOMAIN q : i \in Nat /\ (i # 1 => i - 1 \in DOMAIN p /\ p[i - 1] = q[i])
  BY <1>1, <1>2
<1> QED
  BY <1>1, <1>3, <1>4 DEF p

LEMMA AppendFacts ==
    ASSUME NEW S, NEW q \in Seq(S), NEW e \in S
    PROVE  \E k \in Nat :
             /\ Append(q, e) \in Seq(S) /\ k \in DOMAIN Append(q, e) /\ Append(q, e)[k] = e
             /\ \A i \in DOMAIN q : i < k /\ i \in DOMAIN Append(q, e) /\ Append(q, e)[i] = q[i]
             /\ \A i \in DOMAIN Append(q, e) : i \in Nat /\ (i = k \/ i \in DOMAIN q)
<1> DEFINE p == Append(q, e)  k == Len(q) + 1
<1>1. /\ p \in Seq(S) /\ DOMAIN p = 1..(Len(q) + 1) /\ DOMAIN q = 1..Len(q) /\ Len(q) \in Nat
      /\ p[k] = e /\ \A i \in DOMAIN q : p[i] = q[i]
  BY AppendProperties
<1> HIDE DEF p
<1>2. /\ k \in Nat /\ k \in DOMAIN p /\ \A i \in DOMAIN q : i < k /\ i \in DOMAIN p
      /\ \A i \in DOMAIN p : i \in Nat /\ (i = k \/ i \in DOMAIN q)
  BY <1>1
<1> QED
  BY <1>1, <1>2 DEF p

(* The head of a queue is taken off.                                       *)
LEMMA TailOrder ==
    ASSUME NEW S, NEW q \in Seq(S), q # <<>>, NEW e, NEW x
    PROVE  /\ Has(q, e) => Head(q) = e \/ Has(Tail(q), e)
           /\ Preceded(q, e, x) => Head(q) # x
           /\ Preceded(q, e, x) /\ Head(q) # e => Preceded(Tail(q), e, x)
<1> DEFINE p == Tail(q)
<1>1. /\ 1 \in DOMAIN q /\ Head(q) = q[1]
      /\ \A i \in DOMAIN p : i \in Nat /\ i + 1 \in DOMAIN q /\ p[i] = q[i + 1]
      /\ \A i \in DOMAIN q : i \in Nat /\ (i # 1 => i - 1 \in DOMAIN p /\ p[i - 1] = q[i])
  BY TailFacts
<1>2. \A i \in DOMAIN q : ~(i < 1)
  <2>1. DOMAIN q = 1..Len(q) /\ Len(q) \in Nat
    BY LenProperties
  <2> QED
    BY <2>1
<1> HIDE DEF p
<1>3. Has(q, e) => Head(q) = e \/ Has(p, e)
  BY <1>1 DEF Has
<1>4. Preceded(q, e, x) => Head(q) # x
  BY <1>1, <1>2 DEF Preceded
<1>5. ASSUME Preceded(q, e, x), Head(q) # e, NEW j \in DOMAIN p, p[j] = x
      PROVE  \E i \in DOMAIN p : i < j /\ p[i] = e
  <2>1. PICK i \in DOMAIN q : i < j + 1 /\ q[i] = e
    BY <1>1, <1>5 DEF Preceded
  <2>2. i # 1 /\ i - 1 \in DOMAIN p /\ p[i - 1] = e /\ i - 1 < j
    BY <1>1, <1>5, <2>1
  <2> QED
    BY <2>2
<1> QED
  BY <1>3, <1>4, <1>5 DEF Preceded, p

(* An event is put at the end of a queue.                                  *)
LEMMA AppendOrder ==
    ASSUME NEW S, NEW q \in Seq(S), NEW y \in S, NEW e, NEW x
    PROVE  /\ Has(q, e) \/ y = e => Has(Append(q, y), e)
           /\ Preceded(q, e, x) /\ (y = x => Has(q, e)) => Preceded(Append(q, y), e, x)
<1> DEFINE p == Append(q, y)
<1> HIDE DEF p
<1>1. PICK k \in Nat :
                      /\ k \in DOMAIN p /\ p[k] = y
                      /\ \A i \in DOMAIN q : i < k /\ i \in DOMAIN p /\ p[i] = q[i]
                      /\ \A i \in DOMAIN p : i \in Nat /\ (i = k \/ i \in DOMAIN q)
  BY AppendFacts DEF p
<1>2. Has(q, e) \/ y = e => Has(p, e)
  BY <1>1 DEF Has
<1>3. ASSUME Preceded(q, e, x), y = x => Has(q, e), NEW j \in DOMAIN p, p[j] = x
      PROVE  \E i \in DOMAIN p : i < j /\ p[i] = e
  <2>1. CASE j = k
    <3>1. PICK i \in DOMAIN q : q[i] = e
      BY <1>1, <1>3, <2>1 DEF Has
    <3> QED
      BY <1>1, <2>1, <3>1
  <2>2. CASE j \in DOMAIN q
    <3>1. q[j] = x
      BY <1>1, <1>3, <2>2
    <3>2. PICK i \in DOMAIN q : i < j /\ q[i] = e
      BY <1>3, <2>2, <3>1 DEF Preceded
    <3> QED
      BY <1>1, <3>2
  <2>3. j = k \/ j \in DOMAIN q
    BY <1>1, <1>3
  <2> QED
    BY <2>1, <2>2, <2>3
<1> QED
  BY <1>2, <1>3 DEF Preceded, p

-----------------------------------------------------------------------------
(* What MspTypeOK says of the fields, one by one.                          *)
MspKinds ==
    /\ msp \in MspRecords /\ msp.live \in BOOLEAN /\ msp.holder \in Chats \cup {None}
    /\ msp.listener \in Chats \cup {None} /\ msp.turnID \in Natives \cup {None} /\ msp.steers \subseteq Sends
    /\ msp.events \in Seq(MspEvents) /\ msp.hand \in Seq(MspHeld)
    /\ msp.wake \subseteq Natives
ChatKinds == \A t \in Chats :
    /\ chat[t] \in ChatRecords /\ chat[t].native \in Natives \cup {None} /\ chat[t].input \subseteq Sends
    /\ chat[t].inbox \in Seq(MspEvents) /\ chat[t].answers \subseteq Natives /\ chat[t].late \in BOOLEAN
SendKinds == \A m \in Sends : send[m] \in SendRecords /\ send[m].turn \in Natives \cup {None}
NativeKinds == \A n \in Natives :
    /\ native[n] \in NativeRecords /\ native[n].by \in Chats \cup {None, Host}
    /\ native[n].reads \subseteq Sends /\ native[n].wrote \in BOOLEAN
Kinds == /\ MspKinds /\ ChatKinds /\ SendKinds /\ NativeKinds
         /\ DOMAIN chat = Chats /\ DOMAIN send = Sends /\ DOMAIN native = Natives

LEMMA KindsHold == MspTypeOK => Kinds
<1> SUFFICES ASSUME MspTypeOK PROVE Kinds
  OBVIOUS
<1>1. MspKinds
  BY DEF MspTypeOK, MspKinds, MspRecords
<1>2. ChatKinds
  BY DEF MspTypeOK, ChatKinds, ChatRecords
<1>3. SendKinds
  BY DEF MspTypeOK, SendKinds, SendRecords
<1>4. NativeKinds
  BY DEF MspTypeOK, NativeKinds, NativeRecords
<1> QED
  BY <1>1, <1>2, <1>3, <1>4 DEF Kinds, MspTypeOK

(* Events in the queues and in the hand of the pump.                       *)
EventTypes ==
    /\ \A i \in DOMAIN msp.events : msp.events[i] \in MspEvents
    /\ msp.hand # <<>> => /\ msp.hand[1] \in MspHeld /\ msp.hand[1].event \in MspEvents
                          /\ msp.hand[1].to \in Chats
    /\ \A t \in Chats : \A i \in DOMAIN chat[t].inbox : chat[t].inbox[i] \in MspEvents
LEMMA EventsTyped == Kinds => EventTypes
<1> SUFFICES ASSUME Kinds PROVE EventTypes
  OBVIOUS
<1>1. \A i \in DOMAIN msp.events : msp.events[i] \in MspEvents
  BY ElementOfSeq DEF Kinds, MspKinds
<1>2. msp.hand # <<>> => msp.hand[1] \in MspHeld
  BY EmptySeq, ElementOfSeq DEF Kinds, MspKinds
<1>3. \A t \in Chats : \A i \in DOMAIN chat[t].inbox : chat[t].inbox[i] \in MspEvents
  BY ElementOfSeq DEF Kinds, ChatKinds
<1> QED
  BY <1>1, <1>2, <1>3 DEF EventTypes, MspHeld

(* The calls keep all but their channels.                                  *)
CallsStay == \A t \in Chats :
    /\ chat'[t].pc = chat[t].pc /\ chat'[t].native = chat[t].native /\ chat'[t].input = chat[t].input
    /\ chat'[t].answers = chat[t].answers /\ chat'[t].late = chat[t].late /\ chat'[t].result = chat[t].result

(* The session keeps its call and the turn to steer.                       *)
HolderStays == msp'.holder = msp.holder /\ msp'.listener = msp.listener /\ msp'.turnID = msp.turnID

(* The native turns keep what they are.                                    *)
NativesStay == \A n \in Natives :
    native'[n].by = native[n].by /\ native'[n].state = native[n].state /\ native'[n].reads = native[n].reads

(* Those that began keep whose they are and whether they run.              *)
BegunStay == \A n \in Natives : native[n].by # None =>
    native'[n].by = native[n].by /\ native'[n].state = native[n].state

(* Nothing changes but the events and where they are.                      *)
LEMMA CarriedKeeps ==
    ASSUME MspInv, MspTypeOK', EventInv', FlowInv', CallsStay, HolderStays, NativesStay,
           msp'.steers = msp.steers, send' = send,
           \A n \in Natives : native[n].state = "unborn" => native'[n].wrote = native[n].wrote
    PROVE  MspInv'
<1>1. Kinds
  BY KindsHold DEF MspInv
<1>2. HolderInv'
  BY <1>1 DEF MspInv, HolderInv, HolderStays, CallsStay
<1>3. CallInv'
  BY <1>1 DEF MspInv, CallInv, CallsStay, NativesStay, Kinds, ChatKinds
<1>4. NativeInv' /\ AnswerInv'
  BY <1>1 DEF MspInv, NativeInv, AnswerInv, CallsStay, NativesStay
<1>5. SendInv'
  BY <1>1 DEF MspInv, SendInv, NativesStay, Kinds, SendKinds
<1>6. ListInv'
  BY <1>1 DEF MspInv, ListInv, CallsStay
<1>7. \A m \in Sends : ReadersOf(m)' = ReadersOf(m) /\ \A t \in Chats : Pending(m, t)' = Pending(m, t)
  BY <1>1 DEF ReadersOf, Pending, CallsStay, NativesStay
<1>8. ReadInv'
  BY <1>1, <1>7 DEF MspInv, ReadInv, NativesStay, SendInv, Kinds, SendKinds, ReadersOf, NativeInv
<1>9. TrackInv'
  BY <1>1, <1>7 DEF MspInv, TrackInv, CallsStay, NativesStay, Kinds, SendKinds, Kept
<1> QED
  BY <1>2, <1>3, <1>4, <1>5, <1>6, <1>8, <1>9 DEF MspInv

(* What the messages do does not touch the calls and their turns.          *)
LEMMA MessageKeeps ==
    ASSUME MspInv, chat' = chat, HolderStays,
           msp'.events = msp.events, msp'.hand = msp.hand, msp'.live = msp.live,
           \A n \in Natives : /\ native'[n].by = native[n].by /\ native'[n].state = native[n].state
                              /\ native'[n].wrote = native[n].wrote,
           \A n \in Natives : native[n].state = "unborn" => native'[n].reads = native[n].reads
    PROVE  HolderInv' /\ CallInv' /\ NativeInv' /\ AnswerInv' /\ EventInv' /\ FlowInv'
<1>1. Kinds
  BY KindsHold DEF MspInv
<1>2. HolderInv'
  BY <1>1 DEF MspInv, HolderInv, HolderStays
<1>4. CallInv' /\ NativeInv' /\ AnswerInv'
  BY <1>1 DEF MspInv, CallInv, NativeInv, AnswerInv, Kinds, ChatKinds
<1>5. \A e \in MspEvents : Known(e) => Known(e)'
  BY DEF Known, MspEvents
<1>6. EventInv'
  <2>1. EventTypes
    BY <1>1, EventsTyped
  <2> QED
    BY <1>5, <2>1 DEF EventTypes, MspInv, EventInv
<1>7. FlowInv'
  BY <1>1 DEF MspInv, FlowInv, FlowOf, TakenUp, Arrived, InHand, Kinds, ChatKinds, CallInv
<1> QED
  BY <1>2, <1>4, <1>6, <1>7

(* The messages stay what they are while turns begin.                      *)
LEMMA SendsKeep ==
    ASSUME MspInv, send' = send, BegunStay
    PROVE  SendInv'
<1>1. Kinds
  BY KindsHold DEF MspInv
<1> SUFFICES ASSUME NEW m \in Sends, send[m].turn # None
             PROVE  /\ native'[send[m].turn].by = native[send[m].turn].by
                    /\ native'[send[m].turn].state = native[send[m].turn].state
  BY DEF MspInv, SendInv
<1> QED
  BY <1>1, MspAssumption DEF MspInv, SendInv, BegunStay, Kinds, SendKinds

-----------------------------------------------------------------------------
(* The pump.                                                               *)

(* Between turns an event changes what is kept of texts, what is posted    *)
(* and which requests wait, and nothing else.                              *)
LEMMA IdleTypes ==
    ASSUME MspTypeOK, NEW m \in MspRecords, NEW event \in MspEvents
    PROVE  /\ AfterIdle(m, event) \in MspRecords /\ Posts(event) \subseteq Natives
           /\ \E W \in SUBSET Natives : AfterIdle(m, event) = [m EXCEPT !.wake = W]
           /\ Answered(event) \in [Natives -> NativeRecords]
           /\ \A n \in Natives : /\ Answered(event)[n].by = native[n].by
                                 /\ Answered(event)[n].state = native[n].state
                                 /\ Answered(event)[n].reads = native[n].reads
                                 /\ Answered(event)[n].wrote = native[n].wrote
<1>1. Kinds
  BY KindsHold
<1>2. event.turn \in Natives
  BY DEF MspEvents
<1>3. \E W \in SUBSET Natives : AfterIdle(m, event) = [m EXCEPT !.wake = W]
  <2>1. m.wake \subseteq Natives
    BY DEF MspRecords
  <2>2. m = [m EXCEPT !.wake = m.wake]
    BY DEF MspRecords
  <2>3. m.wake \cup {event.turn} \in SUBSET Natives /\ m.wake \ {event.turn} \in SUBSET Natives
    BY <1>2, <2>1
  <2>4. CASE event.kind = "text"
    BY <2>3, <2>4 DEF AfterIdle
  <2>5. CASE event.kind \in Ends
    BY <2>3, <2>5 DEF AfterIdle, Ends
  <2>6. CASE event.kind # "text" /\ event.kind \notin Ends
    BY <2>1, <2>2, <2>6 DEF AfterIdle
  <2> QED
    BY <2>4, <2>5, <2>6
<1>4. AfterIdle(m, event) \in MspRecords
  BY <1>3 DEF MspRecords
<1>5. Posts(event) \subseteq Natives
  BY <1>1, <1>2 DEF Posts, Kinds, MspKinds, MspTypeOK
<1>6. \A r \in NativeRecords : /\ [r EXCEPT !.asks = "done"] \in NativeRecords
                               /\ [r EXCEPT !.asks = "done"].by = r.by
                               /\ [r EXCEPT !.asks = "done"].state = r.state
                               /\ [r EXCEPT !.asks = "done"].reads = r.reads
                               /\ [r EXCEPT !.asks = "done"].wrote = r.wrote
  BY DEF NativeRecords
<1>7. CASE event.kind = "ask"
  <2> DEFINE N == Answered(event)
             r == [native[event.turn] EXCEPT !.asks = "done"]
  <2>1. N = [native EXCEPT ![event.turn] = r]
    BY <1>7 DEF Answered
  <2>2. /\ r \in NativeRecords /\ r.by = native[event.turn].by /\ r.state = native[event.turn].state
        /\ r.reads = native[event.turn].reads /\ r.wrote = native[event.turn].wrote
    BY <1>1, <1>2, <1>6 DEF Kinds, NativeKinds
  <2> HIDE DEF N, r
  <2>3. N \in [Natives -> NativeRecords]
    BY <1>2, <2>1, <2>2 DEF MspTypeOK
  <2>4. \A n \in Natives : N[n].by = native[n].by /\ N[n].state = native[n].state
                           /\ N[n].reads = native[n].reads /\ N[n].wrote = native[n].wrote
    BY <1>1, <1>2, <2>1, <2>2 DEF Kinds
  <2> QED
    BY <1>3, <1>4, <1>5, <2>3, <2>4 DEF N
<1>8. CASE event.kind # "ask"
  BY <1>3, <1>4, <1>5, <1>8 DEF Answered, MspTypeOK
<1> QED
  BY <1>7, <1>8

(* An event goes from the queue into the hand of the pump.                 *)
LEMMA MspTakesKeeps ==
    ASSUME MspInv, MspTakes
    PROVE  MspInv'
<1> DEFINE event == Head(msp.events)
           rest == [msp EXCEPT !.events = Tail(@)]
<1>1. Kinds /\ EventTypes
  BY KindsHold, EventsTyped DEF MspInv
<1>2. /\ event \in MspEvents /\ Tail(msp.events) \in Seq(MspEvents)
      /\ 1 \in DOMAIN msp.events /\ event = msp.events[1]
      /\ \A i \in DOMAIN Tail(msp.events) : i + 1 \in DOMAIN msp.events /\ Tail(msp.events)[i] = msp.events[i + 1]
  BY <1>1, TailFacts DEF Kinds, MspKinds, MspTakes
<1>3. Known(event) /\ msp.hand = <<>> /\ msp.events # <<>> /\ chat' = chat /\ send' = send
  BY <1>2 DEF MspInv, EventInv, MspTakes
<1>4. rest \in MspRecords
  BY <1>1, <1>2 DEF Kinds, MspKinds, MspRecords
<1> HIDE DEF event, rest
<1>6. CASE msp.listener # None
  <2>1. /\ msp' = [rest EXCEPT !.hand = <<[event |-> event, to |-> msp.listener]>>]
        /\ native' = native /\ posted' = posted
    BY <1>6 DEF MspTakes, event, rest
  <2> DEFINE h == [event |-> event, to |-> msp.listener]
  <2>2. /\ h \in MspHeld /\ <<h>> \in Seq(MspHeld) /\ <<h>> # <<>> /\ <<h>>[1] = h
        /\ h.event = event /\ h.to = msp.listener
    BY <1>1, <1>2, <1>6 DEF Kinds, MspKinds, MspHeld
  <2>3. /\ msp' \in MspRecords /\ msp'.events = Tail(msp.events) /\ msp'.hand = <<h>> /\ msp'.live = msp.live
        /\ HolderStays /\ msp'.steers = msp.steers
    <3> HIDE DEF h
    <3> QED
      BY <1>4, <2>1, <2>2 DEF MspRecords, HolderStays, rest, h
  <2> HIDE DEF h
  <2>4. MspTypeOK'
    BY <1>3, <2>1, <2>3 DEF MspInv, MspTypeOK
  <2>5. EventInv'
    <3>1. \A e : Known(e)' <=> Known(e)
      BY <2>1 DEF Known
    <3>2. \A i \in DOMAIN msp'.events : Known(msp'.events[i])
      BY <1>2, <2>3 DEF MspInv, EventInv
    <3>3. Known(msp'.hand[1].event)
      BY <1>3, <2>2, <2>3
    <3> QED
      BY <1>3, <3>1, <3>2, <3>3 DEF MspInv, EventInv
  <2>6. FlowInv'
    <3> SUFFICES ASSUME NEW t \in Chats, chat[t].pc \in {"started", "running"},
                        chat[t].native \notin chat[t].answers
                 PROVE  FlowOf(t, chat[t].native)'
      BY <1>3 DEF FlowInv, FlowOf
    <3> DEFINE n == chat[t].native
    <3>1. FlowOf(t, n) /\ msp.listener = t
      BY DEF MspInv, FlowInv, HolderInv, Busy
    <3>2. ~InHand(t, Text(n))
      BY <1>3 DEF InHand
    <3>3. Arrived(t, n)' = Arrived(t, n)
      BY <1>3 DEF Arrived
    <3>4. \A e : InHand(t, e)' <=> e = event
      BY <2>2, <2>3, <3>1 DEF InHand, h
    <3>5. /\ Has(msp.events, Text(n)) => event = Text(n) \/ Has(msp'.events, Text(n))
          /\ Preceded(msp.events, Text(n), End(n)) => event # End(n)
          /\ Preceded(msp.events, Text(n), End(n)) /\ event # Text(n) => Preceded(msp'.events, Text(n), End(n))
      BY <1>1, <1>3, <2>3, TailOrder DEF Kinds, MspKinds, event
    <3> QED
      BY <1>3, <2>1, <2>3, <3>1, <3>2, <3>3, <3>4, <3>5 DEF FlowOf, TakenUp
  <2>7. CallsStay /\ NativesStay
    BY <1>3, <2>1 DEF CallsStay, NativesStay
  <2> QED
    BY <1>3, <2>1, <2>3, <2>4, <2>5, <2>6, <2>7, CarriedKeeps
<1>7. CASE msp.listener = None
  <2>1. msp' = AfterIdle(rest, event) /\ posted' = Posts(event) /\ native' = Answered(event)
    BY <1>7 DEF MspTakes, event, rest
  <2>2. /\ msp' \in MspRecords /\ posted' \subseteq Natives /\ native' \in [Natives -> NativeRecords]
        /\ \E W \in SUBSET Natives : msp' = [rest EXCEPT !.wake = W]
        /\ NativesStay /\ \A n \in Natives : native'[n].wrote = native[n].wrote
    BY ZenonT(30), <1>2, <1>4, <2>1, IdleTypes DEF MspInv, NativesStay
  <2>3. /\ msp'.events = Tail(msp.events) /\ msp'.hand = msp.hand /\ msp'.live = msp.live
        /\ HolderStays /\ msp'.steers = msp.steers
    BY <1>1, <2>2 DEF MspRecords, HolderStays, rest, Kinds, MspKinds
  <2>4. MspTypeOK'
    BY <1>3, <2>2 DEF MspInv, MspTypeOK
  <2>5. \A e \in MspEvents : Known(e) => Known(e)'
    BY <2>2 DEF Known, MspEvents, NativesStay
  <2>6. EventInv'
    BY <1>1, <1>2, <1>3, <2>3, <2>5 DEF MspInv, EventInv, EventTypes
  <2>7. FlowInv'
    BY <1>3, <1>7, MspAssumption DEF MspInv, FlowInv, HolderInv, Busy
  <2>8. CallsStay
    BY <1>3 DEF CallsStay
  <2> QED
    BY <1>3, <2>2, <2>3, <2>4, <2>6, <2>7, <2>8, CarriedKeeps
<1> QED
  BY <1>6, <1>7

(* The event reaches the call, or a channel that nobody reads.             *)
LEMMA MspDeliversKeeps ==
    ASSUME MspInv, MspDelivers
    PROVE  MspInv'
<1> DEFINE h == msp.hand[1]
<1>1. Kinds /\ EventTypes /\ msp.hand # <<>>
  BY KindsHold, EventsTyped DEF MspInv, MspDelivers
<1>2. h \in MspHeld /\ h.event \in MspEvents /\ h.to \in Chats /\ Known(h.event)
  BY <1>1 DEF EventTypes, MspInv, EventInv
<1>3. /\ chat' = IF chat[h.to].pc = "over" THEN chat
                 ELSE [chat EXCEPT ![h.to].inbox = Append(@, h.event)]
      /\ msp' = [msp EXCEPT !.hand = <<>>] /\ send' = send /\ native' = native /\ posted' = posted
  BY DEF MspDelivers, ChatAt
<1> HIDE DEF h
<1> DEFINE q == Append(chat[h.to].inbox, h.event)
           c == [chat[h.to] EXCEPT !.inbox = q]
<1> HIDE DEF q
<1>4. PICK k \in Nat :
                      /\ q \in Seq(MspEvents) /\ q[k] = h.event
                      /\ \A i \in DOMAIN chat[h.to].inbox : q[i] = chat[h.to].inbox[i]
                      /\ \A i \in DOMAIN q : i = k \/ i \in DOMAIN chat[h.to].inbox
  <2> DEFINE z == chat[h.to].inbox  e == h.event
  <2>1. z \in Seq(MspEvents) /\ e \in MspEvents /\ q = Append(z, e)
    BY <1>1, <1>2 DEF Kinds, ChatKinds, q
  <2> HIDE DEF z, e
  <2>2. \E k \in Nat : /\ q \in Seq(MspEvents) /\ q[k] = e /\ \A i \in DOMAIN z : q[i] = z[i]
                       /\ \A i \in DOMAIN q : i = k \/ i \in DOMAIN z
    BY <2>1, AppendFacts
  <2> QED
    BY <2>2 DEF z, e
<1>5. \A n : /\ Has(chat[h.to].inbox, Text(n)) \/ h.event = Text(n) => Has(q, Text(n))
             /\ Preceded(chat[h.to].inbox, Text(n), End(n)) /\ (h.event = End(n) => Has(chat[h.to].inbox, Text(n)))
                  => Preceded(q, Text(n), End(n))
  BY <1>1, <1>2, AppendOrder DEF Kinds, ChatKinds, q
<1>6. chat' = chat \/ (chat' = [chat EXCEPT ![h.to] = c] /\ chat[h.to].pc # "over")
  BY <1>3 DEF q
<1>7. /\ c \in ChatRecords /\ c.inbox = q /\ c.pc = chat[h.to].pc /\ c.native = chat[h.to].native
      /\ c.input = chat[h.to].input /\ c.answers = chat[h.to].answers /\ c.late = chat[h.to].late
      /\ c.result = chat[h.to].result
  BY <1>1, <1>2, <1>4 DEF Kinds, ChatKinds, ChatRecords
<1> HIDE DEF c
<1>8. /\ msp' \in MspRecords /\ msp'.hand = <<>> /\ msp'.events = msp.events /\ msp'.live = msp.live
      /\ HolderStays /\ msp'.steers = msp.steers
  <2>1. <<>> \in Seq(MspHeld)
    OBVIOUS
  <2> QED
    BY <1>1, <1>3, <2>1 DEF Kinds, MspKinds, MspRecords, HolderStays
<1>9. MspTypeOK'
  BY <1>2, <1>3, <1>6, <1>7, <1>8 DEF MspInv, MspTypeOK
<1>10. EventInv'
  <2>1. \A e : Known(e)' <=> Known(e)
    BY <1>3 DEF Known
  <2>2. \A i \in DOMAIN q : Known(q[i])
    BY <1>2, <1>4 DEF MspInv, EventInv
  <2>3. \A t \in Chats : \A i \in DOMAIN chat'[t].inbox : Known(chat'[t].inbox[i])
    BY <1>1, <1>2, <1>6, <1>7, <2>2 DEF MspInv, EventInv, Kinds
  <2> QED
    BY <1>8, <2>1, <2>3 DEF MspInv, EventInv
<1>11. CallsStay /\ NativesStay
  BY <1>1, <1>2, <1>3, <1>6, <1>7 DEF CallsStay, NativesStay, Kinds
<1>12. FlowInv'
  <2> SUFFICES ASSUME NEW t \in Chats, chat[t].pc \in {"started", "running"},
                      chat[t].native \notin chat[t].answers
               PROVE  FlowOf(t, chat[t].native)'
    BY <1>11 DEF FlowInv, FlowOf, CallsStay
  <2> DEFINE n == chat[t].native
  <2>1. FlowOf(t, n)
    BY DEF MspInv, FlowInv
  <2>2. chat'[t].native = n /\ chat'[t].answers = chat[t].answers
    BY <1>11 DEF CallsStay
  <2>3. \A e : ~InHand(t, e)'
    BY <1>8 DEF InHand
  <2>4. CASE t # h.to
    <3>1. chat'[t].inbox = chat[t].inbox
      BY <1>1, <1>6, <2>4 DEF Kinds
    <3>2. \A e : ~InHand(t, e)
      BY <2>4 DEF InHand, h
    <3> QED
      BY <1>3, <1>8, <2>1, <2>2, <2>3, <3>1, <3>2 DEF FlowOf, TakenUp, Arrived
  <2>5. CASE t = h.to
    <3>1. chat'[t].inbox = q
      BY <1>1, <1>2, <1>3, <1>7, <2>5 DEF Kinds, c, q
    <3>2. \A e : h.event = e => InHand(t, e)
      BY <1>1, <1>2, <2>5 DEF InHand, h, MspHeld
    <3>3. \A e : InHand(t, e) => h.event = e
      BY DEF InHand, h
    <3>4. Preceded(q, Text(n), End(n)) /\ (TakenUp(t, n) => Has(q, Text(n)))
      BY <1>5, <2>1, <2>5, <3>2, <3>3 DEF FlowOf, TakenUp, Arrived
    <3> QED
      BY <1>3, <1>8, <2>1, <2>2, <2>3, <3>1, <3>4 DEF FlowOf, TakenUp, Arrived
  <2> QED
    BY <2>4, <2>5
<1> QED
  BY <1>3, <1>8, <1>9, <1>10, <1>11, <1>12, CarriedKeeps

-----------------------------------------------------------------------------
(* The end of a call.                                                      *)

(* Only the call with the mutex does something between lock and over.      *)
LEMMA OneBusy ==
    ASSUME MspInv, NEW t \in Chats, chat[t].pc \in Busy, NEW u \in Chats, u # t
    PROVE  /\ chat[u].pc \notin Busy /\ chat[u].pc \in {"lock", "over"}
           /\ chat[u].pc = "lock" => \A n \in Natives : native[n].by # u
<1>1. chat[u].pc \notin Busy
  BY DEF MspInv, HolderInv
<1>2. chat[u].pc \in {"lock", "over"}
  BY <1>1, KindsHold DEF MspInv, Kinds, ChatKinds, ChatRecords, Busy
<1> QED
  BY <1>1, <1>2 DEF MspInv, NativeInv

(* A call that ends gives up the mutex, the listener and the steers.  If   *)
(* it returns an answer, that holds the texts of its turns, and what was   *)
(* steered into them was read.                                             *)
LEMMA OverKeeps ==
    ASSUME MspInv, NEW t \in Chats, chat[t].pc \in Busy,
           NEW c \in ChatRecords, c.pc = "over", c.result # "none", c.inbox = <<>>,
           c.native = chat[t].native, c.answers = chat[t].answers,
           c.result = "answer" =>
              /\ \A n \in Natives : native[n].by = t => n \in chat[t].answers
              /\ ~c.late => \A m \in Sends :
                    send[m].turn # None /\ native[send[m].turn].by = t /\ send[m].told \in {"none", "taken"}
                      => send[m].told = "taken" /\ ReadersOf(m) # {},
           chat' = [chat EXCEPT ![t] = c], send' = send, native' = native, posted' = posted,
           msp' \in MspRecords, msp'.holder = None, msp'.listener = None, msp'.turnID = None, msp'.steers = {},
           msp'.events \in {msp.events, <<>>}, msp'.hand \in {msp.hand, <<>>}
    PROVE  MspInv'
<1>1. Kinds
  BY KindsHold DEF MspInv
<1>2. chat'[t] = c /\ \A u \in Chats : u # t => chat'[u] = chat[u] /\ chat[u].pc \in {"lock", "over"}
  BY <1>1, OneBusy DEF Kinds
<1>3. \A u \in Chats : chat'[u].pc \in {"lock", "over"}
  BY <1>2
<1>4. MspTypeOK'
  BY DEF MspInv, MspTypeOK
<1>5. HolderInv'
  BY <1>3, MspAssumption DEF HolderInv, Busy
<1>6. CallInv'
  BY <1>2 DEF MspInv, CallInv
<1>7. NativeInv'
  BY <1>2 DEF MspInv, NativeInv
<1>8. AnswerInv'
  <2> SUFFICES ASSUME NEW u \in Chats, NEW n \in Natives, native[n].by = u
               PROVE  n \in chat'[u].answers \/ (chat'[u].pc = "over" /\ chat'[u].result # "answer")
    BY DEF AnswerInv
  <2>1. CASE u = t
    BY <1>2, <2>1
  <2>2. CASE u # t
    BY <1>2, <2>2, OneBusy DEF MspInv, AnswerInv
  <2> QED
    BY <2>1, <2>2
<1>9. EventInv'
  <2>1. \A e : Known(e)' <=> Known(e)
    BY DEF Known
  <2>2. \A u \in Chats : \A i \in DOMAIN chat'[u].inbox : Known(chat'[u].inbox[i])
    BY <1>2 DEF MspInv, EventInv
  <2> QED
    BY <2>1, <2>2 DEF MspInv, EventInv
<1>10. FlowInv'
  BY <1>3 DEF FlowInv
<1>11. SendInv'
  BY DEF MspInv, SendInv
<1>12. ListInv'
  BY DEF ListInv
<1>13. \A m \in Sends : ReadersOf(m)' = ReadersOf(m) /\ \A u \in Chats : ~Pending(m, u)'
  BY <1>3 DEF ReadersOf, Pending
<1>14. ReadInv'
  <2>1. \A m \in Sends : send[m].fate = "read" => m \in native[send[m].turn].reads
    BY DEF MspInv, ReadInv
  <2>2. \A m \in Sends, n \in Natives : native[n].by \in Chats => ~Pending(m, native[n].by)'
    BY <1>13
  <2>3. \A m \in Sends : \A n \in ReadersOf(m) : native[n].by \in Chats
    BY <1>1, MspAssumption DEF MspInv, ReadInv, SendInv
  <2> QED
    BY <1>13, <2>1, <2>2, <2>3 DEF MspInv, ReadInv, ReadersOf
<1>15. TrackInv'
  <2> SUFFICES ASSUME NEW m \in Sends, NEW u \in Chats, send[m].turn # None, native[send[m].turn].by = u,
                      ~chat'[u].late, send[m].told \in {"none", "taken"}
               PROVE  /\ chat'[u].pc = "over"
                      /\ chat'[u].result = "answer" => Kept(m, u)'
    BY DEF TrackInv
  <2>1. CASE u = t
    BY <1>2, <1>13, <2>1 DEF Kept
  <2>2. CASE u # t
    <3>1. chat'[u] = chat[u] /\ chat[u].pc = "over"
      BY <1>1, <1>2, <2>2, OneBusy DEF Kinds, SendKinds
    <3>2. chat[u].result = "answer" => Kept(m, u)
      BY <3>1 DEF MspInv, TrackInv
    <3> QED
      BY <1>13, <3>1, <3>2 DEF Kept, Pending
  <2> QED
    BY <2>1, <2>2
<1> QED
  BY <1>4, <1>5, <1>6, <1>7, <1>8, <1>9, <1>10, <1>11, <1>12, <1>14, <1>15 DEF MspInv

(* A call that returns without an answer.                                  *)
LEMMA ReturnsKeep ==
    ASSUME MspInv, NEW t \in Chats, chat[t].pc \in Busy, NEW r \in {"error", "cancelled", "compacted"},
           NEW m \in {msp, Dead}, ChatReturns(t, m, r), send' = send, native' = native, posted' = posted
    PROVE  MspInv'
<1>1. Kinds
  BY KindsHold DEF MspInv
<1> DEFINE c == Over(t, r)
<1>2. /\ c \in ChatRecords /\ c.pc = "over" /\ c.result = r /\ c.inbox = <<>>
      /\ c.native = chat[t].native /\ c.answers = chat[t].answers
  <2>1. <<>> \in Seq(MspEvents)
    OBVIOUS
  <2> QED
    BY <1>1, <2>1 DEF Kinds, ChatKinds, ChatRecords, Over
<1>3. chat' = [chat EXCEPT ![t] = c] /\ msp' = Quiet(m)
  BY DEF ChatReturns
<1> HIDE DEF c
<1>4. /\ msp' \in MspRecords /\ msp'.holder = None /\ msp'.listener = None /\ msp'.turnID = None
      /\ msp'.steers = {} /\ msp'.events \in {msp.events, <<>>} /\ msp'.hand \in {msp.hand, <<>>}
  <2>1. <<>> \in Seq(MspEvents) /\ <<>> \in Seq(MspHeld)
    OBVIOUS
  <2>2. m \in MspRecords /\ m.events \in {msp.events, <<>>} /\ m.hand \in {msp.hand, <<>>}
    BY <1>1, <2>1 DEF Kinds, MspKinds, MspRecords, Dead
  <2> QED
    BY <1>3, <2>2 DEF Quiet, MspRecords
<1> QED
  BY <1>2, <1>3, <1>4, OverKeeps

LEMMA TurnInterruptedKeeps ==
    ASSUME MspInv, NEW t \in Chats, TurnInterrupted(t)
    PROVE  MspInv'
  BY ReturnsKeep DEF TurnInterrupted, ChatAt, Busy

LEMMA ChatGoneKeeps ==
    ASSUME MspInv, NEW t \in Chats, ChatGone(t)
    PROVE  MspInv'
  BY ReturnsKeep DEF ChatGone, ChatAt, Busy

LEMMA CompactCancelledKeeps ==
    ASSUME MspInv, NEW t \in Chats, CompactCancelled(t)
    PROVE  MspInv'
  BY ReturnsKeep DEF CompactCancelled, ChatAt, Busy

-----------------------------------------------------------------------------
(* The call reads its channel.                                             *)

(* The head of the channel, and the call without it.                       *)
LEMMA ReadingFacts ==
    ASSUME MspInv, NEW t \in Chats, chat[t].inbox # <<>>
    PROVE  /\ Head(chat[t].inbox) \in MspEvents /\ Known(Head(chat[t].inbox))
           /\ ChatReads(t) \in ChatRecords /\ ChatReads(t).inbox = Tail(chat[t].inbox)
           /\ ChatReads(t).pc = chat[t].pc /\ ChatReads(t).native = chat[t].native
           /\ ChatReads(t).input = chat[t].input /\ ChatReads(t).answers = chat[t].answers
           /\ ChatReads(t).late = chat[t].late /\ ChatReads(t).result = chat[t].result
           /\ \A i \in DOMAIN Tail(chat[t].inbox) :
                /\ Tail(chat[t].inbox)[i] \in MspEvents /\ Known(Tail(chat[t].inbox)[i])
<1>1. Kinds /\ EventTypes
  BY KindsHold, EventsTyped DEF MspInv
<1>2. /\ Head(chat[t].inbox) \in MspEvents /\ Tail(chat[t].inbox) \in Seq(MspEvents)
      /\ 1 \in DOMAIN chat[t].inbox /\ Head(chat[t].inbox) = chat[t].inbox[1]
      /\ \A i \in DOMAIN Tail(chat[t].inbox) :
            i + 1 \in DOMAIN chat[t].inbox /\ Tail(chat[t].inbox)[i] = chat[t].inbox[i + 1]
  BY <1>1, TailFacts DEF Kinds, ChatKinds
<1>3. Known(Head(chat[t].inbox))
  BY <1>2 DEF MspInv, EventInv
<1>4. \A i \in DOMAIN Tail(chat[t].inbox) :
        Tail(chat[t].inbox)[i] \in MspEvents /\ Known(Tail(chat[t].inbox)[i])
  BY <1>1, <1>2 DEF MspInv, EventInv, EventTypes
<1> DEFINE q == Tail(chat[t].inbox)
<1>5. ChatReads(t) = [chat[t] EXCEPT !.inbox = q]
  BY DEF ChatReads
<1>6. q \in Seq(MspEvents)
  BY <1>2
<1> HIDE DEF q
<1>7. /\ ChatReads(t) \in ChatRecords /\ ChatReads(t).inbox = q
      /\ ChatReads(t).pc = chat[t].pc /\ ChatReads(t).native = chat[t].native
      /\ ChatReads(t).input = chat[t].input /\ ChatReads(t).answers = chat[t].answers
      /\ ChatReads(t).late = chat[t].late /\ ChatReads(t).result = chat[t].result
  BY <1>1, <1>5, <1>6 DEF Kinds, ChatKinds, ChatRecords
<1> QED
  BY <1>2, <1>3, <1>4, <1>7 DEF q

(* What is left in the channels, in the hand and among the events is of    *)
(* turns that began.                                                       *)
LEMMA ReadingEvents ==
    ASSUME MspInv, NEW t \in Chats, chat[t].inbox # <<>>, NEW c, c.inbox = Tail(chat[t].inbox),
           chat' = [chat EXCEPT ![t] = c], NativesStay, msp'.events = msp.events, msp'.hand = msp.hand
    PROVE  EventInv'
<1>1. Kinds /\ EventTypes
  BY KindsHold, EventsTyped DEF MspInv
<1>2. \A e \in MspEvents : Known(e) => Known(e)'
  BY DEF Known, MspEvents, NativesStay
<1>3. \A u \in Chats : \A i \in DOMAIN chat'[u].inbox :
        chat'[u].inbox[i] \in MspEvents /\ Known(chat'[u].inbox[i])
  <2> SUFFICES ASSUME NEW u \in Chats
               PROVE  \A i \in DOMAIN chat'[u].inbox :
                         chat'[u].inbox[i] \in MspEvents /\ Known(chat'[u].inbox[i])
    OBVIOUS
  <2>1. CASE u = t
    BY <1>1, <2>1, ReadingFacts DEF Kinds
  <2>2. CASE u # t
    BY <1>1, <2>2 DEF Kinds, EventTypes, MspInv, EventInv
  <2> QED
    BY <2>1, <2>2
<1> QED
  BY <1>1, <1>2, <1>3 DEF EventTypes, MspInv, EventInv

(* An event that is not of the turn is handled as between turns, or passed *)
(* over.                                                                   *)
LEMMA PassedOverKeeps ==
    ASSUME MspInv, NEW t \in Chats, chat[t].inbox # <<>>,
           chat[t].pc \in {"running", "verdict", "compacting"},
           chat[t].pc = "running" => Head(chat[t].inbox) # Text(chat[t].native),
           chat' = [chat EXCEPT ![t] = ChatReads(t)], send' = send,
           \/ UNCHANGED <<msp, native, posted>>
           \/ /\ msp' = AfterIdle(msp, Head(chat[t].inbox)) /\ posted' = Posts(Head(chat[t].inbox))
              /\ native' = Answered(Head(chat[t].inbox))
    PROVE  MspInv'
<1> DEFINE event == Head(chat[t].inbox)  c == ChatReads(t)
<1>1. Kinds /\ EventTypes
  BY KindsHold, EventsTyped DEF MspInv
<1>2. /\ event \in MspEvents /\ c \in ChatRecords /\ c.inbox = Tail(chat[t].inbox)
      /\ c.pc = chat[t].pc /\ c.native = chat[t].native
      /\ c.input = chat[t].input /\ c.answers = chat[t].answers
      /\ c.late = chat[t].late /\ c.result = chat[t].result
  BY ReadingFacts
<1> HIDE DEF event, c
<1>3. chat' = [chat EXCEPT ![t] = c]
  BY DEF c
<1>4. /\ msp' \in MspRecords /\ posted' \subseteq Natives /\ native' \in [Natives -> NativeRecords]
      /\ NativesStay /\ \A n \in Natives : native'[n].wrote = native[n].wrote
      /\ msp'.events = msp.events /\ msp'.hand = msp.hand /\ msp'.live = msp.live
      /\ HolderStays /\ msp'.steers = msp.steers
  <2>1. CASE UNCHANGED <<msp, native, posted>>
    BY <1>1, <2>1 DEF Kinds, MspKinds, MspInv, MspTypeOK, NativesStay, HolderStays
  <2>2. CASE msp' = AfterIdle(msp, event) /\ posted' = Posts(event) /\ native' = Answered(event)
    <3>0. MspTypeOK /\ msp \in MspRecords
      BY <1>1 DEF MspInv, Kinds, MspKinds
    <3>1. /\ msp' \in MspRecords /\ posted' \subseteq Natives /\ native' \in [Natives -> NativeRecords]
          /\ \E W \in SUBSET Natives : msp' = [msp EXCEPT !.wake = W]
          /\ NativesStay /\ \A n \in Natives : native'[n].wrote = native[n].wrote
      <4>1. /\ AfterIdle(msp, event) \in MspRecords /\ Posts(event) \subseteq Natives
            /\ \E W \in SUBSET Natives : AfterIdle(msp, event) = [msp EXCEPT !.wake = W]
            /\ Answered(event) \in [Natives -> NativeRecords]
            /\ \A n \in Natives : /\ Answered(event)[n].by = native[n].by
                                  /\ Answered(event)[n].state = native[n].state
                                  /\ Answered(event)[n].reads = native[n].reads
                                  /\ Answered(event)[n].wrote = native[n].wrote
        BY <1>2, <3>0, IdleTypes
      <4> QED
        BY <2>2, <4>1 DEF NativesStay
    <3>2. /\ msp'.events = msp.events /\ msp'.hand = msp.hand /\ msp'.live = msp.live
          /\ HolderStays /\ msp'.steers = msp.steers
      BY <1>1, <3>1 DEF MspRecords, HolderStays, Kinds, MspKinds
    <3> QED
      BY <3>1, <3>2
  <2> QED
    BY <2>1, <2>2 DEF event
<1>5. MspTypeOK'
  BY <1>2, <1>3, <1>4 DEF MspInv, MspTypeOK
<1>6. EventInv'
  BY <1>2, <1>3, <1>4, ReadingEvents
<1>7. CallsStay
  BY <1>1, <1>2, <1>3 DEF CallsStay, Kinds
<1>8. FlowInv'
  <2> SUFFICES ASSUME NEW u \in Chats, chat[u].pc \in {"started", "running"},
                      chat[u].native \notin chat[u].answers
               PROVE  FlowOf(u, chat[u].native)'
    BY <1>7 DEF FlowInv, FlowOf, CallsStay
  <2>1. u = t /\ chat[t].pc = "running" /\ event # Text(chat[t].native)
    BY OneBusy DEF Busy, event
  <2> DEFINE n == chat[t].native
  <2>2. FlowOf(t, n) /\ n \in Natives
    BY <1>1, <2>1, MspAssumption DEF MspInv, FlowInv, CallInv, Kinds, ChatKinds
  <2>3. chat'[t].inbox = Tail(chat[t].inbox) /\ chat'[t].native = n /\ chat'[t].answers = chat[t].answers
    BY <1>1, <1>2, <1>3 DEF Kinds
  <2>4. /\ Arrived(t, n) => Arrived(t, n)'
        /\ Preceded(chat[t].inbox, Text(n), End(n)) => Preceded(chat'[t].inbox, Text(n), End(n))
    BY <1>1, <2>1, <2>3, TailOrder DEF Kinds, ChatKinds, Arrived, event
  <2>5. \A e : InHand(t, e)' <=> InHand(t, e)
    BY <1>4 DEF InHand
  <2> QED
    BY <1>4, <2>1, <2>2, <2>3, <2>4, <2>5 DEF FlowOf, TakenUp
<1> QED
  BY <1>4, <1>5, <1>6, <1>7, <1>8, CarriedKeeps

(* A call that goes on with its turn, or with its compaction.              *)
LEMMA GoesOn ==
    ASSUME MspInv, NEW t \in Chats, chat[t].pc \in Busy \ {"start"},
           NEW c \in ChatRecords, c.pc \in Busy \ {"start"},
           c.native = chat[t].native, c.input = chat[t].input, c.late = chat[t].late, c.result = chat[t].result,
           chat[t].pc \in {"running", "stopping", "verdict"} => c.pc \in {"running", "stopping", "verdict"},
           c.pc \in {"started", "running", "stopping", "verdict"} => chat[t].native # None,
           c.pc = "verdict" => native[chat[t].native].state = "over",
           \A n \in Natives : native[n].by = t =>
              \/ n \in c.answers
              \/ chat[t].native = n /\ c.pc \in {"started", "running", "stopping", "compacting"},
           chat' = [chat EXCEPT ![t] = c], send' = send, native' = native, posted' = posted,
           msp' \in MspRecords, msp'.steers = msp.steers, msp'.holder = msp.holder, msp'.listener = msp.listener,
           msp'.turnID # None => c.pc = "running" /\ msp'.turnID = chat[t].native,
           EventInv', FlowInv'
    PROVE  MspInv'
<1>1. Kinds
  BY KindsHold DEF MspInv
<1>2. chat'[t] = c /\ \A u \in Chats : u # t => chat'[u] = chat[u] /\ chat[u].pc \notin Busy
  BY <1>1, OneBusy DEF Kinds
<1>3. MspTypeOK'
  BY DEF MspInv, MspTypeOK
<1>4. HolderInv'
  BY <1>2 DEF MspInv, HolderInv
<1>5. CallInv'
  BY <1>2 DEF MspInv, CallInv, Busy
<1>6. NativeInv' /\ SendInv'
  BY <1>2 DEF MspInv, NativeInv, SendInv, Busy
<1>7. AnswerInv'
  BY <1>2 DEF MspInv, AnswerInv
<1>8. ListInv'
  BY <1>2 DEF MspInv, ListInv, Busy
<1>9. \A m \in Sends : ReadersOf(m)' = ReadersOf(m) /\ \A u \in Chats : Pending(m, u)' <=> Pending(m, u)
  BY <1>2 DEF ReadersOf, Pending, Busy
<1>10. ReadInv'
  <2>1. \A m \in Sends : \A n \in ReadersOf(m) : native[n].by \in Chats
    BY <1>1, MspAssumption DEF MspInv, ReadInv, SendInv
  <2> QED
    BY <1>9, <2>1 DEF MspInv, ReadInv, ReadersOf
<1>11. TrackInv'
  <2> SUFFICES ASSUME NEW m \in Sends, NEW u \in Chats, send[m].turn # None, native[send[m].turn].by = u,
                      ~chat'[u].late, send[m].told \in {"none", "taken"}
               PROVE  /\ chat'[u].pc # "over" => m \in msp.steers \/ Kept(m, u)'
                      /\ chat'[u].result = "answer" => Kept(m, u)'
    BY DEF TrackInv
  <2>1. Kept(m, u)' <=> Kept(m, u)
    BY <1>9 DEF Kept
  <2>2. ~chat[u].late /\ chat'[u].result = chat[u].result /\ (chat'[u].pc = "over" <=> chat[u].pc = "over")
    BY <1>2 DEF Busy
  <2> QED
    BY <2>1, <2>2 DEF MspInv, TrackInv
<1> QED
  BY <1>3, <1>4, <1>5, <1>6, <1>7, <1>8, <1>10, <1>11 DEF MspInv

(* While the queues stay as they are, the events stay of turns that began. *)
LEMMA QueuesStay ==
    ASSUME MspInv, native' = native, msp'.events = msp.events, msp'.hand = msp.hand,
           \A u \in Chats : chat'[u].inbox = chat[u].inbox
    PROVE  EventInv'
<1>1. \A e : Known(e)' <=> Known(e)
  BY DEF Known
<1> QED
  BY <1>1 DEF MspInv, EventInv

(* A turn that begins.                                                     *)
LEMMA BeginFacts ==
    ASSUME MspInv, UnbornNatives # {}, NEW by \in Chats \cup {Host}, NEW state \in {"running", "over"},
           NEW input \in SUBSET Sends, Begun(NewNative, by, state, input)
    PROVE  /\ NewNative \in Natives /\ native[NewNative].state = "unborn" /\ native[NewNative].by = None
           /\ native' \in [Natives -> NativeRecords] /\ native'[NewNative] \in NativeRecords
           /\ native'[NewNative].by = by /\ native'[NewNative].state = state
           /\ native'[NewNative].reads = input /\ ~native'[NewNative].wrote
           /\ \A k \in Natives : k # NewNative => native'[k] = native[k]
           /\ \A e \in MspEvents : Known(e) => Known(e)' /\ e.turn # NewNative
           /\ send' = send => SendInv'
           /\ \A m \in Sends : send[m].turn # None =>
                /\ send[m].turn \in Natives /\ send[m].turn # NewNative
                /\ native'[send[m].turn] = native[send[m].turn]
<1> DEFINE n == NewNative
<1>1. Kinds
  BY KindsHold DEF MspInv
<1>2. n \in UnbornNatives
  BY DEF NewNative
<1> HIDE DEF n
<1>3. n \in Natives /\ native[n].state = "unborn" /\ native[n].by = None
      /\ native[n].reads = {} /\ ~native[n].wrote
  BY <1>2 DEF UnbornNatives, MspInv, NativeInv
<1> DEFINE r == [native[n] EXCEPT !.by = by, !.state = state, !.reads = input]
<1>4. native' = [native EXCEPT ![n] = r]
  BY DEF Begun, n
<1>5. r \in NativeRecords /\ r.by = by /\ r.state = state /\ r.reads = input /\ ~r.wrote
  BY <1>1, <1>3 DEF Kinds, NativeKinds, NativeRecords
<1> HIDE DEF r
<1>6. /\ native' \in [Natives -> NativeRecords] /\ native'[n] = r
      /\ \A k \in Natives : k # n => native'[k] = native[k]
  BY <1>1, <1>3, <1>4, <1>5 DEF MspInv, MspTypeOK, Kinds
<1>7. \A e \in MspEvents : Known(e) => Known(e)' /\ e.turn # n
  BY <1>3, <1>6 DEF Known, MspEvents
<1>8. BegunStay
  BY <1>3, <1>6 DEF BegunStay
<1>9. send' = send => SendInv'
  BY <1>8, SendsKeep
<1>10. \A m \in Sends : send[m].turn # None =>
         send[m].turn \in Natives /\ send[m].turn # n /\ native'[send[m].turn] = native[send[m].turn]
  BY <1>1, <1>3, <1>6, MspAssumption DEF MspInv, SendInv, Kinds, SendKinds
<1> QED
  BY <1>3, <1>5, <1>6, <1>7, <1>9, <1>10 DEF n

(* Nobody has the mutex: no turn is to be steered, and no list is kept.    *)
LEMMA LockChatKeeps ==
    ASSUME MspInv, NEW t \in Chats, LockChat(t)
    PROVE  MspInv'
<1>1. Kinds
  BY KindsHold DEF MspInv
<1>2. chat[t].pc = "lock" /\ msp.holder = None /\ send' = send /\ native' = native /\ posted' = posted
  BY DEF LockChat, ChatAt
<1>3. \A u \in Chats : chat[u].pc \notin Busy
  BY <1>2, MspAssumption DEF MspInv, HolderInv
<1>4. msp.turnID = None /\ msp.steers = {}
  BY <1>3 DEF MspInv, HolderInv, ListInv, Busy
<1>5. PICK pc \in {"start", "compact", "over"} :
        /\ chat' = [chat EXCEPT ![t].pc = pc]
        /\ msp' = IF pc = "over" THEN msp ELSE [msp EXCEPT !.holder = t, !.listener = t]
  BY DEF LockChat, ChatGoes
<1> DEFINE c == [chat[t] EXCEPT !.pc = pc]
<1>6. c \in ChatRecords /\ c.pc = pc /\ c.native = None /\ c.input = {} /\ c.inbox = chat[t].inbox
      /\ c.answers = chat[t].answers /\ c.late = chat[t].late /\ c.result = "none"
  BY <1>1, <1>2 DEF Kinds, ChatKinds, ChatRecords, MspInv, CallInv
<1>7. chat' = [chat EXCEPT ![t] = c] /\ chat'[t] = c /\ \A u \in Chats : u # t => chat'[u] = chat[u]
  BY <1>1, <1>5 DEF Kinds
<1> HIDE DEF c
<1>8. /\ msp' \in MspRecords /\ msp'.turnID = None /\ msp'.steers = {} /\ msp'.events = msp.events
      /\ msp'.hand = msp.hand /\ msp'.listener = msp'.holder /\ msp'.holder = IF pc = "over" THEN None ELSE t
  BY <1>1, <1>2, <1>4, <1>5 DEF Kinds, MspKinds, MspRecords, MspInv, HolderInv
<1>9. MspTypeOK'
  BY <1>2, <1>6, <1>7, <1>8 DEF MspInv, MspTypeOK
<1>10. HolderInv'
  BY <1>3, <1>6, <1>7, <1>8, MspAssumption DEF HolderInv, Busy
<1>11. \A n \in Natives : native[n].by # t
  BY <1>2 DEF MspInv, NativeInv
<1>12. CallInv' /\ NativeInv' /\ AnswerInv'
  BY <1>2, <1>6, <1>7, <1>11 DEF MspInv, CallInv, NativeInv, AnswerInv
<1>13. EventInv'
  <2>1. \A e : Known(e)' <=> Known(e)
    BY <1>2 DEF Known
  <2>2. \A u \in Chats : chat'[u].inbox = chat[u].inbox
    BY <1>6, <1>7
  <2> QED
    BY <1>8, <2>1, <2>2 DEF MspInv, EventInv
<1>14. FlowInv'
  BY <1>3, <1>6, <1>7 DEF FlowInv, Busy
<1>15. SendInv' /\ ListInv'
  BY <1>2, <1>8 DEF MspInv, SendInv, ListInv
<1>16. \A m \in Sends : ReadersOf(m)' = ReadersOf(m) /\ \A u \in Chats : Pending(m, u)' <=> Pending(m, u)
  BY <1>2, <1>3, <1>6, <1>7 DEF ReadersOf, Pending, Busy
<1>17. ReadInv'
  <2>1. \A m \in Sends : \A n \in ReadersOf(m) : native[n].by \in Chats
    BY <1>1, MspAssumption DEF MspInv, ReadInv, SendInv
  <2> QED
    BY <1>2, <1>4, <1>8, <1>16, <2>1 DEF MspInv, ReadInv, ReadersOf
<1>18. TrackInv'
  <2> SUFFICES ASSUME NEW m \in Sends, NEW u \in Chats, send[m].turn # None, native[send[m].turn].by = u,
                      ~chat'[u].late, send[m].told \in {"none", "taken"}
               PROVE  /\ chat'[u].pc # "over" => Kept(m, u)'
                      /\ chat'[u].result = "answer" => Kept(m, u)'
    BY <1>2 DEF TrackInv
  <2>1. u # t /\ chat'[u] = chat[u]
    BY <1>1, <1>7, <1>11 DEF Kinds, SendKinds
  <2>2. Kept(m, u)' <=> Kept(m, u)
    BY <1>2, <1>16 DEF Kept
  <2> QED
    BY <1>4, <2>1, <2>2 DEF MspInv, TrackInv
<1> QED
  BY <1>9, <1>10, <1>12, <1>13, <1>14, <1>15, <1>17, <1>18 DEF MspInv

(* The new turn has nothing on its way, and reads what the call missed.    *)
LEMMA StartTurnKeeps ==
    ASSUME MspInv, NEW t \in Chats, StartTurn(t)
    PROVE  MspInv'
<1>1. Kinds /\ EventTypes /\ chat[t].pc = "start" /\ send' = send /\ posted' = posted
  BY KindsHold, EventsTyped DEF MspInv, StartTurn, ChatAt
<1>2. CASE ChatReturns(t, Dead, "error") /\ UNCHANGED native
  BY <1>1, <1>2, ReturnsKeep DEF Busy
<1>3. CASE /\ UnbornNatives # {} /\ Begun(NewNative, t, "running", chat[t].input) /\ msp' = msp
           /\ chat' = [chat EXCEPT ![t] = [chat[t] EXCEPT !.pc = "started", !.native = NewNative]]
  <2>1. chat[t].input \in SUBSET Sends
    BY <1>1 DEF Kinds, ChatKinds
  <2>2. PICK n \in Natives :
        /\ n = NewNative /\ native[n].state = "unborn" /\ native[n].by = None
        /\ native' \in [Natives -> NativeRecords]
        /\ native'[n].by = t /\ native'[n].state = "running"
        /\ native'[n].reads = chat[t].input /\ ~native'[n].wrote
        /\ \A k \in Natives : k # n => native'[k] = native[k]
        /\ \A e \in MspEvents : Known(e) => Known(e)' /\ e.turn # n
        /\ SendInv'
        /\ \A m \in Sends : send[m].turn # None =>
             send[m].turn \in Natives /\ send[m].turn # n /\ native'[send[m].turn] = native[send[m].turn]
    BY <1>1, <1>3, <2>1, BeginFacts
  <2> DEFINE c == [chat[t] EXCEPT !.pc = "started", !.native = n]
  <2>3. chat' = [chat EXCEPT ![t] = c]
    BY <1>3, <2>2
  <2>4. c \in ChatRecords /\ c.pc = "started" /\ c.native = n /\ c.inbox = chat[t].inbox
        /\ c.answers = chat[t].answers /\ c.late = chat[t].late /\ c.result = chat[t].result
    BY <1>1 DEF Kinds, ChatKinds, ChatRecords
  <2> HIDE DEF c
  <2>5. chat'[t] = c /\ \A u \in Chats : u # t => chat'[u] = chat[u] /\ chat[u].pc \notin Busy
    BY <1>1, <2>3, OneBusy DEF Kinds, Busy
  <2>6. msp.turnID = None /\ msp.steers = {} /\ msp' = msp
    BY <1>1, <1>3, <2>5 DEF MspInv, HolderInv, ListInv, Busy
  <2>7. MspTypeOK'
    BY <1>1, <2>2, <2>3, <2>4, <2>6 DEF MspInv, MspTypeOK
  <2>8. HolderInv'
    BY <1>1, <2>4, <2>5, <2>6 DEF MspInv, HolderInv, Busy
  <2>9. CallInv'
    <3>1. \A u \in Chats : chat[u].native # None =>
            chat[u].native # n /\ native'[chat[u].native] = native[chat[u].native]
      BY <1>1, <2>2, MspAssumption DEF MspInv, CallInv, Kinds, ChatKinds
    <3>2. n # None /\ chat[t].result = "none"
      BY <1>1, <2>2, MspAssumption DEF MspInv, CallInv
    <3> QED
      BY <2>2, <2>4, <2>5, <3>1, <3>2 DEF MspInv, CallInv
  <2>10. NativeInv'
    <3> SUFFICES ASSUME NEW k \in Natives
                 PROVE  /\ native'[k].by = None <=> native'[k].state = "unborn"
                        /\ native'[k].state = "unborn" => native'[k].reads = {} /\ ~native'[k].wrote
                        /\ native'[k].by \in Chats => chat'[native'[k].by].pc # "lock"
      BY DEF NativeInv
    <3>1. CASE k = n
      BY <2>2, <2>4, <2>5, <3>1, MspAssumption
    <3>2. CASE k # n
      BY <2>2, <2>4, <2>5, <3>2 DEF MspInv, NativeInv
    <3> QED
      BY <3>1, <3>2
  <2>11. AnswerInv'
    <3> SUFFICES ASSUME NEW u \in Chats, NEW k \in Natives, native'[k].by = u
                 PROVE  \/ k \in chat'[u].answers
                        \/ chat'[u].native = k /\ chat'[u].pc \in {"started", "running", "stopping", "compacting"}
                        \/ chat'[u].pc = "over" /\ chat'[u].result # "answer"
      BY DEF AnswerInv
    <3>1. CASE k = n
      BY <2>2, <2>4, <2>5, <3>1
    <3>2. CASE k # n
      BY <1>1, <2>2, <2>4, <2>5, <3>2 DEF MspInv, AnswerInv
    <3> QED
      BY <3>1, <3>2
  <2>12. EventInv'
    <3>1. \A u \in Chats : chat'[u].inbox = chat[u].inbox
      BY <2>4, <2>5
    <3> QED
      BY <1>1, <2>2, <2>6, <3>1 DEF MspInv, EventInv, EventTypes
  <2>13. FlowInv'
    <3>1. \A i \in DOMAIN chat[t].inbox : chat[t].inbox[i] # End(n)
      BY <1>1, <2>2 DEF MspInv, EventInv, EventTypes, End, Event
    <3>2. \A i \in DOMAIN msp.events : msp.events[i] # End(n)
      BY <1>1, <2>2 DEF MspInv, EventInv, EventTypes, End, Event
    <3>3. ~InHand(t, End(n))
      BY <1>1, <2>2 DEF MspInv, EventInv, EventTypes, End, Event, InHand
    <3>4. FlowOf(t, n)'
      BY <2>2, <2>4, <2>5, <2>6, <3>1, <3>2, <3>3 DEF FlowOf, Preceded, InHand
    <3> QED
      BY <2>4, <2>5, <3>4 DEF FlowInv, Busy
  <2>14. ListInv'
    BY <2>6 DEF ListInv
  <2>15. \A m \in Sends : ReadersOf(m)' = ReadersOf(m) \cup {k \in {n} : m \in chat[t].input}
    BY <2>2 DEF ReadersOf, MspInv, NativeInv
  <2>16. \A m \in Sends, u \in Chats : Pending(m, u) => u = t /\ m \in chat[t].input
    BY <2>5 DEF Pending, Busy
  <2>17. \A m \in Sends, u \in Chats : ~Pending(m, u)'
    BY <2>4, <2>5 DEF Pending, Busy
  <2>18. \A m \in Sends : m \in chat[t].input =>
           /\ send[m].fate = "rejected" /\ native[send[m].turn].by = t /\ send[m].turn # None
           /\ ReadersOf(m) = {}
    <3> SUFFICES ASSUME NEW m \in Sends, m \in chat[t].input
                 PROVE  /\ send[m].fate = "rejected" /\ native[send[m].turn].by = t /\ send[m].turn # None
                        /\ ReadersOf(m) = {}
      OBVIOUS
    <3>1. Pending(m, t)
      BY <1>1 DEF Pending
    <3>2. send[m].fate = "rejected" /\ native[send[m].turn].by = t
      BY <3>1 DEF MspInv, ReadInv
    <3> QED
      BY <3>1, <3>2 DEF MspInv, ReadInv, SendInv
  <2>19. ReadInv'
    <3> SUFFICES ASSUME NEW m \in Sends
                 PROVE  /\ send[m].fate = "read" => m \in native'[send[m].turn].reads
                        /\ \A k \in ReadersOf(m)' :
                             /\ send[m].turn # None /\ native'[k].by = native'[send[m].turn].by
                             /\ \/ send[m].fate = "read" /\ k = send[m].turn
                                \/ send[m].fate = "rejected"
                        /\ \A k, j \in ReadersOf(m)' : j = k
      <4>1. \A j \in Sends : send[j].turn # None => native'[send[j].turn].by \in Chats
        BY <2>2 DEF SendInv, MspInv
      <4> QED
        BY <1>1, <2>6, <2>17, <4>1 DEF ReadInv
    <3>1. send[m].fate = "read" => send[m].turn # None
      BY DEF MspInv, SendInv
    <3>2. send[m].fate = "read" => m \in native'[send[m].turn].reads
      BY <2>2, <3>1 DEF MspInv, ReadInv
    <3>3. CASE m \in chat[t].input
      BY <2>2, <2>15, <2>18, <3>2, <3>3
    <3>4. CASE m \notin chat[t].input
      <4>1. ReadersOf(m)' = ReadersOf(m)
        BY <2>15, <3>4
      <4>2. \A k \in ReadersOf(m) : native'[k] = native[k]
        BY <2>2, <3>4 DEF ReadersOf, MspInv, NativeInv
      <4> QED
        BY <2>2, <3>2, <4>1, <4>2 DEF MspInv, ReadInv
    <3> QED
      BY <3>3, <3>4
  <2>20. TrackInv'
    <3> SUFFICES ASSUME NEW m \in Sends, NEW u \in Chats, send[m].turn # None, native[send[m].turn].by = u,
                        ~chat[u].late, send[m].told \in {"none", "taken"}
                 PROVE  /\ chat'[u].pc # "over" => Kept(m, u)'
                        /\ chat'[u].result = "answer" => Kept(m, u)'
      BY <1>1, <2>2, <2>4, <2>5 DEF TrackInv
    <3>1. Kept(m, u) => Kept(m, u)'
      BY <1>1, <2>15, <2>16 DEF Kept
    <3>2. chat'[u].result = chat[u].result /\ (chat'[u].pc # "over" => chat[u].pc # "over")
      BY <1>1, <2>4, <2>5
    <3> QED
      BY <2>6, <3>1, <3>2 DEF MspInv, TrackInv
  <2> QED
    BY <2>2, <2>7, <2>8, <2>9, <2>10, <2>11, <2>12, <2>13, <2>14, <2>19, <2>20 DEF MspInv
<1> QED
  BY <1>2, <1>3 DEF StartTurn

(* From here on the turn can be steered.                                   *)
LEMMA StartedKeeps ==
    ASSUME MspInv, NEW t \in Chats, Started(t)
    PROVE  MspInv'
<1> DEFINE c == [chat[t] EXCEPT !.pc = "running"]
<1>1. Kinds /\ chat[t].pc = "started"
  BY KindsHold DEF MspInv, Started, ChatAt
<1>2. /\ msp' = [msp EXCEPT !.turnID = chat[t].native] /\ chat' = [chat EXCEPT ![t] = c]
      /\ send' = send /\ native' = native /\ posted' = posted
  BY DEF Started, ChatGoes
<1>3. /\ c \in ChatRecords /\ c.pc = "running" /\ c.native = chat[t].native /\ c.input = chat[t].input
      /\ c.inbox = chat[t].inbox /\ c.answers = chat[t].answers /\ c.late = chat[t].late
      /\ c.result = chat[t].result
  BY <1>1 DEF Kinds, ChatKinds, ChatRecords
<1> HIDE DEF c
<1>4. /\ msp' \in MspRecords /\ msp'.turnID = chat[t].native /\ msp'.steers = msp.steers /\ msp'.live = msp.live
      /\ msp'.holder = msp.holder /\ msp'.listener = msp.listener
      /\ msp'.events = msp.events /\ msp'.hand = msp.hand
  BY <1>1, <1>2 DEF Kinds, MspKinds, ChatKinds, MspRecords
<1>5. chat'[t] = c /\ \A u \in Chats : u # t => chat'[u] = chat[u]
  BY <1>1, <1>2 DEF Kinds
<1>6. EventInv'
  BY <1>2, <1>3, <1>4, <1>5, QueuesStay
<1>7. FlowInv'
  BY <1>1, <1>2, <1>3, <1>4, <1>5 DEF MspInv, FlowInv, FlowOf, TakenUp, Arrived, InHand
<1>8. \A n \in Natives : native[n].by = t => n \in c.answers \/ chat[t].native = n
  BY <1>1, <1>3 DEF MspInv, AnswerInv
<1>9. chat[t].native # None
  BY <1>1 DEF MspInv, CallInv
<1> QED
  BY <1>1, <1>2, <1>3, <1>4, <1>6, <1>7, <1>8, <1>9, GoesOn DEF Busy

LEMMA CancelTurnKeeps ==
    ASSUME MspInv, NEW t \in Chats, CancelTurn(t)
    PROVE  MspInv'
<1> DEFINE c == [chat[t] EXCEPT !.pc = "stopping"]
<1>1. Kinds /\ chat[t].pc = "running"
  BY KindsHold DEF MspInv, CancelTurn, ChatAt
<1>2. /\ msp' = [msp EXCEPT !.turnID = None] /\ chat' = [chat EXCEPT ![t] = c]
      /\ send' = send /\ native' = native /\ posted' = posted
  BY DEF CancelTurn, ChatGoes
<1>3. /\ c \in ChatRecords /\ c.pc = "stopping" /\ c.native = chat[t].native /\ c.input = chat[t].input
      /\ c.inbox = chat[t].inbox /\ c.answers = chat[t].answers /\ c.late = chat[t].late
      /\ c.result = chat[t].result
  BY <1>1 DEF Kinds, ChatKinds, ChatRecords
<1> HIDE DEF c
<1>4. /\ msp' \in MspRecords /\ msp'.turnID = None /\ msp'.steers = msp.steers
      /\ msp'.holder = msp.holder /\ msp'.listener = msp.listener
      /\ msp'.events = msp.events /\ msp'.hand = msp.hand
  BY <1>1, <1>2 DEF Kinds, MspKinds, MspRecords
<1>5. chat'[t] = c /\ \A u \in Chats : u # t => chat'[u] = chat[u] /\ chat[u].pc \notin Busy
  BY <1>1, <1>2, OneBusy DEF Kinds, Busy
<1>6. EventInv'
  BY <1>2, <1>3, <1>4, <1>5, QueuesStay
<1>7. FlowInv'
  BY <1>3, <1>5 DEF FlowInv, Busy
<1>8. \A n \in Natives : native[n].by = t => n \in c.answers \/ chat[t].native = n
  BY <1>1, <1>3 DEF MspInv, AnswerInv
<1>9. chat[t].native # None
  BY <1>1 DEF MspInv, CallInv
<1> QED
  BY <1>1, <1>2, <1>3, <1>4, <1>6, <1>7, <1>8, <1>9, GoesOn DEF Busy

(* The text of the turn goes into the answer; its end, which comes after   *)
(* the text, ends it.                                                      *)
LEMMA HandleEventKeeps ==
    ASSUME MspInv, NEW t \in Chats, HandleEvent(t)
    PROVE  MspInv'
<1> DEFINE event == Head(chat[t].inbox)  n == chat[t].native  rest == ChatReads(t)
<1>1. Kinds /\ chat[t].pc = "running" /\ chat[t].inbox # <<>> /\ send' = send /\ native' = Answered(event)
  BY KindsHold DEF MspInv, HandleEvent, ChatAt
<1>2. /\ event \in MspEvents /\ Known(event) /\ rest \in ChatRecords /\ rest.inbox = Tail(chat[t].inbox)
      /\ rest.pc = chat[t].pc /\ rest.native = chat[t].native
      /\ rest.input = chat[t].input /\ rest.answers = chat[t].answers
      /\ rest.late = chat[t].late /\ rest.result = chat[t].result
  BY <1>1, ReadingFacts
<1>3. n # None /\ n \in Natives
  BY <1>1 DEF MspInv, CallInv, Kinds, ChatKinds
<1>4. \A u \in Chats : u # t => chat[u].pc \notin Busy
  BY <1>1, OneBusy DEF Busy
<1>5. \/ /\ event.turn = n /\ event.kind = "text" /\ UNCHANGED <<msp, posted>>
         /\ chat' = [chat EXCEPT ![t] = [rest EXCEPT !.answers = @ \cup {event.turn}]]
      \/ /\ event.turn = n /\ event.kind = "completed" /\ UNCHANGED posted
         /\ chat' = [chat EXCEPT ![t] = [rest EXCEPT !.pc = "verdict"]]
         /\ msp' = [msp EXCEPT !.turnID = None]
      \/ /\ event.turn = n /\ event.kind = "failed" /\ UNCHANGED posted
         /\ ChatReturns(t, msp, "error")
      \/ /\ event.turn # n \/ event.kind = "ask"
         /\ chat' = [chat EXCEPT ![t] = rest]
         /\ msp' = AfterIdle(msp, event) /\ posted' = Posts(event)
  BY DEF HandleEvent
<1> HIDE DEF event, rest
<1>6. CASE /\ event.turn = n /\ event.kind = "text" /\ UNCHANGED <<msp, posted>>
           /\ chat' = [chat EXCEPT ![t] = [rest EXCEPT !.answers = @ \cup {event.turn}]]
  <2> DEFINE c == [rest EXCEPT !.answers = @ \cup {event.turn}]
  <2>1. /\ c \in ChatRecords /\ c.pc = "running" /\ c.native = n /\ c.input = chat[t].input
        /\ c.inbox = Tail(chat[t].inbox) /\ c.answers = chat[t].answers \cup {n} /\ c.late = chat[t].late
        /\ c.result = chat[t].result
    <3>1. rest.answers \cup {event.turn} \in SUBSET Natives
      BY <1>1, <1>2, <1>3, <1>6 DEF Kinds, ChatKinds
    <3> QED
      BY <1>1, <1>2, <1>6, <3>1 DEF ChatRecords
  <2>2. chat' = [chat EXCEPT ![t] = c] /\ native' = native
    BY <1>1, <1>6 DEF Answered
  <2> HIDE DEF c
  <2>3. EventInv'
    <3>1. NativesStay
      BY <2>2 DEF NativesStay
    <3> QED
      BY <1>1, <1>6, <2>1, <2>2, <3>1, ReadingEvents
  <2>4. FlowInv'
    BY <1>1, <1>4, <2>1, <2>2 DEF FlowInv, FlowOf, Busy, Kinds
  <2>5. \A k \in Natives : native[k].by = t => k \in c.answers
    BY <1>1, <2>1 DEF MspInv, AnswerInv
  <2>6. msp' \in MspRecords /\ (msp'.turnID # None => msp'.turnID = n)
    BY <1>1, <1>4, <1>6 DEF Kinds, MspKinds, MspInv, HolderInv, Busy
  <2> QED
    BY <1>1, <1>3, <1>6, <2>1, <2>2, <2>3, <2>4, <2>5, <2>6, GoesOn DEF Busy
<1>7. CASE /\ event.turn = n /\ event.kind = "completed" /\ UNCHANGED posted
           /\ chat' = [chat EXCEPT ![t] = [rest EXCEPT !.pc = "verdict"]]
           /\ msp' = [msp EXCEPT !.turnID = None]
  <2> DEFINE c == [rest EXCEPT !.pc = "verdict"]
  <2>1. /\ c \in ChatRecords /\ c.pc = "verdict" /\ c.native = n /\ c.input = chat[t].input
        /\ c.inbox = Tail(chat[t].inbox) /\ c.answers = chat[t].answers /\ c.late = chat[t].late
        /\ c.result = chat[t].result
    BY <1>2 DEF ChatRecords
  <2>2. chat' = [chat EXCEPT ![t] = c] /\ native' = native
    BY <1>1, <1>7 DEF Answered
  <2> HIDE DEF c
  <2>3. /\ msp' \in MspRecords /\ msp'.turnID = None /\ msp'.steers = msp.steers
        /\ msp'.holder = msp.holder /\ msp'.listener = msp.listener
        /\ msp'.events = msp.events /\ msp'.hand = msp.hand
    BY <1>1, <1>7 DEF Kinds, MspKinds, MspRecords
  <2>4. EventInv'
    <3>1. NativesStay
      BY <2>2 DEF NativesStay
    <3> QED
      BY <1>1, <2>1, <2>2, <2>3, <3>1, ReadingEvents
  <2>5. FlowInv'
    BY <1>1, <1>4, <2>1, <2>2 DEF FlowInv, Busy, Kinds
  <2>6. native[n].state = "over"
    BY <1>2, <1>7 DEF Known, Ends
  <2>7. n \in chat[t].answers
    <3>1. event = End(n)
      BY <1>2, <1>7 DEF End, Event, MspEvents
    <3>2. ~Preceded(chat[t].inbox, Text(n), End(n))
      BY <1>1, <3>1, TailOrder DEF Kinds, ChatKinds, event
    <3> QED
      BY <1>1, <3>2 DEF MspInv, FlowInv, FlowOf
  <2>8. \A k \in Natives : native[k].by = t => k \in c.answers
    BY <1>1, <2>1, <2>7 DEF MspInv, AnswerInv
  <2> QED
    BY <1>1, <1>3, <1>7, <2>1, <2>2, <2>3, <2>4, <2>5, <2>6, <2>8, GoesOn DEF Busy
<1>8. CASE event.kind = "failed" /\ UNCHANGED posted /\ ChatReturns(t, msp, "error")
  BY <1>1, <1>8, ReturnsKeep DEF Answered, Busy
<1>9. CASE /\ event.turn # n \/ event.kind = "ask"
           /\ chat' = [chat EXCEPT ![t] = rest]
           /\ msp' = AfterIdle(msp, event) /\ posted' = Posts(event)
  <2>1. event # Text(n)
    BY <1>9 DEF Text, Event
  <2> QED
    BY <1>1, <1>9, <2>1, PassedOverKeeps DEF event, rest
<1> QED
  BY <1>5, <1>6, <1>7, <1>8, <1>9

LEMMA CompactKeeps ==
    ASSUME MspInv, NEW t \in Chats, Compact(t)
    PROVE  MspInv'
<1>1. Kinds /\ chat[t].pc = "compact" /\ send' = send /\ native' = native /\ posted' = posted
  BY KindsHold DEF MspInv, Compact, ChatAt
<1>2. CASE ChatReturns(t, msp, "error")
  BY <1>1, <1>2, ReturnsKeep DEF Busy
<1>3. CASE ChatGoes(t, "compacting") /\ UNCHANGED msp
  <2> DEFINE c == [chat[t] EXCEPT !.pc = "compacting"]
  <2>1. /\ c \in ChatRecords /\ c.pc = "compacting" /\ c.native = chat[t].native /\ c.input = chat[t].input
        /\ c.inbox = chat[t].inbox /\ c.answers = chat[t].answers /\ c.late = chat[t].late
        /\ c.result = chat[t].result
    BY <1>1 DEF Kinds, ChatKinds, ChatRecords
  <2>2. chat' = [chat EXCEPT ![t] = c]
    BY <1>3 DEF ChatGoes
  <2> HIDE DEF c
  <2>3. chat'[t] = c /\ \A u \in Chats : u # t => chat'[u] = chat[u] /\ chat[u].pc \notin Busy
    BY <1>1, <2>2, OneBusy DEF Kinds, Busy
  <2>4. EventInv'
    BY <1>1, <1>3, <2>1, <2>3, QueuesStay
  <2>5. FlowInv'
    BY <2>1, <2>3 DEF FlowInv, Busy
  <2>6. msp.turnID = None /\ msp \in MspRecords
    BY <1>1, <2>3 DEF MspInv, HolderInv, Busy, Kinds, MspKinds
  <2>7. \A n \in Natives : native[n].by = t => n \in c.answers
    BY <1>1, <2>1 DEF MspInv, AnswerInv
  <2> QED
    BY <1>1, <1>3, <2>1, <2>2, <2>4, <2>5, <2>6, <2>7, GoesOn DEF Busy
<1> QED
  BY <1>2, <1>3 DEF Compact

LEMMA CompactReadsKeeps ==
    ASSUME MspInv, NEW t \in Chats, CompactReads(t)
    PROVE  MspInv'
<1>1. chat[t].pc = "compacting" /\ chat[t].inbox # <<>> /\ send' = send /\ native' = native /\ posted' = posted
  BY DEF CompactReads, ChatAt
<1>2. CASE ChatReturns(t, msp, "compacted")
  BY <1>1, <1>2, ReturnsKeep DEF Busy
<1>3. CASE chat' = [chat EXCEPT ![t] = ChatReads(t)] /\ UNCHANGED msp
  BY <1>1, <1>3, PassedOverKeeps
<1> QED
  BY <1>2, <1>3 DEF CompactReads

LEMMA VerdictHandlesKeeps ==
    ASSUME MspInv, NEW t \in Chats, VerdictHandles(t)
    PROVE  MspInv'
  BY PassedOverKeeps DEF VerdictHandles, ChatAt

-----------------------------------------------------------------------------
(* The verdict on the steers.                                              *)

(* A message on the list was sent to the turn that has ended: if its       *)
(* sender has heard, the host took it, and has since read or lost it.      *)
LEMMA ListedFacts ==
    ASSUME MspInv, NEW t \in Chats, chat[t].pc = "verdict", NEW m \in msp.steers
    PROVE  /\ m \in Sends /\ send[m].turn = chat[t].native /\ send[m].turn # None
           /\ native[send[m].turn].by = t /\ native[send[m].turn].state = "over"
           /\ send[m].pc = "over" => send[m].told = "taken" /\ send[m].fate \in {"read", "doomed", "rejected"}
<1>1. Kinds
  BY KindsHold DEF MspInv
<1>2. m \in Sends /\ send[m].turn # None /\ send[m].turn = chat[t].native
  BY <1>1, OneBusy DEF Kinds, MspKinds, MspInv, ListInv, Busy
<1>3. native[send[m].turn].by = t /\ native[send[m].turn].state = "over"
  BY <1>2 DEF MspInv, CallInv
<1>4. send[m].pc = "over" => send[m].told = "taken"
  BY DEF MspInv, ListInv
<1>5. send[m].told = "taken" => send[m].fate # "waiting"
  BY <1>2, <1>3 DEF MspInv, SendInv
<1>6. send[m].fate \in {"waiting", "read", "doomed", "rejected"}
  BY <1>1, <1>2 DEF Kinds, SendKinds, SendRecords
<1> QED
  BY <1>2, <1>3, <1>4, <1>5, <1>6

(* A verdict that is late may miss any of the rejected messages; one in    *)
(* time has all of them, and the others were read.                         *)
LEMMA ConcludesKeeps ==
    ASSUME MspInv, NEW t \in Chats, chat[t].pc = "verdict", NEW late \in BOOLEAN, NEW missed \in {{}, Rejected},
           Concludes(t, missed, late), send' = send, native' = native, posted' = posted,
           late \/ (missed = Rejected /\ AllAnswered /\ (Settled \/ Rejected = msp.steers))
    PROVE  MspInv'
<1>1. Kinds
  BY KindsHold DEF MspInv
<1>2. \A n \in Natives : native[n].by = t => n \in chat[t].answers
  BY DEF MspInv, AnswerInv
<1>3. missed \subseteq msp.steers /\ missed \in SUBSET Sends
  BY <1>1 DEF Rejected, Kinds, MspKinds
(* What was or may be taken was read, or is missed.                        *)
<1>4. ASSUME ~late, ~chat[t].late, NEW m \in Sends, send[m].turn # None, native[send[m].turn].by = t,
             send[m].told \in {"none", "taken"}
      PROVE  send[m].told = "taken" /\ (ReadersOf(m) # {} \/ m \in missed)
  <2>1. m \in msp.steers \/ Kept(m, t)
    BY <1>4 DEF MspInv, TrackInv
  <2>2. CASE Kept(m, t)
    BY <2>2 DEF Kept, Pending
  <2>3. CASE m \in msp.steers
    <3>1. send[m].pc = "over"
      BY <1>4, <2>3 DEF AllAnswered
    <3>2. send[m].told = "taken" /\ send[m].fate \in {"read", "doomed", "rejected"} /\ send[m].turn \in Natives
      BY <1>1, <1>4, <2>3, <3>1, ListedFacts DEF Kinds, SendKinds
    <3>3. send[m].fate = "read" => ReadersOf(m) # {}
      BY <3>2 DEF MspInv, ReadInv, ReadersOf
    <3>4. m \in missed \/ send[m].fate = "read"
      BY <1>4, <2>3, <3>2 DEF Rejected, Settled
    <3> QED
      BY <3>2, <3>3, <3>4
  <2> QED
    BY <2>1, <2>2, <2>3
<1>5. CASE missed = {}
  <2> DEFINE c == [Over(t, "answer") EXCEPT !.late = chat[t].late \/ late]
  <2>1. msp' = Quiet(msp) /\ chat' = [chat EXCEPT ![t] = c]
    BY <1>5 DEF Concludes
  <2>2. /\ c \in ChatRecords /\ c.pc = "over" /\ c.result = "answer" /\ c.inbox = <<>>
        /\ c.native = chat[t].native /\ c.answers = chat[t].answers /\ c.late = (chat[t].late \/ late)
    <3>1. <<>> \in Seq(MspEvents) /\ (chat[t].late \/ late) \in BOOLEAN
      BY <1>1 DEF Kinds, ChatKinds
    <3> QED
      BY <1>1, <3>1 DEF Kinds, ChatKinds, ChatRecords, Over
  <2> HIDE DEF c
  <2>3. /\ msp' \in MspRecords /\ msp'.holder = None /\ msp'.listener = None /\ msp'.turnID = None
        /\ msp'.steers = {} /\ msp'.events = msp.events /\ msp'.hand = msp.hand
    BY <1>1, <2>1 DEF Kinds, MspKinds, MspRecords, Quiet
  <2>4. ~c.late => \A m \in Sends :
           send[m].turn # None /\ native[send[m].turn].by = t /\ send[m].told \in {"none", "taken"}
             => send[m].told = "taken" /\ ReadersOf(m) # {}
    BY <1>4, <1>5, <2>2
  <2> QED
    BY <1>2, <2>1, <2>2, <2>3, <2>4, OverKeeps DEF Busy
<1>6. CASE missed # {}
  <2> DEFINE c == [chat[t] EXCEPT !.pc = "start", !.input = missed, !.late = chat[t].late \/ late]
  <2>1. msp' = [msp EXCEPT !.steers = {}] /\ chat' = [chat EXCEPT ![t] = c] /\ missed = Rejected
    BY <1>6 DEF Concludes
  <2>2. /\ c \in ChatRecords /\ c.pc = "start" /\ c.input = missed /\ c.inbox = chat[t].inbox
        /\ c.native = chat[t].native /\ c.answers = chat[t].answers /\ c.result = chat[t].result
        /\ c.late = (chat[t].late \/ late)
    <3>1. (chat[t].late \/ late) \in BOOLEAN
      BY <1>1 DEF Kinds, ChatKinds
    <3> QED
      BY <1>1, <1>3, <3>1 DEF Kinds, ChatKinds, ChatRecords
  <2> HIDE DEF c
  <2>3. chat'[t] = c /\ \A u \in Chats : u # t => chat'[u] = chat[u] /\ chat[u].pc \notin Busy
    BY <1>1, <2>1, OneBusy DEF Kinds, Busy
  <2>4. /\ msp' \in MspRecords /\ msp'.holder = msp.holder /\ msp'.listener = msp.listener
        /\ msp'.turnID = msp.turnID /\ msp'.steers = {} /\ msp'.events = msp.events /\ msp'.hand = msp.hand
    BY <1>1, <2>1 DEF Kinds, MspKinds, MspRecords
  <2>5. MspTypeOK'
    BY <2>1, <2>2, <2>4 DEF MspInv, MspTypeOK
  <2>6. HolderInv'
    BY <2>2, <2>3, <2>4 DEF MspInv, HolderInv, Busy
  <2>7. CallInv' /\ NativeInv' /\ AnswerInv'
    BY <1>2, <2>2, <2>3 DEF MspInv, CallInv, NativeInv, AnswerInv, Busy
  <2>8. EventInv'
    BY <2>2, <2>3, <2>4, QueuesStay
  <2>9. FlowInv'
    BY <2>2, <2>3 DEF FlowInv, Busy
  <2>10. SendInv' /\ ListInv'
    BY <2>4 DEF MspInv, SendInv, ListInv
  <2>11. \A m \in Sends : ReadersOf(m)' = ReadersOf(m)
    BY DEF ReadersOf
  <2>12. \A m \in Sends, u \in Chats : Pending(m, u)' <=> u = t /\ m \in missed
    BY <2>2, <2>3 DEF Pending, Busy
  <2>13. ReadInv'
    <3> SUFFICES ASSUME NEW m \in Sends
                 PROVE  /\ send[m].fate = "read" => m \in native[send[m].turn].reads
                        /\ \A n \in ReadersOf(m) :
                             /\ send[m].turn # None /\ native[n].by = native[send[m].turn].by
                             /\ \/ send[m].fate = "read" /\ n = send[m].turn
                                \/ send[m].fate = "rejected" /\ ~Pending(m, native[n].by)'
                             /\ \A k \in ReadersOf(m) : k = n
                        /\ \A u \in Chats : Pending(m, u)' =>
                             send[m].fate = "rejected" /\ native[send[m].turn].by = u
      BY <2>4, <2>11 DEF ReadInv
    <3>1. \A n \in ReadersOf(m) : native[n].by \in Chats
      BY <1>1, MspAssumption DEF MspInv, ReadInv, SendInv
    <3>2. \A u \in Chats : Pending(m, u)' => send[m].fate = "rejected" /\ native[send[m].turn].by = u
      BY <1>3, <2>1, <2>12, ListedFacts DEF Rejected
    <3> QED
      BY <1>3, <2>12, <3>1, <3>2 DEF MspInv, ReadInv
  <2>14. TrackInv'
    <3> SUFFICES ASSUME NEW m \in Sends, NEW u \in Chats, send[m].turn # None, native[send[m].turn].by = u,
                        ~chat'[u].late, send[m].told \in {"none", "taken"}
                 PROVE  /\ chat'[u].pc # "over" => Kept(m, u)'
                        /\ chat'[u].result = "answer" => Kept(m, u)'
      BY DEF TrackInv
    <3>1. CASE u = t
      BY <1>4, <2>2, <2>3, <2>11, <2>12, <3>1 DEF Kept
    <3>2. CASE u # t
      <4>1. m \notin msp.steers /\ chat'[u] = chat[u]
        BY <2>3, <3>2, ListedFacts
      <4>2. Kept(m, u) => Kept(m, u)'
        BY <2>3, <2>11, <3>2 DEF Kept, Pending, Busy
      <4> QED
        BY <4>1, <4>2 DEF MspInv, TrackInv
    <3> QED
      BY <3>1, <3>2
  <2> QED
    BY <2>5, <2>6, <2>7, <2>8, <2>9, <2>10, <2>13, <2>14 DEF MspInv
<1> QED
  BY <1>5, <1>6

LEMMA VerdictKeeps ==
    ASSUME MspInv, NEW t \in Chats, Verdict(t)
    PROVE  MspInv'
  BY ConcludesKeeps DEF Verdict, ChatAt

LEMMA VerdictGivesUpKeeps ==
    ASSUME MspInv, NEW t \in Chats, VerdictGivesUp(t)
    PROVE  MspInv'
  BY ConcludesKeeps DEF VerdictGivesUp, ChatAt

-----------------------------------------------------------------------------
(* The messages.                                                           *)

(* What is left to show of a step of one message.                          *)
LEMMA SteerKeeps ==
    ASSUME MspInv, NEW m \in Sends, NEW s \in SendRecords, send' = [send EXCEPT ![m] = s],
           chat' = chat, native' = native, posted' = posted,
           msp' \in MspRecords, HolderStays, msp'.events = msp.events, msp'.hand = msp.hand, msp'.live = msp.live,
           \A k \in Sends : k # m => (k \in msp'.steers <=> k \in msp.steers),
           m \in msp'.steers =>
                /\ s.pc = "over" => s.told = "taken"
                /\ s.turn # None
                /\ \E t \in Chats : chat[t].pc \in {"running", "stopping", "verdict"} /\ s.turn = chat[t].native,
           s.turn = None <=> s.pc = "idle", s.pc = "over" <=> s.told # "none",
           s.turn # None => native[s.turn].by \in Chats,
           s.told = "taken" => s.host = "taken", s.fate # "waiting" => s.host = "taken",
           s.host = "taken" => s.turn # None,
           s.host = "taken" /\ native[s.turn].state # "running" => s.fate # "waiting",
           s.fate = "read" => send[m].fate = "read" /\ s.turn = send[m].turn,
           \/ s.fate = send[m].fate /\ s.turn = send[m].turn /\ (m \in msp'.steers => m \in msp.steers)
           \/ send[m].fate \in {"waiting", "doomed"},
           \A t \in Chats :
              s.turn # None /\ native[s.turn].by = t /\ ~chat[t].late /\ s.told \in {"none", "taken"} =>
                /\ chat[t].pc # "over" => m \in msp'.steers \/ Kept(m, t)'
                /\ chat[t].result = "answer" => Kept(m, t)'
    PROVE  MspInv'
<1>1. Kinds
  BY KindsHold DEF MspInv
<1>2. send'[m] = s /\ \A k \in Sends : k # m => send'[k] = send[k]
  BY <1>1 DEF Kinds
<1>3. MspTypeOK'
  BY DEF MspInv, MspTypeOK
<1>4. HolderInv' /\ CallInv' /\ NativeInv' /\ AnswerInv' /\ EventInv' /\ FlowInv'
  BY MessageKeeps
<1>5. SendInv'
  BY <1>2 DEF MspInv, SendInv
<1>6. msp'.steers \subseteq Sends
  BY <1>3 DEF MspTypeOK, MspRecords
<1>7. ListInv'
  BY <1>2, <1>6 DEF MspInv, ListInv
<1>8. \A k \in Sends : ReadersOf(k)' = ReadersOf(k) /\ \A u \in Chats : Pending(k, u)' <=> Pending(k, u)
  BY DEF ReadersOf, Pending
<1>9. ReadInv'
  <2>1. \A k \in Sends : \A n \in ReadersOf(k) : native[n].by \in Chats
    BY <1>1, MspAssumption DEF MspInv, ReadInv, SendInv
  <2> SUFFICES ASSUME NEW k \in Sends
               PROVE  /\ send'[k].fate = "read" => k \in native[send'[k].turn].reads
                      /\ \A n \in ReadersOf(k) :
                           /\ send'[k].turn # None /\ native[n].by = native[send'[k].turn].by
                           /\ \/ send'[k].fate = "read" /\ n = send'[k].turn
                              \/ send'[k].fate = "rejected" /\ k \notin msp'.steers /\ ~Pending(k, native[n].by)
                           /\ \A j \in ReadersOf(k) : j = n
                      /\ \A u \in Chats : Pending(k, u) =>
                           send'[k].fate = "rejected" /\ k \notin msp'.steers /\ native[send'[k].turn].by = u
    BY <1>8, <2>1 DEF ReadInv
  <2>2. CASE k # m
    BY <1>2, <2>2 DEF MspInv, ReadInv
  <2>3. CASE k = m
    BY <1>2, <2>3 DEF MspInv, ReadInv
  <2> QED
    BY <2>2, <2>3
<1>10. TrackInv'
  <2> SUFFICES ASSUME NEW k \in Sends, NEW u \in Chats, send'[k].turn # None, native[send'[k].turn].by = u,
                      ~chat[u].late, send'[k].told \in {"none", "taken"}
               PROVE  /\ chat[u].pc # "over" => k \in msp'.steers \/ Kept(k, u)'
                      /\ chat[u].result = "answer" => Kept(k, u)'
    BY DEF TrackInv
  <2>1. CASE k = m
    BY <1>2, <2>1
  <2>2. CASE k # m
    BY <1>2, <1>8, <2>2 DEF MspInv, TrackInv, Kept
  <2> QED
    BY <2>1, <2>2
<1> QED
  BY <1>3, <1>4, <1>5, <1>7, <1>9, <1>10 DEF MspInv

(* A message that is sent is not read, missed or told of yet, and its call *)
(* has a turn running.                                                     *)
LEMMA SendKeeps ==
    ASSUME MspInv, NEW m \in Sends, Send(m)
    PROVE  MspInv'
<1> DEFINE s == [send[m] EXCEPT !.pc = "sent", !.turn = msp.turnID]
<1>1. Kinds /\ send[m].pc = "idle" /\ msp.turnID # None
  BY KindsHold DEF MspInv, Send
<1>2. /\ send' = [send EXCEPT ![m] = s] /\ msp' = [msp EXCEPT !.steers = @ \cup {m}]
      /\ chat' = chat /\ native' = native /\ posted' = posted
  BY DEF Send
<1>3. /\ s \in SendRecords /\ s.pc = "sent" /\ s.turn = msp.turnID /\ s.host = send[m].host
      /\ s.fate = send[m].fate /\ s.told = send[m].told
  BY <1>1 DEF Kinds, SendKinds, MspKinds, SendRecords
<1> HIDE DEF s
<1>4. /\ msp' \in MspRecords /\ HolderStays /\ msp'.events = msp.events /\ msp'.hand = msp.hand
      /\ msp'.live = msp.live /\ msp'.steers = msp.steers \cup {m}
  BY <1>1, <1>2 DEF Kinds, MspKinds, MspRecords, HolderStays
<1>5. send[m].turn = None /\ send[m].told = "none" /\ send[m].host # "taken" /\ send[m].fate = "waiting"
  BY <1>1 DEF MspInv, SendInv
<1>6. PICK t \in Chats : chat[t].pc = "running" /\ msp.turnID = chat[t].native
  BY <1>1 DEF MspInv, HolderInv
<1>7. native[msp.turnID].by = t /\ chat[t].result = "none"
  BY <1>1, <1>6 DEF MspInv, CallInv
<1>8. /\ s.turn = None <=> s.pc = "idle"
      /\ s.pc = "over" <=> s.told # "none"
      /\ native[s.turn].by \in Chats /\ s.turn # None
      /\ s.told # "taken" /\ s.fate = "waiting" /\ s.host # "taken" /\ s.pc # "over"
  BY <1>1, <1>3, <1>5, <1>7
<1>9. \E u \in Chats : chat[u].pc \in {"running", "stopping", "verdict"} /\ s.turn = chat[u].native
  BY <1>3, <1>6
<1>10. \A u \in Chats :
        s.turn # None /\ native[s.turn].by = u /\ ~chat[u].late /\ s.told \in {"none", "taken"} =>
         /\ chat[u].pc # "over" => m \in msp'.steers \/ Kept(m, u)'
         /\ chat[u].result = "answer" => Kept(m, u)'
  BY <1>3, <1>4, <1>7
<1>11. \A k \in Sends : k # m => (k \in msp'.steers <=> k \in msp.steers)
  BY <1>4
<1> QED
  BY <1>2, <1>3, <1>4, <1>5, <1>8, <1>9, <1>10, <1>11, SteerKeeps

(* A message leaves the list only when its sender hears that it was not    *)
(* taken.                                                                  *)
LEMMA SentKeeps ==
    ASSUME MspInv, NEW m \in Sends, Sent(m)
    PROVE  MspInv'
<1>1. Kinds /\ send[m].pc = "sent" /\ chat' = chat /\ native' = native /\ posted' = posted
  BY KindsHold DEF MspInv, Sent
<1>2. PICK told \in {"taken", "refused", "error"} :
        /\ told # "error" => send[m].host = told
        /\ send' = [send EXCEPT ![m] = [send[m] EXCEPT !.pc = "over", !.told = told]]
        /\ msp' = IF told = "taken" THEN msp ELSE [msp EXCEPT !.steers = @ \ {m}]
  BY DEF Sent
<1> DEFINE s == [send[m] EXCEPT !.pc = "over", !.told = told]
<1>3. /\ s \in SendRecords /\ s.pc = "over" /\ s.turn = send[m].turn /\ s.host = send[m].host
      /\ s.fate = send[m].fate /\ s.told = told
  BY <1>1 DEF Kinds, SendKinds, SendRecords
<1>4. send' = [send EXCEPT ![m] = s]
  BY <1>2
<1> HIDE DEF s
<1>5. /\ msp' \in MspRecords /\ HolderStays /\ msp'.events = msp.events /\ msp'.hand = msp.hand
      /\ msp'.live = msp.live
      /\ msp'.steers = IF told = "taken" THEN msp.steers ELSE msp.steers \ {m}
  BY <1>1, <1>2 DEF Kinds, MspKinds, MspRecords, HolderStays
<1>6. send[m].turn # None /\ send[m].told = "none"
  BY <1>1 DEF MspInv, SendInv
<1>7. \A t \in Chats : native[send[m].turn].by = t /\ ~chat[t].late =>
        /\ chat[t].pc # "over" => m \in msp.steers
        /\ chat[t].result # "answer"
  BY <1>6 DEF MspInv, TrackInv, Kept
<1>8. s.fate # "waiting" => s.host = "taken"
  BY <1>3 DEF MspInv, SendInv
<1>9. native[s.turn].by \in Chats
  BY <1>3, <1>6 DEF MspInv, SendInv
<1>10. s.host = "taken" /\ native[s.turn].state # "running" => s.fate # "waiting"
  BY <1>3, <1>6 DEF MspInv, SendInv
<1>11. m \in msp.steers => \E t \in Chats : /\ chat[t].pc \in {"running", "stopping", "verdict"}
                                            /\ s.turn = chat[t].native
  BY <1>3 DEF MspInv, ListInv
<1>12. /\ s.turn # None /\ s.pc = "over" /\ s.told \in {"taken", "refused", "error"}
       /\ s.told = "taken" => s.host = "taken"
       /\ s.fate = send[m].fate /\ s.turn = send[m].turn
  BY <1>2, <1>3, <1>6
<1>13. \A t \in Chats :
        s.turn # None /\ native[s.turn].by = t /\ ~chat[t].late /\ s.told \in {"none", "taken"} =>
         /\ chat[t].pc # "over" => m \in msp'.steers \/ Kept(m, t)'
         /\ chat[t].result = "answer" => Kept(m, t)'
  BY <1>3, <1>5, <1>7
<1>14. /\ \A k \in Sends : k # m => (k \in msp'.steers <=> k \in msp.steers)
       /\ m \in msp'.steers => m \in msp.steers /\ s.told = "taken"
  BY <1>2, <1>3, <1>5
<1> QED
  BY <1>1, <1>3, <1>4, <1>5, <1>8, <1>9, <1>10, <1>11, <1>12, <1>13, <1>14, SteerKeeps

(* A message that the host takes too late is doomed.                       *)
LEMMA HostAnswersKeeps ==
    ASSUME MspInv, NEW m \in Sends, HostAnswers(m)
    PROVE  MspInv'
<1>1. /\ Kinds /\ msp.live /\ send[m].turn # None /\ send[m].host = "none"
      /\ msp' = msp /\ chat' = chat /\ native' = native /\ posted' = posted
  BY KindsHold DEF MspInv, HostAnswers
<1>2. PICK host \in {"taken", "refused"} :
        send' = [send EXCEPT ![m] = [send[m] EXCEPT
                    !.host = host,
                    !.fate = IF host = "taken" /\ ~HostRuns(send[m].turn) THEN "doomed" ELSE @]]
  BY DEF HostAnswers
<1> DEFINE s == [send[m] EXCEPT !.host = host,
                    !.fate = IF host = "taken" /\ ~HostRuns(send[m].turn) THEN "doomed" ELSE @]
<1>3. /\ s \in SendRecords /\ s.pc = send[m].pc /\ s.turn = send[m].turn /\ s.host = host /\ s.told = send[m].told
      /\ s.fate = IF host = "taken" /\ ~HostRuns(send[m].turn) THEN "doomed" ELSE send[m].fate
  BY <1>1 DEF Kinds, SendKinds, SendRecords
<1>4. send' = [send EXCEPT ![m] = s]
  BY <1>2
<1> HIDE DEF s
<1>5. msp' \in MspRecords /\ HolderStays
  BY <1>1 DEF Kinds, MspKinds, HolderStays
<1>6. send[m].told # "taken" /\ send[m].fate = "waiting" /\ native[send[m].turn].by \in Chats
      /\ send[m].pc # "idle" /\ (send[m].pc = "over" <=> send[m].told # "none")
  BY <1>1 DEF MspInv, SendInv
<1>7. host = "taken" /\ native[send[m].turn].state # "running" => s.fate = "doomed"
  BY <1>3 DEF HostRuns
<1>8. m \in msp.steers => /\ send[m].pc = "over" => send[m].told = "taken"
                          /\ \E t \in Chats : /\ chat[t].pc \in {"running", "stopping", "verdict"}
                                              /\ send[m].turn = chat[t].native
  BY DEF MspInv, ListInv
<1>9. \A t \in Chats :
        native[send[m].turn].by = t /\ ~chat[t].late /\ send[m].told \in {"none", "taken"} =>
        /\ chat[t].pc # "over" => m \in msp.steers
        /\ chat[t].result # "answer"
  BY <1>1, <1>6 DEF MspInv, TrackInv, Kept
<1>10. /\ s.turn # None /\ s.turn = send[m].turn /\ s.pc # "idle"
       /\ s.pc = "over" <=> s.told # "none"
       /\ s.told # "taken" /\ s.fate # "read"
       /\ s.fate # "waiting" => s.host = "taken"
       /\ s.host = "taken" /\ native[s.turn].state # "running" => s.fate # "waiting"
       /\ native[s.turn].by \in Chats
  BY <1>1, <1>3, <1>6, <1>7
<1>11. m \in msp'.steers => /\ s.pc = "over" => s.told = "taken"
                            /\ \E t \in Chats : /\ chat[t].pc \in {"running", "stopping", "verdict"}
                                                /\ s.turn = chat[t].native
  BY <1>1, <1>3, <1>8
<1>12. \A t \in Chats :
        s.turn # None /\ native[s.turn].by = t /\ ~chat[t].late /\ s.told \in {"none", "taken"} =>
         /\ chat[t].pc # "over" => m \in msp'.steers \/ Kept(m, t)'
         /\ chat[t].result = "answer" => Kept(m, t)'
  BY <1>1, <1>3, <1>9
<1> QED
  BY <1>1, <1>3, <1>4, <1>5, <1>6, <1>10, <1>11, <1>12, SteerKeeps

LEMMA HostRejectsKeeps ==
    ASSUME MspInv, NEW m \in Sends, HostRejects(m)
    PROVE  MspInv'
<1> DEFINE s == [send[m] EXCEPT !.fate = "rejected"]
<1>1. /\ Kinds /\ send[m].fate = "doomed" /\ send' = [send EXCEPT ![m] = s]
      /\ msp' = msp /\ chat' = chat /\ native' = native /\ posted' = posted
  BY KindsHold DEF MspInv, HostRejects
<1>2. /\ s \in SendRecords /\ s.pc = send[m].pc /\ s.turn = send[m].turn /\ s.host = send[m].host
      /\ s.told = send[m].told /\ s.fate = "rejected"
  BY <1>1 DEF Kinds, SendKinds, SendRecords
<1> HIDE DEF s
<1>3. msp' \in MspRecords /\ HolderStays
  BY <1>1 DEF Kinds, MspKinds, HolderStays
<1>4. /\ send[m].turn # None /\ send[m].pc # "idle" /\ (send[m].pc = "over" <=> send[m].told # "none")
      /\ native[send[m].turn].by \in Chats /\ send[m].host = "taken"
  BY <1>1 DEF MspInv, SendInv
<1>5. m \in msp.steers => /\ send[m].pc = "over" => send[m].told = "taken"
                          /\ \E t \in Chats : /\ chat[t].pc \in {"running", "stopping", "verdict"}
                                              /\ send[m].turn = chat[t].native
  BY DEF MspInv, ListInv
<1>6. \A t \in Chats :
        native[send[m].turn].by = t /\ ~chat[t].late /\ send[m].told \in {"none", "taken"} =>
        /\ chat[t].pc # "over" => m \in msp.steers \/ Kept(m, t)'
        /\ chat[t].result = "answer" => Kept(m, t)'
  <2>1. \A t \in Chats : Kept(m, t) => Kept(m, t)'
    BY <1>1, <1>2 DEF Kept, Pending, ReadersOf, Kinds
  <2> QED
    BY <1>4, <2>1 DEF MspInv, TrackInv
<1> QED
  BY ZenonT(30), <1>1, <1>2, <1>3, <1>4, <1>5, <1>6, SteerKeeps

(* Nobody has read a message that waits for it, and it is not missed.      *)
LEMMA HostReadsKeeps ==
    ASSUME MspInv, NEW m \in Sends, HostReads(m)
    PROVE  MspInv'
<1> DEFINE n == send[m].turn
           s == [send[m] EXCEPT !.fate = "read"]
           r == [native[n] EXCEPT !.reads = @ \cup {m}]
<1>1. /\ Kinds /\ n # None /\ send[m].host = "taken" /\ send[m].fate = "waiting"
      /\ native[n].state = "running"
      /\ send' = [send EXCEPT ![m] = s] /\ native' = [native EXCEPT ![n] = r]
      /\ msp' = msp /\ chat' = chat /\ posted' = posted
  BY KindsHold DEF MspInv, HostReads, HostRuns
<1>2. n \in Natives
  BY <1>1 DEF Kinds, SendKinds
<1>3. /\ s \in SendRecords /\ s.pc = send[m].pc /\ s.turn = n /\ s.host = "taken"
      /\ s.told = send[m].told /\ s.fate = "read"
  BY <1>1 DEF Kinds, SendKinds, SendRecords
<1>4. /\ r \in NativeRecords /\ r.by = native[n].by /\ r.state = native[n].state /\ r.wrote = native[n].wrote
      /\ r.reads = native[n].reads \cup {m}
  <2>1. native[n].reads \cup {m} \in SUBSET Sends
    BY <1>1, <1>2 DEF Kinds, NativeKinds
  <2> QED
    BY <1>1, <1>2, <2>1 DEF Kinds, NativeKinds, NativeRecords
<1> HIDE DEF n, s, r
<1>5. send'[m] = s /\ \A k \in Sends : k # m => send'[k] = send[k]
  BY <1>1 DEF Kinds
<1>6. native'[n] = r /\ \A k \in Natives : k # n => native'[k] = native[k]
  BY <1>1, <1>2 DEF Kinds
<1>7. MspTypeOK'
  BY <1>1, <1>3, <1>4 DEF MspInv, MspTypeOK
<1>8. /\ \A k \in Natives : /\ native'[k].by = native[k].by /\ native'[k].state = native[k].state
                            /\ native'[k].wrote = native[k].wrote
      /\ \A k \in Natives : native[k].state = "unborn" => native'[k].reads = native[k].reads
  BY <1>1, <1>4, <1>6
<1>9. HolderStays
  BY <1>1 DEF HolderStays
<1>10. HolderInv' /\ CallInv' /\ NativeInv' /\ AnswerInv' /\ EventInv' /\ FlowInv'
  BY <1>1, <1>8, <1>9, MessageKeeps
<1>11. \A k \in Sends : send'[k].turn = send[k].turn /\ send'[k].told = send[k].told
                        /\ send'[k].pc = send[k].pc /\ send'[k].host = send[k].host
  BY <1>1, <1>3, <1>5 DEF n
<1>12. \A k \in Sends : send[k].turn # None => send[k].turn \in Natives
  BY <1>1 DEF Kinds, SendKinds
<1>13. SendInv'
  BY <1>1, <1>3, <1>5, <1>8, <1>11, <1>12 DEF MspInv, SendInv, n
<1>14. ListInv'
  BY <1>1, <1>11, <1>7 DEF MspInv, ListInv, MspTypeOK, MspRecords
<1>15. ReadersOf(m) = {} /\ \A t \in Chats : ~Pending(m, t)
  BY <1>1 DEF MspInv, ReadInv
<1>16. /\ \A k \in Sends : k # m => ReadersOf(k)' = ReadersOf(k)
       /\ ReadersOf(m)' = {n}
       /\ \A k \in Sends, t \in Chats : Pending(k, t)' <=> Pending(k, t)
  <2>1. ASSUME NEW k \in Sends, k # m
        PROVE  ReadersOf(k)' = ReadersOf(k)
    BY <1>4, <1>6, <2>1 DEF ReadersOf
  <2>2. ReadersOf(m)' = {n}
    BY <1>2, <1>4, <1>6, <1>15 DEF ReadersOf
  <2> QED
    BY <1>1, <2>1, <2>2 DEF Pending
<1>17. ReadInv'
  <2>1. \A k \in Sends : \A j \in ReadersOf(k) : j \in Natives /\ native[j].by \in Chats
    BY <1>1, MspAssumption DEF MspInv, ReadInv, SendInv, ReadersOf
  <2>2. \A k \in Sends : send'[k].fate = "read" => send[k].turn # None
    BY <1>13, <1>11 DEF SendInv
  <2> SUFFICES ASSUME NEW k \in Sends
               PROVE  /\ send'[k].fate = "read" => k \in native'[send[k].turn].reads
                      /\ \A j \in ReadersOf(k)' :
                           /\ send[k].turn # None /\ native[j].by = native[send[k].turn].by
                           /\ \/ send'[k].fate = "read" /\ j = send[k].turn
                              \/ send'[k].fate = "rejected" /\ k \notin msp.steers /\ ~Pending(k, native[j].by)
                      /\ \A i, j \in ReadersOf(k)' : i = j
                      /\ \A t \in Chats : Pending(k, t) =>
                           send'[k].fate = "rejected" /\ k \notin msp.steers /\ native[send[k].turn].by = t
    <3>1. \A k \in Sends, t \in Chats : Pending(k, t)' => send[k].turn # None
      BY <1>16 DEF MspInv, ReadInv, SendInv
    <3>2. \A k \in Sends : \A j \in ReadersOf(k)' :
            j \in Natives /\ native'[j].by = native[j].by /\ native[j].by \in Chats
      <4>1. native[n].by \in Chats
        BY <1>1 DEF MspInv, SendInv, n
      <4> QED
        BY <1>2, <1>8, <1>16, <2>1, <4>1
    <3> QED
      BY <1>1, <1>8, <1>11, <1>12, <1>16, <3>1, <3>2 DEF ReadInv
  <2>3. CASE k = m
    BY <1>1, <1>2, <1>3, <1>4, <1>5, <1>6, <1>15, <1>16, <2>3 DEF n
  <2>4. CASE k # m
    <3>1. send[k].fate = "read" => k \in native'[send[k].turn].reads
      BY <1>2, <1>4, <1>5, <1>6, <1>12, <2>2, <2>4 DEF MspInv, ReadInv
    <3> QED
      BY <1>5, <1>16, <2>4, <3>1 DEF MspInv, ReadInv
  <2> QED
    BY <2>3, <2>4
<1>18. TrackInv'
  <2> SUFFICES ASSUME NEW k \in Sends, NEW u \in Chats, send[k].turn # None, native[send[k].turn].by = u,
                      ~chat[u].late, send[k].told \in {"none", "taken"}
               PROVE  /\ chat[u].pc # "over" => k \in msp.steers \/ Kept(k, u)'
                      /\ chat[u].result = "answer" => Kept(k, u)'
    BY <1>1, <1>8, <1>11, <1>12 DEF TrackInv
  <2>1. Kept(k, u) => Kept(k, u)'
    BY <1>11, <1>15, <1>16 DEF Kept
  <2> QED
    BY <2>1 DEF MspInv, TrackInv
<1> QED
  BY <1>7, <1>10, <1>13, <1>14, <1>17, <1>18 DEF MspInv

-----------------------------------------------------------------------------
(* The host.                                                               *)

(* A turn of the host's own is nobody's, and reads no message.             *)
LEMMA HostWakesKeeps ==
    ASSUME MspInv, HostWakes
    PROVE  MspInv'
<1>1. /\ Kinds /\ EventTypes /\ UnbornNatives # {} /\ Begun(NewNative, Host, "running", {})
      /\ msp' = msp /\ chat' = chat /\ send' = send /\ posted' = posted
  BY KindsHold, EventsTyped DEF MspInv, HostWakes
<1>2. {} \in SUBSET Sends
  OBVIOUS
<1>3. PICK n \in Natives :
        /\ native[n].state = "unborn" /\ native[n].by = None /\ native' \in [Natives -> NativeRecords]
        /\ native'[n].by = Host /\ native'[n].state = "running" /\ native'[n].reads = {} /\ ~native'[n].wrote
        /\ \A k \in Natives : k # n => native'[k] = native[k]
        /\ \A e \in MspEvents : Known(e) => Known(e)' /\ e.turn # n
        /\ SendInv'
        /\ \A m \in Sends : send[m].turn # None =>
             send[m].turn \in Natives /\ send[m].turn # n /\ native'[send[m].turn] = native[send[m].turn]
  BY <1>1, <1>2, BeginFacts
<1>4. MspTypeOK' /\ HolderInv' /\ ListInv'
  BY <1>1, <1>3 DEF MspInv, MspTypeOK, HolderInv, ListInv
<1>5. \A t \in Chats : chat[t].native # None =>
        chat[t].native \in Natives /\ chat[t].native # n /\ native'[chat[t].native] = native[chat[t].native]
  BY <1>1, <1>3, MspAssumption DEF MspInv, CallInv, Kinds, ChatKinds
<1>6. CallInv'
  BY <1>1, <1>5 DEF MspInv, CallInv
<1>7. NativeInv' /\ AnswerInv'
  BY <1>1, <1>3, MspAssumption DEF MspInv, NativeInv, AnswerInv
<1>8. EventInv'
  BY <1>1, <1>3 DEF MspInv, EventInv, EventTypes
<1>9. FlowInv'
  BY <1>1, <1>5 DEF MspInv, FlowInv, FlowOf, TakenUp, Arrived, InHand, CallInv
<1>10. \A m \in Sends : ReadersOf(m)' = ReadersOf(m) /\ \A t \in Chats : Pending(m, t)' <=> Pending(m, t)
  BY <1>1, <1>3 DEF ReadersOf, Pending, MspInv, NativeInv
<1>11. \A m \in Sends : \A k \in ReadersOf(m) : k # n /\ native[k].by \in Chats
  BY <1>1, <1>3, MspAssumption DEF MspInv, ReadInv, SendInv, ReadersOf, NativeInv
<1>12. ReadInv'
  <2> SUFFICES ASSUME NEW m \in Sends
               PROVE  /\ send[m].fate = "read" => m \in native'[send[m].turn].reads
                      /\ \A k \in ReadersOf(m) :
                           /\ send[m].turn # None /\ native'[k].by = native'[send[m].turn].by
                           /\ \/ send[m].fate = "read" /\ k = send[m].turn
                              \/ send[m].fate = "rejected" /\ m \notin msp.steers /\ ~Pending(m, native[k].by)
                           /\ \A j \in ReadersOf(m) : j = k
                      /\ \A u \in Chats : Pending(m, u) =>
                           send[m].fate = "rejected" /\ m \notin msp.steers /\ native'[send[m].turn].by = u
    <3>1. \A m \in Sends : \A k \in ReadersOf(m) : native'[k] = native[k]
      BY <1>3, <1>11 DEF ReadersOf
    <3> QED
      BY <1>1, <1>10, <1>11, <3>1 DEF ReadInv
  <2>1. send[m].fate = "read" => send[m].turn # None
    BY DEF MspInv, SendInv
  <2>2. \A u \in Chats : Pending(m, u) => send[m].turn # None
    BY DEF MspInv, ReadInv, SendInv
  <2>3. \A k \in ReadersOf(m) : native'[k] = native[k]
    BY <1>3, <1>11 DEF ReadersOf
  <2> QED
    BY <1>3, <2>1, <2>2, <2>3 DEF MspInv, ReadInv
<1>13. TrackInv'
  BY <1>1, <1>3, <1>10 DEF MspInv, TrackInv, Kept
<1> QED
  BY <1>3, <1>4, <1>6, <1>7, <1>8, <1>9, <1>12, <1>13 DEF MspInv

(* An event of a turn that runs or has run is put behind the others.       *)
LEMMA EmittedFacts ==
    ASSUME MspInv, NEW e \in MspEvents, msp' = Emitted(e)
    PROVE  /\ msp' \in MspRecords /\ HolderStays /\ msp'.live = msp.live /\ msp'.steers = msp.steers
           /\ msp'.hand = msp.hand
           /\ \A i \in DOMAIN msp'.events : \/ msp'.events[i] = e
                                            \/ i \in DOMAIN msp.events /\ msp'.events[i] = msp.events[i]
           /\ \A n : /\ Has(msp.events, Text(n)) => Has(msp'.events, Text(n))
                     /\ msp.live /\ e = Text(n) => Has(msp'.events, Text(n))
                     /\ Preceded(msp.events, Text(n), End(n)) /\ (e = End(n) => Has(msp.events, Text(n)))
                          => Preceded(msp'.events, Text(n), End(n))
<1> DEFINE z == msp.events  q == Append(z, e)
<1>1. Kinds /\ z \in Seq(MspEvents)
  BY KindsHold DEF MspInv, Kinds, MspKinds
<1>2. CASE ~msp.live
  <2>1. msp' = msp
    <3>1. msp' = [msp EXCEPT !.events = msp.events]
      BY <1>2 DEF Emitted
    <3> QED
      BY <1>1, <3>1 DEF Kinds, MspKinds, MspRecords
  <2> QED
    BY <1>1, <1>2, <2>1 DEF Kinds, MspKinds, HolderStays
<1>3. CASE msp.live
  <2>1. q \in Seq(MspEvents) /\ \A i \in DOMAIN q : q[i] = e \/ (i \in DOMAIN z /\ q[i] = z[i])
    <3> HIDE DEF z
    <3>1. PICK k \in Nat :
          /\ Append(z, e) \in Seq(MspEvents) /\ Append(z, e)[k] = e
          /\ \A i \in DOMAIN z : Append(z, e)[i] = z[i]
          /\ \A i \in DOMAIN Append(z, e) : i = k \/ i \in DOMAIN z
      BY <1>1, AppendFacts
    <3> QED
      BY <3>1
  <2>2. \A n : /\ Has(z, Text(n)) \/ e = Text(n) => Has(q, Text(n))
               /\ Preceded(z, Text(n), End(n)) /\ (e = End(n) => Has(z, Text(n))) => Preceded(q, Text(n), End(n))
    <3> HIDE DEF z
    <3> QED
      BY <1>1, AppendOrder
  <2>3. msp' = [msp EXCEPT !.events = q]
    BY <1>3 DEF Emitted
  <2> HIDE DEF q
  <2>4. /\ msp' \in MspRecords /\ HolderStays /\ msp'.live = msp.live /\ msp'.steers = msp.steers
        /\ msp'.hand = msp.hand /\ msp'.events = q
    BY <1>1, <2>1, <2>3 DEF Kinds, MspKinds, MspRecords, HolderStays
  <2> QED
    BY <2>1, <2>2, <2>4
<1> QED
  BY <1>2, <1>3

(* What a turn writes while it runs, and what it asks.                     *)
LEMMA SpeaksKeeps ==
    ASSUME MspInv, NEW n \in Natives, HostRuns(n), NEW e \in {Text(n), Event("ask", n)}, msp' = Emitted(e),
           NEW r \in NativeRecords, native' = [native EXCEPT ![n] = r],
           r.by = native[n].by, r.state = native[n].state, r.reads = native[n].reads,
           e # Text(n) => r.wrote = native[n].wrote,
           chat' = chat, send' = send, posted' = posted
    PROVE  MspInv'
<1>1. Kinds /\ EventTypes /\ native[n].state = "running" /\ msp.live
  BY KindsHold, EventsTyped DEF MspInv, HostRuns
<1>2. /\ e \in MspEvents /\ e.turn = n /\ e.kind \notin Ends /\ \A k : e # End(k)
      /\ \A k : k # n => e # Text(k)
  BY DEF MspEvents, Text, End, Event, Ends
<1>3. native'[n] = r /\ \A k \in Natives : k # n => native'[k] = native[k]
  BY <1>1 DEF Kinds
<1>4. /\ msp' \in MspRecords /\ HolderStays /\ msp'.live = msp.live /\ msp'.steers = msp.steers
      /\ msp'.hand = msp.hand
      /\ \A i \in DOMAIN msp'.events : \/ msp'.events[i] = e
                                       \/ i \in DOMAIN msp.events /\ msp'.events[i] = msp.events[i]
      /\ \A k : /\ Has(msp.events, Text(k)) => Has(msp'.events, Text(k))
                /\ msp.live /\ e = Text(k) => Has(msp'.events, Text(k))
                /\ Preceded(msp.events, Text(k), End(k)) /\ (e = End(k) => Has(msp.events, Text(k)))
                     => Preceded(msp'.events, Text(k), End(k))
  BY <1>2, EmittedFacts
<1>5. MspTypeOK'
  BY <1>4 DEF MspInv, MspTypeOK
<1>6. NativesStay
  BY <1>3 DEF NativesStay
<1>7. CallsStay
  BY DEF CallsStay
<1>8. EventInv'
  <2>1. \A x \in MspEvents : Known(x) => Known(x)'
    BY <1>6 DEF Known, MspEvents, NativesStay
  <2>2. Known(e)'
    BY <1>1, <1>2, <1>3 DEF Known
  <2> QED
    BY <1>1, <1>4, <2>1, <2>2 DEF MspInv, EventInv, EventTypes
<1>9. FlowInv'
  <2> SUFFICES ASSUME NEW t \in Chats, chat[t].pc \in {"started", "running"},
                      chat[t].native \notin chat[t].answers
               PROVE  FlowOf(t, chat[t].native)'
    BY DEF FlowInv, FlowOf
  <2> DEFINE k == chat[t].native
  <2>1. FlowOf(t, k) /\ k \in Natives
    BY <1>1 DEF MspInv, FlowInv, CallInv, Kinds, ChatKinds
  <2>2. (k = n /\ e = Text(n)) \/ native'[k].wrote = native[k].wrote
    BY <1>3, <2>1
  <2> QED
    BY <1>1, <1>2, <1>4, <2>1, <2>2 DEF FlowOf, TakenUp, Arrived, InHand
<1> QED
  BY <1>1, <1>3, <1>4, <1>5, <1>6, <1>7, <1>8, <1>9, CarriedKeeps

LEMMA HostWritesKeeps ==
    ASSUME MspInv, NEW n \in Natives, HostWrites(n)
    PROVE  MspInv'
<1> DEFINE r == [native[n] EXCEPT !.wrote = TRUE]
<1>1. Kinds
  BY KindsHold DEF MspInv
<1>2. /\ r \in NativeRecords /\ r.by = native[n].by /\ r.state = native[n].state /\ r.reads = native[n].reads
  BY <1>1 DEF Kinds, NativeKinds, NativeRecords
<1>3. /\ HostRuns(n) /\ native' = [native EXCEPT ![n] = r] /\ msp' = Emitted(Text(n))
      /\ chat' = chat /\ send' = send /\ posted' = posted
  BY DEF HostWrites, Text
<1> HIDE DEF r
<1> QED
  BY <1>2, <1>3, SpeaksKeeps

LEMMA HostAsksKeeps ==
    ASSUME MspInv, NEW n \in Natives, HostAsks(n)
    PROVE  MspInv'
<1> DEFINE r == [native[n] EXCEPT !.asks = "open"]
<1>1. Kinds
  BY KindsHold DEF MspInv
<1>2. /\ r \in NativeRecords /\ r.by = native[n].by /\ r.state = native[n].state /\ r.reads = native[n].reads
      /\ r.wrote = native[n].wrote
  BY <1>1 DEF Kinds, NativeKinds, NativeRecords
<1>3. /\ HostRuns(n) /\ native' = [native EXCEPT ![n] = r] /\ msp' = Emitted(Event("ask", n))
      /\ chat' = chat /\ send' = send /\ posted' = posted
  BY DEF HostAsks
<1> HIDE DEF r
<1> QED
  BY <1>2, <1>3, SpeaksKeeps

(* The end stands behind the text of a turn that completes; the messages   *)
(* that it took and did not read are doomed.                               *)
LEMMA HostEndsKeeps ==
    ASSUME MspInv, NEW n \in Natives, NEW kind \in Ends, HostEnds(n, kind)
    PROVE  MspInv'
<1> DEFINE e == Event(kind, n)
           r == [native[n] EXCEPT !.state = "over", !.asks = IF @ = "open" THEN "done" ELSE @]
<1>1. /\ Kinds /\ EventTypes /\ native[n].state = "running" /\ msp.live
      /\ kind = "completed" => native[n].wrote
      /\ msp' = Emitted(e) /\ native' = [native EXCEPT ![n] = r] /\ chat' = chat /\ posted' = posted
  BY KindsHold, EventsTyped DEF MspInv, HostEnds, HostRuns
<1>2. send' = [m \in Sends |-> IF send[m].turn = n /\ send[m].host = "taken" /\ send[m].fate = "waiting"
                               THEN [send[m] EXCEPT !.fate = "doomed"] ELSE send[m]]
  BY DEF HostEnds
<1>3. /\ e \in MspEvents /\ e.turn = n /\ e.kind = kind /\ \A k : e # Text(k)
      /\ \A k : e = End(k) => k = n /\ kind = "completed"
  BY DEF MspEvents, Text, End, Event, Ends
<1>4. r \in NativeRecords /\ r.by = native[n].by /\ r.state = "over" /\ r.reads = native[n].reads
      /\ r.wrote = native[n].wrote
  BY <1>1 DEF Kinds, NativeKinds, NativeRecords
<1> HIDE DEF e, r
<1>5. native'[n] = r /\ \A k \in Natives : k # n => native'[k] = native[k]
  BY <1>1 DEF Kinds
<1>6. /\ msp' \in MspRecords /\ HolderStays /\ msp'.live = msp.live /\ msp'.steers = msp.steers
      /\ msp'.hand = msp.hand
      /\ \A i \in DOMAIN msp'.events : \/ msp'.events[i] = e
                                       \/ i \in DOMAIN msp.events /\ msp'.events[i] = msp.events[i]
      /\ \A k : /\ Has(msp.events, Text(k)) => Has(msp'.events, Text(k))
                /\ Preceded(msp.events, Text(k), End(k)) /\ (e = End(k) => Has(msp.events, Text(k)))
                     => Preceded(msp'.events, Text(k), End(k))
  BY <1>1, <1>3, EmittedFacts
<1>7. \A m \in Sends :
        /\ send'[m] \in SendRecords /\ send'[m].turn = send[m].turn /\ send'[m].told = send[m].told
        /\ send'[m].pc = send[m].pc /\ send'[m].host = send[m].host
        /\ \/ /\ send'[m].fate = send[m].fate
              /\ ~(send[m].turn = n /\ send[m].host = "taken" /\ send[m].fate = "waiting")
           \/ /\ send[m].fate = "waiting" /\ send'[m].fate = "doomed"
              /\ send[m].turn = n /\ send[m].host = "taken"
  <2> TAKE m \in Sends
  <2>1. [send[m] EXCEPT !.fate = "doomed"] \in SendRecords /\ send[m] \in SendRecords
    BY <1>1 DEF Kinds, SendKinds, SendRecords
  <2> QED
    BY <1>2, <2>1 DEF SendRecords
<1>8. MspTypeOK'
  <2>1. send' \in [Sends -> SendRecords]
    <3>1. DOMAIN send' = Sends /\ send' = [m \in Sends |-> send'[m]]
      BY <1>2
    <3> QED
      BY <1>7, <3>1
  <2> QED
    BY <1>1, <1>4, <1>6, <2>1 DEF MspInv, MspTypeOK
<1>9. \A k \in Natives : /\ native'[k].by = native[k].by /\ native'[k].reads = native[k].reads
                         /\ native'[k].wrote = native[k].wrote
                         /\ native'[k].state = IF k = n THEN "over" ELSE native[k].state
  BY <1>4, <1>5
<1>10. HolderInv'
  BY <1>1, <1>6 DEF MspInv, HolderInv, HolderStays
<1>11. CallInv' /\ NativeInv' /\ AnswerInv'
  BY <1>1, <1>9, MspAssumption DEF MspInv, CallInv, NativeInv, AnswerInv, Kinds, ChatKinds
<1>12. EventInv'
  <2>1. \A x \in MspEvents : Known(x) => Known(x)'
    BY <1>9 DEF Known, MspEvents
  <2>2. Known(e)'
    BY <1>3, <1>9 DEF Known
  <2> QED
    BY <1>1, <1>6, <2>1, <2>2 DEF MspInv, EventInv, EventTypes
<1>13. FlowInv'
  <2> SUFFICES ASSUME NEW t \in Chats, chat[t].pc \in {"started", "running"},
                      chat[t].native \notin chat[t].answers
               PROVE  FlowOf(t, chat[t].native)'
    BY <1>1 DEF FlowInv, FlowOf
  <2> DEFINE k == chat[t].native
  <2>1. FlowOf(t, k) /\ k \in Natives
    BY <1>1, MspAssumption DEF MspInv, FlowInv, CallInv, Kinds, ChatKinds
  <2>2. native'[k].wrote = native[k].wrote
    BY <1>9, <2>1
  <2>3. e = End(k) => TakenUp(t, k) \/ Has(msp.events, Text(k))
    BY <1>1, <1>3, <2>1 DEF FlowOf
  <2> QED
    BY <1>1, <1>6, <2>1, <2>2, <2>3 DEF FlowOf, TakenUp, Arrived, InHand
<1>14. \A m \in Sends : send[m].turn # None => send[m].turn \in Natives
  BY <1>1 DEF Kinds, SendKinds
<1>15. SendInv'
  BY <1>7, <1>9, <1>14 DEF MspInv, SendInv
<1>16. ListInv'
  BY <1>1, <1>6, <1>7, <1>8 DEF MspInv, ListInv, MspTypeOK, MspRecords
<1>17. \A m \in Sends : ReadersOf(m)' = ReadersOf(m) /\ \A t \in Chats : Pending(m, t)' <=> Pending(m, t)
  BY <1>1, <1>9 DEF ReadersOf, Pending
<1>18. ReadInv'
  <2>1. \A m \in Sends : \A k \in ReadersOf(m) : k \in Natives /\ native[k].by \in Chats
    BY <1>1, MspAssumption DEF MspInv, ReadInv, SendInv, ReadersOf
  <2>2. \A m \in Sends : send'[m].fate = "read" => send[m].turn # None
    BY <1>15, <1>7 DEF SendInv
  <2>3. \A m \in Sends, t \in Chats : Pending(m, t) => send[m].turn # None
    BY DEF MspInv, ReadInv, SendInv
  <2>4. \A m \in Sends : send[m].fate = "waiting" => ReadersOf(m) = {} /\ \A t \in Chats : ~Pending(m, t)
    BY DEF MspInv, ReadInv
  <2> SUFFICES ASSUME NEW m \in Sends
               PROVE  /\ send'[m].fate = "read" => m \in native[send[m].turn].reads
                      /\ \A k \in ReadersOf(m) :
                           /\ send[m].turn # None /\ native[k].by = native[send[m].turn].by
                           /\ \/ send'[m].fate = "read" /\ k = send[m].turn
                              \/ send'[m].fate = "rejected" /\ m \notin msp.steers /\ ~Pending(m, native[k].by)
                           /\ \A j \in ReadersOf(m) : j = k
                      /\ \A u \in Chats : Pending(m, u) =>
                           send'[m].fate = "rejected" /\ m \notin msp.steers /\ native[send[m].turn].by = u
    BY <1>6, <1>7, <1>9, <1>14, <1>17, <2>1, <2>2, <2>3 DEF ReadInv
  <2>5. CASE send'[m].fate = send[m].fate
    BY <2>5 DEF MspInv, ReadInv
  <2>6. CASE send[m].fate = "waiting" /\ send'[m].fate = "doomed"
    BY <2>4, <2>6
  <2> QED
    BY <1>7, <2>5, <2>6
<1>19. TrackInv'
  <2> SUFFICES ASSUME NEW m \in Sends, NEW u \in Chats, send[m].turn # None, native[send[m].turn].by = u,
                      ~chat[u].late, send[m].told \in {"none", "taken"}
               PROVE  /\ chat[u].pc # "over" => m \in msp.steers \/ Kept(m, u)'
                      /\ chat[u].result = "answer" => Kept(m, u)'
    BY <1>1, <1>6, <1>7, <1>9, <1>14 DEF TrackInv
  <2>1. Kept(m, u) => Kept(m, u)'
    BY <1>7, <1>17 DEF Kept
  <2> QED
    BY <2>1 DEF MspInv, TrackInv
<1> QED
  BY <1>8, <1>10, <1>11, <1>12, <1>13, <1>15, <1>16, <1>18, <1>19 DEF MspInv

(* A compaction is a turn that is over as it begins.                       *)
LEMMA HostCompactsKeeps ==
    ASSUME MspInv, NEW t \in Chats, HostCompacts(t)
    PROVE  MspInv'
<1>1. /\ Kinds /\ EventTypes /\ chat[t].pc = "compacting" /\ chat[t].native = None /\ msp.live
      /\ UnbornNatives # {} /\ Begun(NewNative, t, "over", {}) /\ send' = send /\ posted' = posted
      /\ msp' = Emitted(Event("compacted", NewNative)) /\ chat' = [chat EXCEPT ![t].native = NewNative]
  BY KindsHold, EventsTyped DEF MspInv, HostCompacts, ChatAt
<1>2. {} \in SUBSET Sends
  OBVIOUS
<1>3. PICK n \in Natives :
        /\ n = NewNative
        /\ native[n].state = "unborn" /\ native[n].by = None /\ native' \in [Natives -> NativeRecords]
        /\ native'[n].by = t /\ native'[n].state = "over" /\ native'[n].reads = {} /\ ~native'[n].wrote
        /\ \A k \in Natives : k # n => native'[k] = native[k]
        /\ \A e \in MspEvents : Known(e) => Known(e)' /\ e.turn # n
        /\ SendInv'
        /\ \A m \in Sends : send[m].turn # None =>
             send[m].turn \in Natives /\ send[m].turn # n /\ native'[send[m].turn] = native[send[m].turn]
  BY <1>1, <1>2, BeginFacts
<1> DEFINE c == [chat[t] EXCEPT !.native = n]  e == Event("compacted", n)
<1>4. /\ c \in ChatRecords /\ c.pc = "compacting" /\ c.native = n /\ c.inbox = chat[t].inbox
      /\ c.answers = chat[t].answers /\ c.late = chat[t].late /\ c.result = chat[t].result
      /\ c.input = chat[t].input
  BY <1>1 DEF Kinds, ChatKinds, ChatRecords
<1>5. e \in MspEvents /\ e.turn = n /\ e.kind = "compacted" /\ msp' = Emitted(e)
  BY <1>1, <1>3 DEF MspEvents, Event
<1>6. chat' = [chat EXCEPT ![t] = c]
  BY <1>1, <1>3
<1> HIDE DEF c, e
<1>7. chat'[t] = c /\ \A u \in Chats : u # t => chat'[u] = chat[u] /\ chat[u].pc \notin Busy
  BY <1>1, <1>6, OneBusy DEF Kinds, Busy
<1>8. /\ msp' \in MspRecords /\ HolderStays /\ msp'.steers = msp.steers /\ msp'.hand = msp.hand
      /\ \A i \in DOMAIN msp'.events : \/ msp'.events[i] = e
                                       \/ i \in DOMAIN msp.events /\ msp'.events[i] = msp.events[i]
  BY <1>5, EmittedFacts
<1>9. msp.turnID = None /\ msp.steers = {}
  BY <1>1, <1>7 DEF MspInv, HolderInv, ListInv, Busy
<1>10. MspTypeOK'
  BY <1>1, <1>3, <1>4, <1>6, <1>8 DEF MspInv, MspTypeOK
<1>11. HolderInv'
  BY <1>1, <1>4, <1>7, <1>8, <1>9 DEF MspInv, HolderInv, HolderStays, Busy
<1>12. CallInv'
  <2>1. \A u \in Chats : chat[u].native # None => native'[chat[u].native] = native[chat[u].native]
    BY <1>1, <1>3, MspAssumption DEF MspInv, CallInv, Kinds, ChatKinds
  <2>2. n # None /\ chat[t].result = "none"
    BY <1>1, <1>3, MspAssumption DEF MspInv, CallInv
  <2> QED
    BY <1>3, <1>4, <1>7, <2>1, <2>2 DEF MspInv, CallInv
<1>13. NativeInv'
  <2> SUFFICES ASSUME NEW k \in Natives
               PROVE  /\ native'[k].by = None <=> native'[k].state = "unborn"
                      /\ native'[k].state = "unborn" => native'[k].reads = {} /\ ~native'[k].wrote
                      /\ native'[k].by \in Chats => chat'[native'[k].by].pc # "lock"
    BY DEF NativeInv
  <2>1. CASE k = n
    BY <1>3, <1>4, <1>7, <2>1, MspAssumption
  <2>2. CASE k # n
    BY <1>1, <1>3, <1>4, <1>7, <2>2 DEF MspInv, NativeInv
  <2> QED
    BY <2>1, <2>2
<1>14. AnswerInv'
  <2> SUFFICES ASSUME NEW u \in Chats, NEW k \in Natives, native'[k].by = u
               PROVE  \/ k \in chat'[u].answers
                      \/ chat'[u].native = k /\ chat'[u].pc \in {"started", "running", "stopping", "compacting"}
                      \/ chat'[u].pc = "over" /\ chat'[u].result # "answer"
    BY DEF AnswerInv
  <2>1. CASE k = n
    BY <1>3, <1>4, <1>7, <2>1
  <2>2. CASE k # n
    <3>1. k # None
      BY MspAssumption
    <3> QED
      BY <1>1, <1>3, <1>4, <1>7, <2>2, <3>1 DEF MspInv, AnswerInv
  <2> QED
    BY <2>1, <2>2
<1>15. EventInv'
  <2>1. Known(e)'
    BY <1>3, <1>5 DEF Known
  <2>2. \A u \in Chats : chat'[u].inbox = chat[u].inbox
    BY <1>4, <1>7
  <2> QED
    BY <1>1, <1>3, <1>8, <2>1, <2>2 DEF MspInv, EventInv, EventTypes
<1>16. FlowInv'
  BY <1>4, <1>7 DEF FlowInv, Busy
<1>17. ListInv'
  BY <1>8, <1>9 DEF ListInv
<1>18. \A m \in Sends : ReadersOf(m)' = ReadersOf(m) /\ \A u \in Chats : ~Pending(m, u) /\ ~Pending(m, u)'
  <2>1. \A m \in Sends : ReadersOf(m)' = ReadersOf(m)
    BY <1>3 DEF ReadersOf, MspInv, NativeInv
  <2> QED
    BY <1>1, <1>4, <1>7, <2>1 DEF Pending, Busy
<1>19. ReadInv'
  <2>1. \A m \in Sends : \A k \in ReadersOf(m) :
          k \in Natives /\ native'[k] = native[k] /\ native[k].by \in Chats
    BY <1>1, <1>3, MspAssumption DEF MspInv, ReadInv, SendInv, ReadersOf, NativeInv
  <2>2. \A m \in Sends : send[m].fate = "read" => m \in native'[send[m].turn].reads
    BY <1>3 DEF MspInv, ReadInv, SendInv
  <2> SUFFICES ASSUME NEW m \in Sends
               PROVE  \A k \in ReadersOf(m) :
                           /\ send[m].turn # None /\ native[k].by = native'[send[m].turn].by
                           /\ \/ send[m].fate = "read" /\ k = send[m].turn
                              \/ send[m].fate = "rejected"
                           /\ \A j \in ReadersOf(m) : j = k
    BY <1>1, <1>8, <1>9, <1>18, <2>1, <2>2 DEF ReadInv
  <2> QED
    BY <1>3 DEF MspInv, ReadInv
<1>20. TrackInv'
  <2> SUFFICES ASSUME NEW m \in Sends, NEW u \in Chats, send[m].turn # None, native[send[m].turn].by = u,
                      ~chat[u].late, send[m].told \in {"none", "taken"}
               PROVE  /\ chat'[u].pc # "over" => Kept(m, u)'
                      /\ chat'[u].result = "answer" => Kept(m, u)'
    BY <1>1, <1>3, <1>4, <1>7 DEF TrackInv
  <2>1. Kept(m, u) => Kept(m, u)'
    BY <1>1, <1>18 DEF Kept
  <2>2. chat'[u].result = chat[u].result /\ chat'[u].pc = chat[u].pc
    BY <1>1, <1>4, <1>7
  <2> QED
    BY <1>9, <2>1, <2>2 DEF MspInv, TrackInv
<1> QED
  BY <1>3, <1>10, <1>11, <1>12, <1>13, <1>14, <1>15, <1>16, <1>17, <1>19, <1>20 DEF MspInv

(* What was on its way is lost: no end follows a text that was.            *)
LEMMA HostDiesKeeps ==
    ASSUME MspInv, HostDies
    PROVE  MspInv'
<1>1. Kinds /\ chat' = chat /\ send' = send /\ native' = native /\ posted' = posted /\ msp' = Dead
  BY KindsHold DEF MspInv, HostDies
<1>2. /\ msp' \in MspRecords /\ HolderStays /\ msp'.steers = msp.steers /\ ~msp'.live
      /\ msp'.events = <<>> /\ msp'.hand = <<>>
  <2>1. <<>> \in Seq(MspEvents) /\ <<>> \in Seq(MspHeld)
    OBVIOUS
  <2> QED
    BY <1>1, <2>1 DEF Kinds, MspKinds, MspRecords, HolderStays, Dead
<1>3. MspTypeOK'
  BY <1>1, <1>2 DEF MspInv, MspTypeOK
<1>4. EventInv'
  <2>1. \A e : Known(e)' <=> Known(e)
    BY <1>1 DEF Known
  <2> QED
    BY <1>1, <1>2, <2>1 DEF MspInv, EventInv
<1>5. FlowInv'
  <2> SUFFICES ASSUME NEW t \in Chats, chat[t].pc \in {"started", "running"}
               PROVE  FlowOf(t, chat[t].native)'
    BY <1>1 DEF FlowInv
  <2>1. FlowOf(t, chat[t].native)
    BY DEF MspInv, FlowInv
  <2>2. \A x, y : Preceded(msp'.events, x, y)
    BY <1>2 DEF Preceded
  <2> QED
    BY <1>1, <1>2, <2>1, <2>2 DEF FlowOf, InHand, Arrived, TakenUp
<1>6. CallsStay /\ NativesStay
  BY <1>1 DEF CallsStay, NativesStay
<1> QED
  BY <1>1, <1>2, <1>3, <1>4, <1>5, <1>6, CarriedKeeps

-----------------------------------------------------------------------------
(* The invariant.                                                          *)

LEMMA InitHolds == MspInit => MspInv
<1> SUFFICES ASSUME MspInit PROVE MspInv
  OBVIOUS
<1> USE DEF MspInit
<1>1. MspTypeOK
  <2>1. <<>> \in Seq(MspEvents) /\ <<>> \in Seq(MspHeld)
    OBVIOUS
  <2> QED
    BY <2>1 DEF MspTypeOK, MspRecords, ChatRecords, SendRecords, NativeRecords
<1>2. HolderInv /\ CallInv /\ NativeInv
  BY MspAssumption DEF HolderInv, CallInv, NativeInv, Busy
<1>3. AnswerInv /\ EventInv /\ FlowInv
  BY MspAssumption DEF AnswerInv, EventInv, FlowInv
<1>4. SendInv /\ ListInv
  BY DEF SendInv, ListInv
<1>5. ReadInv /\ TrackInv
  BY DEF ReadInv, TrackInv, ReadersOf, Pending
<1> QED
  BY <1>1, <1>2, <1>3, <1>4, <1>5 DEF MspInv

LEMMA StepKeeps == MspInv /\ [MspNext]_mspVars => MspInv'
<1> SUFFICES ASSUME MspInv, [MspNext]_mspVars PROVE MspInv'
  OBVIOUS
<1>1. CASE UNCHANGED mspVars
  <2> USE <1>1 DEF mspVars
  <2>1. MspTypeOK' /\ HolderInv' /\ CallInv' /\ NativeInv' /\ AnswerInv'
    BY DEF MspInv, MspTypeOK, HolderInv, CallInv, NativeInv, AnswerInv
  <2>2. EventInv' /\ FlowInv'
    BY DEF MspInv, EventInv, FlowInv, Known, FlowOf, TakenUp, Arrived, InHand
  <2>3. SendInv' /\ ListInv'
    BY DEF MspInv, SendInv, ListInv
  <2>4. ReadInv' /\ TrackInv'
    BY DEF MspInv, ReadInv, TrackInv, ReadersOf, Pending, Kept
  <2> QED
    BY <2>1, <2>2, <2>3, <2>4 DEF MspInv
<1>2. CASE MspPump \/ HostWakes \/ HostDies
  BY <1>2, MspTakesKeeps, MspDeliversKeeps, HostWakesKeeps, HostDiesKeeps DEF MspPump
<1>3. ASSUME NEW t \in Chats, ChatStep(t) PROVE MspInv'
  BY <1>3, StartTurnKeeps, StartedKeeps, HandleEventKeeps, TurnInterruptedKeeps, ChatGoneKeeps,
     VerdictKeeps, VerdictHandlesKeeps, CompactKeeps, CompactReadsKeeps DEF ChatStep
<1>4. ASSUME NEW t \in Chats,
             LockChat(t) \/ CancelTurn(t) \/ VerdictGivesUp(t) \/ CompactCancelled(t) \/ HostCompacts(t)
      PROVE  MspInv'
  BY <1>4, LockChatKeeps, CancelTurnKeeps, VerdictGivesUpKeeps, CompactCancelledKeeps, HostCompactsKeeps
<1>5. ASSUME NEW m \in Sends, Send(m) \/ Sent(m) \/ HostAnswers(m) \/ HostReads(m) \/ HostRejects(m)
      PROVE  MspInv'
  BY <1>5, SendKeeps, SentKeeps, HostAnswersKeeps, HostReadsKeeps, HostRejectsKeeps
<1>6. ASSUME NEW n \in Natives, HostStep(n) PROVE MspInv'
  BY <1>6, HostWritesKeeps, HostAsksKeeps, HostEndsKeeps DEF HostStep
<1> QED
  BY <1>1, <1>2, <1>3, <1>4, <1>5, <1>6 DEF MspNext

(* The invariant of the Muse session: one call at a time is listened for,  *)
(* the text of its turn comes before the end, and every message that was   *)
(* sent to it is on its list, read or to be read (musecli_msp.go).         *)
THEOREM MspInvariant == MspSpec => []MspInv
<1>1. MspInit => MspInv
  BY InitHolds
<1>2. MspInv /\ [MspNext]_mspVars => MspInv'
  BY StepKeeps
<1> QED
  BY <1>1, <1>2, PTL DEF MspSpec

(* Types of the variables, for any number of calls, steers and turns.      *)
THEOREM MspTypeCorrect == MspSpec => []MspTypeOK
<1>1. MspInv => MspTypeOK
  BY DEF MspInv
<1> QED
  BY <1>1, MspInvariant, PTL

(* A message that turn/steer took is read by one turn of the call it was   *)
(* sent to, never by two, and the answer of the call holds the text of     *)
(* that turn, unless the call failed, was cancelled or ended its wait for  *)
(* the verdict early.                                                      *)
THEOREM SteersAreAnsweredHolds == MspSpec => []SteersAreAnswered
<1>1. MspInv => SteersAreAnswered
  <2> SUFFICES ASSUME MspInv, NEW m \in Sends
               PROVE  /\ Cardinality(ReadersOf(m)) <= 1
                      /\ send[m].turn # None => LET t == native[send[m].turn].by IN
                           send[m].told = "taken" /\ chat[t].result = "answer" /\ ~chat[t].late =>
                               \E n \in ReadersOf(m) : n \in chat[t].answers /\ native[n].by = t
    BY DEF SteersAreAnswered
  <2>1. Cardinality(ReadersOf(m)) <= 1
    <3>1. CASE ReadersOf(m) = {}
      BY <3>1, FS_EmptySet
    <3>2. CASE ReadersOf(m) # {}
      <4>1. PICK n \in ReadersOf(m) : \A k \in ReadersOf(m) : k = n
        BY <3>2 DEF MspInv, ReadInv
      <4>2. ReadersOf(m) = {n}
        BY <4>1
      <4> QED
        BY <4>2, FS_Singleton
    <3> QED
      BY <3>1, <3>2
  <2>2. ASSUME send[m].turn # None, send[m].told = "taken",
               chat[native[send[m].turn].by].result = "answer", ~chat[native[send[m].turn].by].late
        PROVE  \E n \in ReadersOf(m) : /\ n \in chat[native[send[m].turn].by].answers
                                       /\ native[n].by = native[send[m].turn].by
    <3> DEFINE t == native[send[m].turn].by
    <3>1. t \in Chats
      BY <2>2 DEF MspInv, SendInv
    <3>2. chat[t].pc = "over"
      BY <2>2, <3>1 DEF MspInv, CallInv
    <3>3. Kept(m, t)
      BY <2>2, <3>1 DEF MspInv, TrackInv
    <3>4. PICK n \in ReadersOf(m) : native[n].by = t /\ n \in Natives
      BY <3>2, <3>3 DEF Kept, Pending, MspInv, ReadInv, ReadersOf
    <3>5. n \in chat[t].answers
      BY <2>2, <3>1, <3>2, <3>4 DEF MspInv, AnswerInv
    <3> QED
      BY <3>4, <3>5
  <2> QED
    BY <2>1, <2>2
<1> QED
  BY <1>1, MspInvariant, PTL
=============================================================================
