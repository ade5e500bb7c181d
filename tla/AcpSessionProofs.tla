-------------------------- MODULE AcpSessionProofs --------------------------
(***************************************************************************)
(* Proofs about AcpSession for any number of session objects, prompts,     *)
(* closes, launch fingerprints and chunks.                                 *)
(***************************************************************************)
EXTENDS AcpSession, SequenceTheorems, TLAPS

(* A prompt refers to a process that was launched while it closes it or    *)
(* works with it; so does the slot.                                        *)
Placed == {"end", "register", "lock", "prompt", "run"}
PlaceInv ==
    /\ slot # None => acp[slot].process # "unborn"
    /\ \A t \in Prompts :
        /\ prompt[t].pc \in Placed => prompt[t].at # None /\ acp[prompt[t].at].process # "unborn"
        /\ prompt[t].replied => prompt[t].pc \in {"run", "over"}
    /\ \A c \in Enders : ender[c].pc = "end" => ender[c].at # None /\ acp[ender[c].at].process # "unborn"

(* The turn mutex has the holder it says.                                  *)
MutexInv == \A s \in Acps, t \in Prompts :
    acp[s].turn = t <=> prompt[t].at = s /\ prompt[t].pc \in {"prompt", "run"}

(* A running turn of a live process is its listener; the agent works on    *)
(* the prompt of the listener until it replies.  A process that does not   *)
(* run has nothing on its way.                                             *)
ListenerInv == \A s \in Acps :
    /\ \A t \in Prompts : acp[s].listener = t => prompt[t].at = s /\ prompt[t].pc = "run"
    /\ \A t \in Prompts : Live(s) /\ prompt[t].at = s /\ prompt[t].pc = "run" => acp[s].listener = t
    /\ acp[s].agent # None => Live(s) /\ acp[s].agent = acp[s].listener /\ ~prompt[acp[s].agent].replied
    /\ ~Live(s) => acp[s].agent = None /\ acp[s].events = <<>> /\ acp[s].hand = <<>>

(* What is on its way to the pump, or from it to a listener, was written   *)
(* for a turn that has begun; the listener is one of this process.         *)
Begun(t) == prompt[t].pc \in {"run", "over"}
OriginInv ==
    /\ \A t \in Prompts : ~Begun(t) => said[t] = 0 /\ prompt[t].inbox = <<>> /\ prompt[t].answer = <<>>
    /\ \A s \in Acps :
        /\ \A i \in DOMAIN acp[s].events : Begun(acp[s].events[i].turn)
        /\ acp[s].hand # <<>> => LET held == acp[s].hand[1] IN
              /\ Begun(held.msg.turn)
              /\ prompt[held.to].at = s /\ Begun(held.to)
              /\ acp[s].listener = held.msg.turn => held.to = held.msg.turn

(* What was written for a turn is first in its answer, then in its         *)
(* channel, then in the pump's hand and then in the reader's queue, with   *)
(* no gap; once it does not run, only answer and channel count.            *)
HeldBy(s) == IF acp[s].hand = <<>> THEN <<>> ELSE <<acp[s].hand[1].msg>>
Streaming(t) == prompt[t].pc = "run" /\ Live(prompt[t].at)
FlowOf(t) == \E a, b, c \in 0..said[t] :
    /\ Numbered(prompt[t].answer, t, 0, a)
    /\ Numbered(prompt[t].inbox, t, a, b)
    /\ Streaming(t) => /\ Numbered(HeldBy(prompt[t].at), t, b, c)
                       /\ Numbered(acp[prompt[t].at].events, t, c, said[t])
FlowInv == \A t \in Prompts : FlowOf(t)

IInv == AcpTypeOK /\ PlaceInv /\ MutexInv /\ ListenerInv /\ OriginInv /\ FlowInv /\ OnlyOverwrittenLeak
-----------------------------------------------------------------------------
(* Messages that move from one queue to the next keep their numbers: what  *)
(* Numbered says of the queues that the pump, the listener and the agent   *)
(* build.                                                                  *)

LEMMA NumberedEmpty ==
    ASSUME NEW t, NEW a \in Nat
    PROVE  Numbered(<<>>, t, a, a)
  BY DEF Numbered

(* A new message of the turn is the next one; others do not count.         *)
LEMMA NumberedAppend ==
    ASSUME NEW q \in Seq(Chunks), NEW m \in Chunks, NEW t, NEW a \in Nat, NEW b \in Nat, Numbered(q, t, a, b)
    PROVE  /\ m.turn # t => Numbered(Append(q, m), t, a, b)
           /\ m.turn = t /\ m.n = b + 1 => Numbered(Append(q, m), t, a, b + 1)
<1> DEFINE p == Append(q, m)
<1>1. /\ Len(p) = Len(q) + 1 /\ DOMAIN p = 1..(Len(q) + 1) /\ DOMAIN q = 1..Len(q) /\ Len(q) \in Nat
      /\ p[Len(q) + 1] = m /\ \A i \in DOMAIN q : p[i] = q[i]
  OBVIOUS
<1> HIDE DEF p
<1>2. \A i \in DOMAIN q : q[i] \in Chunks
  BY ElementOfSeq, <1>1
<1>3. ASSUME m.turn # t PROVE Numbered(p, t, a, b)
  <2>1. \A i \in DOMAIN p : p[i].turn = t => i \in DOMAIN q /\ p[i] = q[i]
    BY <1>1, <1>3
  <2>2. \A i \in DOMAIN p : p[i].turn = t => p[i].n \in (a + 1)..b
    BY <2>1 DEF Numbered
  <2>3. \A n \in (a + 1)..b : \E i \in DOMAIN p : p[i].turn = t /\ p[i].n = n
    <3>1. SUFFICES ASSUME NEW n \in (a + 1)..b PROVE \E i \in DOMAIN p : p[i].turn = t /\ p[i].n = n
      OBVIOUS
    <3>2. PICK i \in DOMAIN q : q[i].turn = t /\ q[i].n = n
      BY DEF Numbered
    <3>3. i \in DOMAIN p /\ p[i] = q[i]
      BY <1>1
    <3>4. QED
      BY <3>2, <3>3
  <2>4. \A i, j \in DOMAIN p : i < j /\ p[i].turn = t /\ p[j].turn = t => p[i].n < p[j].n
    BY <2>1 DEF Numbered
  <2>5. QED
    BY <2>2, <2>3, <2>4 DEF Numbered
<1>4. ASSUME m.turn = t, m.n = b + 1 PROVE Numbered(p, t, a, b + 1)
  <2>1. \A i \in DOMAIN p : p[i].turn = t => p[i].n \in (a + 1)..(b + 1)
    BY <1>1, <1>2, <1>4 DEF Numbered, Chunks
  <2>2. ASSUME NEW n \in (a + 1)..(b + 1) PROVE \E i \in DOMAIN p : p[i].turn = t /\ p[i].n = n
    <3>1. CASE n = b + 1
      BY <1>1, <1>4, <3>1
    <3>2. CASE n # b + 1
      <4>1. n \in (a + 1)..b
        BY <3>2
      <4>2. PICK i \in DOMAIN q : q[i].turn = t /\ q[i].n = n
        BY <4>1 DEF Numbered
      <4>3. QED
        BY <1>1, <4>2
    <3>3. QED
      BY <3>1, <3>2
  <2>3. ASSUME NEW i \in DOMAIN p, NEW j \in DOMAIN p, i < j, p[i].turn = t, p[j].turn = t
        PROVE  p[i].n < p[j].n
    <3>1. i \in DOMAIN q /\ p[i] = q[i] /\ q[i].n \in (a + 1)..b
      BY <1>1, <1>2, <2>3 DEF Numbered
    <3>2. CASE j = Len(q) + 1
      BY <1>1, <1>4, <3>1, <3>2
    <3>3. CASE j # Len(q) + 1
      BY <1>1, <2>3, <3>1, <3>3 DEF Numbered
    <3>4. QED
      BY <3>2, <3>3
  <2>4. QED
    BY <2>1, <2>2, <2>3 DEF Numbered
<1>5. QED
  BY <1>3, <1>4 DEF p

(* The first message of a queue, if it is of the turn, is the first number.*)
LEMMA NumberedTail ==
    ASSUME NEW q \in Seq(Chunks), q # <<>>, NEW t, NEW a \in Nat, NEW b \in Nat, Numbered(q, t, a, b)
    PROVE  /\ Head(q).turn # t => Numbered(Tail(q), t, a, b)
           /\ Head(q).turn = t => Head(q).n = a + 1 /\ a + 1 <= b /\ Numbered(Tail(q), t, a + 1, b)
<1> DEFINE p == Tail(q)
<1>1. /\ p \in Seq(Chunks) /\ Len(p) = Len(q) - 1 /\ Len(q) \in Nat \ {0} /\ DOMAIN q = 1..Len(q)
      /\ DOMAIN p = 1..(Len(q) - 1) /\ Head(q) = q[1] /\ \A i \in DOMAIN p : p[i] = q[i + 1] /\ i + 1 \in DOMAIN q
  <2>1. /\ p \in Seq(Chunks) /\ Len(p) = Len(q) - 1 /\ Len(q) \in Nat \ {0} /\ DOMAIN q = 1..Len(q)
        /\ Head(q) = q[1]
    BY HeadTailProperties, EmptySeq
  <2>2. DOMAIN p = 1..(Len(q) - 1) /\ \A i \in DOMAIN p : p[i] = q[i + 1]
    BY <2>1, HeadTailProperties
  <2>3. QED
    BY <2>1, <2>2
<1> HIDE DEF p
<1>2. \A i \in DOMAIN q : i # 1 => i - 1 \in DOMAIN p /\ p[i - 1] = q[i]
  BY <1>1
<1>3. \A i \in DOMAIN q : q[i] \in Chunks
  BY <1>1, ElementOfSeq
<1>4. \A i, j \in DOMAIN p : i < j /\ p[i].turn = t /\ p[j].turn = t => p[i].n < p[j].n
  <2>1. \A i, j \in DOMAIN p : i < j => i + 1 < j + 1
    BY <1>1
  <2>2. \A i, j \in DOMAIN q : i < j /\ q[i].turn = t /\ q[j].turn = t => q[i].n < q[j].n
    BY DEF Numbered
  <2>3. QED
    BY <1>1, <2>1, <2>2
<1>5. ASSUME Head(q).turn # t PROVE Numbered(p, t, a, b)
  <2>1. \A i \in DOMAIN p : p[i].turn = t => p[i].n \in (a + 1)..b
    BY <1>1 DEF Numbered
  <2>2. \A n \in (a + 1)..b : \E i \in DOMAIN p : p[i].turn = t /\ p[i].n = n
    <3>1. SUFFICES ASSUME NEW n \in (a + 1)..b PROVE \E i \in DOMAIN p : p[i].turn = t /\ p[i].n = n
      OBVIOUS
    <3>2. PICK i \in DOMAIN q : q[i].turn = t /\ q[i].n = n
      BY DEF Numbered
    <3>3. i # 1
      BY <1>1, <1>5, <3>2
    <3>4. QED
      BY <1>2, <3>2, <3>3
  <2>3. \A i, j \in DOMAIN p : i < j /\ p[i].turn = t /\ p[j].turn = t => p[i].n < p[j].n
    BY <1>4
  <2>4. QED
    BY <2>1, <2>2, <2>3 DEF Numbered
<1>6. ASSUME Head(q).turn = t PROVE q[1].n = a + 1 /\ a + 1 <= b /\ Numbered(p, t, a + 1, b)
  <2>1. q[1].turn = t /\ 1 \in DOMAIN q /\ q[1].n \in (a + 1)..b
    BY <1>1, <1>6 DEF Numbered
  <2>2. \A i \in DOMAIN p : p[i].turn = t => p[i].n > q[1].n
    <3>1. SUFFICES ASSUME NEW i \in DOMAIN p, p[i].turn = t PROVE p[i].n > q[1].n
      OBVIOUS
    <3>2. i + 1 \in DOMAIN q /\ 1 < i + 1 /\ q[i + 1].turn = t /\ p[i] = q[i + 1]
      BY <1>1, <3>1
    <3>3. q[1].n < q[i + 1].n
      BY <2>1, <3>2 DEF Numbered
    <3>4. q[1].n \in Nat /\ q[i + 1].n \in Nat
      BY <1>3, <2>1, <3>2 DEF Chunks
    <3>5. QED
      BY <3>2, <3>3, <3>4
  <2>3. q[1].n = a + 1
    <3>1. PICK i \in DOMAIN q : q[i].turn = t /\ q[i].n = a + 1
      BY <2>1 DEF Numbered
    <3>2. CASE i = 1
      BY <3>1, <3>2
    <3>3. CASE i # 1
      BY <1>2, <2>1, <2>2, <3>1, <3>3
    <3>4. QED
      BY <3>2, <3>3
  <2>4. \A i \in DOMAIN p : p[i].turn = t => p[i].n \in (a + 2)..b
    BY <1>1, <1>3, <2>2, <2>3 DEF Numbered, Chunks
  <2>5. \A n \in (a + 2)..b : \E i \in DOMAIN p : p[i].turn = t /\ p[i].n = n
    <3>1. SUFFICES ASSUME NEW n \in (a + 2)..b PROVE \E i \in DOMAIN p : p[i].turn = t /\ p[i].n = n
      OBVIOUS
    <3>2. PICK i \in DOMAIN q : q[i].turn = t /\ q[i].n = n
      BY <3>1 DEF Numbered
    <3>3. i # 1
      BY <2>3, <3>2
    <3>4. QED
      BY <1>2, <3>2, <3>3
  <2>6. QED
    BY <1>4, <2>1, <2>3, <2>4, <2>5 DEF Numbered
<1>7. QED
  BY <1>1, <1>5, <1>6 DEF p

(* Two queues, of which the second goes on where the first ends.           *)
LEMMA NumberedConcat ==
    ASSUME NEW p \in Seq(Chunks), NEW q \in Seq(Chunks), NEW t, NEW a \in Nat, NEW b \in Nat, NEW c \in Nat,
           Numbered(p, t, a, b), Numbered(q, t, b, c)
    PROVE  Numbered(p \o q, t, a, c)
<1> DEFINE r == p \o q
           m == Len(p)
<1>1. /\ m \in Nat /\ Len(q) \in Nat /\ DOMAIN p = 1..m /\ DOMAIN q = 1..Len(q) /\ DOMAIN r = 1..(m + Len(q))
      /\ \A i \in DOMAIN p : i \in DOMAIN r /\ r[i] = p[i]
      /\ \A i \in DOMAIN q : m + i \in DOMAIN r /\ r[m + i] = q[i]
  BY ConcatProperties, LenProperties
<1> HIDE DEF r, m
<1>2. \A i \in DOMAIN r : i \in DOMAIN p \/ (i - m \in DOMAIN q /\ i = m + (i - m))
  BY <1>1
<1>3. /\ \A i \in DOMAIN p : p[i].turn = t => p[i].n \in (a + 1)..b
      /\ \A i \in DOMAIN q : q[i].turn = t => q[i].n \in (b + 1)..c
  BY DEF Numbered
<1>4. \A i \in DOMAIN r : r[i].turn = t => r[i].n \in (a + 1)..c
  BY <1>1, <1>2, <1>3 DEF Numbered
<1>5. ASSUME NEW n \in (a + 1)..c PROVE \E i \in DOMAIN r : r[i].turn = t /\ r[i].n = n
  <2>1. CASE n <= b
    <3>1. PICK i \in DOMAIN p : p[i].turn = t /\ p[i].n = n
      BY <2>1 DEF Numbered
    <3>2. QED
      BY <1>1, <3>1
  <2>2. CASE n > b
    <3>1. PICK i \in DOMAIN q : q[i].turn = t /\ q[i].n = n
      BY <2>2 DEF Numbered
    <3>2. QED
      BY <1>1, <3>1
  <2>3. QED
    BY <2>1, <2>2
<1>6. ASSUME NEW i \in DOMAIN r, NEW j \in DOMAIN r, i < j, r[i].turn = t, r[j].turn = t
      PROVE  r[i].n < r[j].n
  <2>1. CASE j \in DOMAIN p
    <3>1. i \in DOMAIN p
      BY <1>1, <1>6, <2>1
    <3>2. QED
      BY <1>1, <1>6, <2>1, <3>1 DEF Numbered
  <2>2. CASE i \in DOMAIN p /\ j \notin DOMAIN p
    <3>1. j - m \in DOMAIN q /\ r[j] = q[j - m] /\ r[i] = p[i]
      BY <1>1, <1>2, <2>2
    <3>2. r[i].n \in (a + 1)..b /\ r[j].n \in (b + 1)..c
      BY <1>3, <1>6, <2>2, <3>1
    <3>3. QED
      BY <3>2
  <2>3. CASE i \notin DOMAIN p /\ j \notin DOMAIN p
    <3>1. i - m \in DOMAIN q /\ j - m \in DOMAIN q /\ r[i] = q[i - m] /\ r[j] = q[j - m]
      BY <1>1, <1>2, <2>3
    <3>2. i - m < j - m
      BY <1>1, <1>6
    <3>3. QED
      BY <1>6, <3>1, <3>2 DEF Numbered
  <2>4. QED
    BY <2>1, <2>2, <2>3
<1>7. QED
  <2>1. a <= c
    BY DEF Numbered
  <2>2. Numbered(r, t, a, c)
    BY <1>4, <1>5, <1>6, <2>1 DEF Numbered
  <2>3. QED
    BY <2>2 DEF r

-----------------------------------------------------------------------------
(* The steps: what each changes, and from that the parts of the invariant. *)

Kinds ==
    /\ slot \in Acps \cup {None}
    /\ \A s \in Acps :
        /\ acp[s].process \in {"unborn", "running", "finished"} /\ acp[s].turn \in Prompts \cup {None}
        /\ acp[s].listener \in Prompts \cup {None} /\ acp[s].agent \in Prompts \cup {None}
    /\ \A t \in Prompts :
        /\ prompt[t].at \in Acps \cup {None} /\ prompt[t].replied \in BOOLEAN
    /\ \A c \in Enders : ender[c].at \in Acps \cup {None}

LEMMA KindsHold == AcpTypeOK => Kinds
  BY DEF AcpTypeOK, Kinds, AcpRecords, PromptRecords, EnderRecords

(* What the end of the process of s does.                                  *)
Finished(s) ==
    /\ acp' \in [Acps -> AcpRecords]
    /\ \A r \in Acps \ {s} : acp'[r] = acp[r]
    /\ acp'[s].process # "running" /\ acp'[s].turn = acp[s].turn
    /\ acp[s].process # "running" => acp'[s] = acp[s]
    /\ acp[s].process = "running" =>
        /\ acp'[s].process = "finished" /\ acp'[s].listener = None /\ acp'[s].agent = None
        /\ acp'[s].events = <<>> /\ acp'[s].hand = <<>>

LEMMA NewAcpTyped == NewAcp \in AcpRecords
  BY DEF NewAcp, AcpRecords

LEMMA FinishFinishes ==
    ASSUME AcpTypeOK, NEW s \in Acps, NEW cause \in {"closed", "did not stop", "exited"}, Finish(s, cause)
    PROVE  Finished(s)
<1>1. acp \in [Acps -> AcpRecords]
  BY DEF AcpTypeOK
<1>2. CASE ~Live(s)
  BY <1>1, <1>2 DEF Finish, Finished, Live
<1>3. CASE Live(s)
  <2> DEFINE r == [NewAcp EXCEPT !.process = "finished", !.cause = cause, !.turn = acp[s].turn]
  <2>1. acp' = [acp EXCEPT ![s] = r] /\ acp[s] \in AcpRecords
    BY <1>3 DEF Finish, AcpTypeOK
  <2>2. /\ r \in AcpRecords /\ r.process = "finished" /\ r.turn = acp[s].turn /\ r.listener = None
        /\ r.agent = None /\ r.events = <<>> /\ r.hand = <<>>
    <3>1. NewAcp \in AcpRecords
      BY NewAcpTyped
    <3>2. /\ NewAcp.listener = None /\ NewAcp.agent = None
          /\ NewAcp.events = <<>> /\ NewAcp.hand = <<>>
      BY DEF NewAcp
    <3>3. QED
      BY <2>1, <3>1, <3>2 DEF AcpRecords
  <2> HIDE DEF r
  <2>3. acp' \in [Acps -> AcpRecords] /\ acp'[s] = r /\ \A o \in Acps \ {s} : acp'[o] = acp[o]
    BY <1>1, <2>1, <2>2
  <2>4. QED
    BY <1>3, <2>2, <2>3 DEF Finished, Live
<1>4. QED
  BY <1>2, <1>3

(* A step after which turn u has written and read what it had, and has     *)
(* lost no queue if it streams.                                            *)
Spared(u) ==
    /\ said'[u] = said[u] /\ prompt'[u].answer = prompt[u].answer /\ prompt'[u].inbox = prompt[u].inbox
    /\ prompt'[u].pc = "run" /\ acp'[prompt'[u].at].process = "running" =>
         /\ prompt[u].pc = "run" /\ acp[prompt[u].at].process = "running" /\ prompt'[u].at = prompt[u].at
         /\ acp'[prompt[u].at].hand = acp[prompt[u].at].hand
         /\ acp'[prompt[u].at].events = acp[prompt[u].at].events
FlowSpared == \A u \in Prompts : Spared(u)

LEMMA FlowOfKept ==
    ASSUME NEW u, FlowOf(u), Spared(u)
    PROVE  FlowOf(u)'
  BY DEF FlowOf, Spared, Streaming, HeldBy, Live

LEMMA FlowKept ==
    ASSUME FlowInv, FlowSpared
    PROVE  FlowInv'
  BY FlowOfKept DEF FlowInv, FlowSpared

(* ... and no turn goes back, no queue gets a message and no process a     *)
(* listener.                                                               *)
OriginSpared ==
    /\ \A u \in Prompts :
        /\ Begun(u) => prompt'[u].pc \in {"run", "over"} /\ prompt'[u].at = prompt[u].at
        /\ said'[u] = said[u] /\ prompt'[u].answer = prompt[u].answer /\ prompt'[u].inbox = prompt[u].inbox
    /\ \A s \in Acps :
        /\ acp'[s].events \in {acp[s].events, <<>>} /\ acp'[s].hand \in {acp[s].hand, <<>>}
        /\ acp'[s].listener \in {acp[s].listener, None}

LEMMA QueuesTyped ==
    ASSUME AcpTypeOK, NEW t \in Prompts
    PROVE  /\ said[t] \in Nat /\ said[t] <= MaxChunks
           /\ prompt[t].answer \in Seq(Chunks) /\ prompt[t].inbox \in Seq(Chunks)
<1>1. prompt[t] \in PromptRecords /\ said[t] \in 0..MaxChunks
  BY DEF AcpTypeOK
<1>2. prompt[t].answer \in Seq(Chunks) /\ prompt[t].inbox \in Seq(Chunks)
  BY <1>1 DEF PromptRecords
<1>3. QED
  BY <1>1, <1>2, AcpAssumption

LEMMA EventsTyped ==
    ASSUME AcpTypeOK, NEW s \in Acps
    PROVE  acp[s].events \in Seq(Chunks) /\ acp[s].hand \in Seq([msg : Chunks, to : Prompts])
<1>1. acp[s] \in AcpRecords
  BY DEF AcpTypeOK
<1>2. QED
  BY <1>1 DEF AcpRecords

LEMMA HeldTyped ==
    ASSUME AcpTypeOK, NEW s \in Acps, acp[s].hand # <<>>
    PROVE  /\ acp[s].hand[1].msg \in Chunks /\ acp[s].hand[1].msg.turn \in Prompts
           /\ acp[s].hand[1].to \in Prompts
<1>1. acp[s].hand \in Seq([msg : Chunks, to : Prompts])
  BY DEF AcpTypeOK, AcpRecords
<1>2. 1 \in 1..Len(acp[s].hand)
  BY <1>1, EmptySeq, LenProperties
<1>3. acp[s].hand[1] \in [msg : Chunks, to : Prompts]
  BY <1>1, <1>2, ElementOfSeq
<1>4. QED
  BY <1>3 DEF Chunks

LEMMA WrittenTyped ==
    ASSUME AcpTypeOK, NEW s \in Acps, NEW i \in DOMAIN acp[s].events
    PROVE  acp[s].events[i].turn \in Prompts
<1>1. acp[s].events \in Seq(Chunks)
  BY DEF AcpTypeOK, AcpRecords
<1>2. acp[s].events[i] \in Chunks
  BY <1>1, ElementOfSeq
<1>3. QED
  BY <1>2 DEF Chunks

LEMMA OriginKept ==
    ASSUME AcpTypeOK, OriginInv, OriginSpared
    PROVE  OriginInv'
<1>1. \A u \in Prompts : prompt'[u].pc \notin {"run", "over"} =>
          said'[u] = 0 /\ prompt'[u].inbox = <<>> /\ prompt'[u].answer = <<>>
  BY DEF OriginInv, OriginSpared, Begun
<1>2. ASSUME NEW s \in Acps, NEW i \in DOMAIN acp'[s].events 
      PROVE  prompt'[acp'[s].events[i].turn].pc \in {"run", "over"}
  <2>1. acp'[s].events # <<>>
    BY <1>2
  <2>2. acp'[s].events = acp[s].events
    BY <2>1 DEF OriginSpared
  <2>3. acp[s].events[i].turn \in Prompts
    BY <1>2, <2>2, WrittenTyped
  <2>4. QED
    BY <1>2, <2>2, <2>3 DEF OriginInv, OriginSpared, Begun
<1>3. ASSUME NEW s \in Acps, acp'[s].hand # <<>>
      PROVE  LET held == acp'[s].hand[1] IN
              /\ prompt'[held.msg.turn].pc \in {"run", "over"}
              /\ prompt'[held.to].at = s /\ prompt'[held.to].pc \in {"run", "over"}
              /\ acp'[s].listener = held.msg.turn => held.to = held.msg.turn
  <2>1. acp'[s].hand = acp[s].hand
    BY <1>3 DEF OriginSpared
  <2>2. acp[s].hand[1].msg.turn \in Prompts /\ acp[s].hand[1].to \in Prompts
    BY <1>3, <2>1, HeldTyped
  <2>3. QED
    BY <1>3, <2>1, <2>2, AcpAssumption DEF OriginInv, OriginSpared, Begun
<1>4. QED
  BY <1>1, <1>2, <1>3 DEF OriginInv, Begun

(* The outcomes of LaunchAgy and Prompt.                                   *)
Launched(t, s) ==
    /\ prompt[t].pc = "launch" /\ acp[s].process = "unborn"
    /\ acp' = [acp EXCEPT ![s].process = "running", ![s].print = prompt[t].print]
    /\ prompt' = [prompt EXCEPT ![t].at = s, ![t].pc = "register"]
    /\ UNCHANGED <<slot, ender, said, overwritten>>
LaunchFailed(t) ==
    /\ prompt[t].pc = "launch"
    /\ prompt' = [prompt EXCEPT ![t].pc = "over", ![t].result = "error"]
    /\ UNCHANGED <<slot, acp, ender, said, overwritten>>
Unprompted(t) ==
    /\ prompt[t].pc = "prompt"
    /\ prompt' = [prompt EXCEPT ![t] = Returned(t, "unprompted")]
    /\ acp' = Unlocked(prompt[t].at)
    /\ UNCHANGED <<slot, ender, said, overwritten>>
Prompted(t) == LET s == prompt[t].at IN
    /\ prompt[t].pc = "prompt" /\ Goes(t, "run")
    /\ acp' = [acp EXCEPT ![s].listener = t, ![s].agent = IF Live(s) THEN t ELSE None]
    /\ UNCHANGED <<slot, ender, said, overwritten>>

(* What the pump holds after it has taken the first event of s.            *)
Taken(s) == IF acp[s].listener = None THEN <<>>
            ELSE <<[msg |-> Head(acp[s].events), to |-> acp[s].listener]>>

(* One lemma per action: the step keeps every part of the invariant.       *)
LEMMA LookKeeps ==
    ASSUME IInv, NEW t \in Prompts, Look(t)
    PROVE  IInv'
<1> USE AcpAssumption DEF IInv
<1>1. Kinds
  BY KindsHold
<1>2. prompt[t] \in PromptRecords /\ prompt[t].pc = "look"
  BY <1>1 DEF Look, PlaceInv, Placed, Kinds, ListenerInv, OriginInv, AcpTypeOK
<1>3. UNCHANGED <<slot, acp, ender, said, overwritten>>
  BY DEF Look, AcpTypeOK
<1>4. PICK f \in Prints : prompt' = [prompt EXCEPT ![t] = [prompt[t] EXCEPT !.print = f, !.at = slot,
            !.pc = IF slot = None THEN "launch"
                   ELSE IF Live(slot) /\ acp[slot].print = f THEN "lock" ELSE "delete"]]
  BY <1>2 DEF Look, AcpTypeOK
<1>5. PICK l \in {"launch", "lock", "delete"} : (l = "lock" => slot # None)
         /\ prompt' = [prompt EXCEPT ![t] = [prompt[t] EXCEPT !.print = f, !.at = slot, !.pc = l]]
  BY <1>4
<1>6. f \in Prints /\ l \in {"launch", "lock", "delete"} /\ slot \in Acps \cup {None}
  BY <1>4, <1>5 DEF AcpTypeOK
<1>7. prompt' = [prompt EXCEPT ![t] = [prompt[t] EXCEPT !.print = f, !.at = slot, !.pc = l]]
  BY <1>2, <1>4, <1>5, <1>6 DEF Look, AcpTypeOK
<1>8. /\ prompt' \in [Prompts -> PromptRecords]
      /\ \A u \in Prompts \ {t} : prompt'[u] = prompt[u]
      /\ prompt'[t].pc = l /\ prompt'[t].at = slot
      /\ prompt'[t].inbox = prompt[t].inbox /\ prompt'[t].replied = prompt[t].replied
      /\ prompt'[t].answer = prompt[t].answer
  <2> DEFINE r == [prompt[t] EXCEPT !.print = f, !.at = slot, !.pc = l]
  <2>1. prompt \in [Prompts -> PromptRecords] /\ prompt[t] \in PromptRecords
    BY <1>2 DEF AcpTypeOK
  <2>2. /\ r \in PromptRecords
        /\ r.pc = l /\ r.at = slot
        /\ r.inbox = prompt[t].inbox /\ r.replied = prompt[t].replied
        /\ r.answer = prompt[t].answer
    BY <1>2, <2>1, <1>4, <1>5, <1>6 DEF PromptRecords
  <2> HIDE DEF r
  <2>3. prompt' = [prompt EXCEPT ![t] = r]
    BY <1>7 DEF r
  <2>4. QED
    BY <2>1, <2>2, <2>3
<1>9. AcpTypeOK'
  BY <1>1, <1>2, <1>3, <1>4, <1>5, <1>6, <1>8 DEF AcpTypeOK
<1>10. PlaceInv'
  BY <1>1, <1>2, <1>3, <1>4, <1>5, <1>6, <1>8 DEF Kinds, PlaceInv, Placed
<1>11. MutexInv'
  BY <1>1, <1>2, <1>3, <1>4, <1>5, <1>6, <1>8 DEF Kinds, PlaceInv, Placed, MutexInv
<1>12. ListenerInv'
  BY <1>1, <1>2, <1>3, <1>4, <1>5, <1>6, <1>8 DEF Kinds, PlaceInv, Placed, MutexInv, ListenerInv, Live
<1>13. OriginSpared
  BY <1>1, <1>2, <1>3, <1>4, <1>5, <1>6, <1>8 DEF OriginSpared, Begun, Kinds
<1>14. OriginInv'
  BY <1>13, OriginKept
<1>15. FlowSpared
  BY <1>1, <1>2, <1>3, <1>4, <1>5, <1>6, <1>8 DEF FlowSpared, Spared, Kinds, PlaceInv, Placed, MutexInv,
     ListenerInv, Live
<1>16. FlowInv'
  BY <1>15, FlowKept
<1>17. OnlyOverwrittenLeak'
  BY <1>1, <1>2, <1>3, <1>4, <1>5, <1>6, <1>8 DEF Kinds, PlaceInv, Placed, OnlyOverwrittenLeak, Live
<1>18. QED
  BY <1>9, <1>10, <1>11, <1>12, <1>14, <1>16, <1>17

LEMMA DeleteKeeps ==
    ASSUME IInv, NEW t \in Prompts, Delete(t)
    PROVE  IInv'
<1> USE AcpAssumption DEF IInv
<1>1. Kinds
  BY KindsHold
<1>2. prompt[t] \in PromptRecords /\ prompt[t].pc = "delete"
  BY <1>1 DEF Delete, PlaceInv, Placed, Kinds, ListenerInv, OriginInv, AcpTypeOK
<1>3. UNCHANGED <<acp, ender, said, overwritten>>
  BY DEF Delete, AcpTypeOK
<1>4. PICK l \in {"launch", "end"} : /\ l = (IF slot = None THEN "launch" ELSE "end")
         /\ prompt' = [prompt EXCEPT ![t] = [prompt[t] EXCEPT !.at = slot, !.pc = l]]
  BY <1>2 DEF Delete, AcpTypeOK
<1>5. l \in {"launch", "end"} /\ slot \in Acps \cup {None}
  BY <1>4 DEF AcpTypeOK
<1>6. prompt' = [prompt EXCEPT ![t] = [prompt[t] EXCEPT !.at = slot, !.pc = l]]
  BY <1>2, <1>4, <1>5 DEF Delete, AcpTypeOK
<1>7. /\ prompt' \in [Prompts -> PromptRecords]
      /\ \A u \in Prompts \ {t} : prompt'[u] = prompt[u]
      /\ prompt'[t].pc = l /\ prompt'[t].at = slot
      /\ prompt'[t].inbox = prompt[t].inbox /\ prompt'[t].replied = prompt[t].replied
      /\ prompt'[t].answer = prompt[t].answer
  <2> DEFINE r == [prompt[t] EXCEPT !.at = slot, !.pc = l]
  <2>1. prompt \in [Prompts -> PromptRecords] /\ prompt[t] \in PromptRecords
    BY <1>2 DEF AcpTypeOK
  <2>2. /\ r \in PromptRecords
        /\ r.pc = l /\ r.at = slot
        /\ r.inbox = prompt[t].inbox /\ r.replied = prompt[t].replied
        /\ r.answer = prompt[t].answer
    BY <1>2, <2>1, <1>4, <1>5 DEF PromptRecords
  <2> HIDE DEF r
  <2>3. prompt' = [prompt EXCEPT ![t] = r]
    BY <1>6 DEF r
  <2>4. QED
    BY <2>1, <2>2, <2>3
<1>8. slot' = None
  BY DEF Delete
<1>9. AcpTypeOK'
  BY <1>1, <1>2, <1>3, <1>4, <1>5, <1>7, <1>8 DEF AcpTypeOK
<1>10. PlaceInv'
  BY <1>1, <1>2, <1>3, <1>4, <1>5, <1>7, <1>8 DEF Kinds, PlaceInv, Placed
<1>11. MutexInv'
  BY <1>1, <1>2, <1>3, <1>4, <1>5, <1>7, <1>8 DEF Kinds, PlaceInv, Placed, MutexInv
<1>12. ListenerInv'
  BY <1>1, <1>2, <1>3, <1>4, <1>5, <1>7, <1>8 DEF Kinds, PlaceInv, Placed, MutexInv, ListenerInv, Live
<1>13. OriginSpared
  BY <1>1, <1>2, <1>3, <1>4, <1>5, <1>7, <1>8 DEF OriginSpared, Begun, Kinds
<1>14. OriginInv'
  BY <1>13, OriginKept
<1>15. FlowSpared
  BY <1>1, <1>2, <1>3, <1>4, <1>5, <1>7, <1>8 DEF FlowSpared, Spared, Kinds, PlaceInv, Placed, MutexInv,
     ListenerInv, Live
<1>16. FlowInv'
  BY <1>15, FlowKept
<1>17. OnlyOverwrittenLeak'
  BY <1>1, <1>2, <1>3, <1>4, <1>5, <1>7, <1>8 DEF Kinds, PlaceInv, Placed, OnlyOverwrittenLeak, Live
<1>18. QED
  BY <1>9, <1>10, <1>11, <1>12, <1>14, <1>16, <1>17

LEMMA EndKeeps ==
    ASSUME IInv, NEW t \in Prompts, EndProcess(t)
    PROVE  IInv'
<1> USE AcpAssumption DEF IInv
<1>1. Kinds
  BY KindsHold
<1>2. PICK s \in Acps : s = prompt[t].at /\ prompt[t] \in PromptRecords /\ prompt[t].pc = "end"
  BY <1>1 DEF EndProcess, Goes, PlaceInv, Placed, Kinds, ListenerInv, OriginInv, AcpTypeOK
<1>3. UNCHANGED <<slot, ender, said, overwritten>>
  BY DEF EndProcess, Goes, AcpTypeOK
<1>4. Finish(s, "closed")
  BY <1>2 DEF EndProcess
<1>5. Finished(s)
  BY <1>2, <1>4, FinishFinishes
<1>6. prompt' = [prompt EXCEPT ![t] = [prompt[t] EXCEPT !.pc = "launch"]]
  BY <1>2 DEF EndProcess, Goes, AcpTypeOK
<1>7. /\ prompt' \in [Prompts -> PromptRecords]
      /\ \A u \in Prompts \ {t} : prompt'[u] = prompt[u]
      /\ prompt'[t].pc = "launch"
      /\ prompt'[t].at = prompt[t].at /\ prompt'[t].inbox = prompt[t].inbox
      /\ prompt'[t].replied = prompt[t].replied /\ prompt'[t].answer = prompt[t].answer
  <2> DEFINE r == [prompt[t] EXCEPT !.pc = "launch"]
  <2>1. prompt \in [Prompts -> PromptRecords] /\ prompt[t] \in PromptRecords
    BY <1>2 DEF AcpTypeOK
  <2>2. /\ r \in PromptRecords
        /\ r.pc = "launch"
        /\ r.at = prompt[t].at /\ r.inbox = prompt[t].inbox /\ r.replied = prompt[t].replied
        /\ r.answer = prompt[t].answer
    BY <1>2, <2>1 DEF PromptRecords
  <2> HIDE DEF r
  <2>3. prompt' = [prompt EXCEPT ![t] = r]
    BY <1>6 DEF r
  <2>4. QED
    BY <2>1, <2>2, <2>3
<1>8. AcpTypeOK'
  BY <1>1, <1>2, <1>3, <1>4, <1>5, <1>7 DEF AcpTypeOK, Finished
<1>9. PlaceInv'
  BY <1>1, <1>2, <1>3, <1>4, <1>5, <1>7 DEF Kinds, PlaceInv, Placed, Finished
<1>10. MutexInv'
  BY <1>1, <1>2, <1>3, <1>4, <1>5, <1>7 DEF Kinds, PlaceInv, Placed, MutexInv, Finished
<1>11. ListenerInv'
  BY <1>1, <1>2, <1>3, <1>4, <1>5, <1>7 DEF Kinds, PlaceInv, Placed, MutexInv, ListenerInv, Live, Finished
<1>12. OriginSpared
  BY <1>1, <1>2, <1>3, <1>4, <1>5, <1>7 DEF OriginSpared, Begun, Kinds, Finished
<1>13. OriginInv'
  BY <1>12, OriginKept
<1>14. FlowSpared
  BY <1>1, <1>2, <1>3, <1>4, <1>5, <1>7 DEF FlowSpared, Spared, Kinds, PlaceInv, Placed, MutexInv,
     ListenerInv, Live, Finished
<1>15. FlowInv'
  BY <1>14, FlowKept
<1>16. OnlyOverwrittenLeak'
  BY <1>1, <1>2, <1>3, <1>4, <1>5, <1>7 DEF Kinds, PlaceInv, Placed, OnlyOverwrittenLeak, Live, Finished
<1>17. QED
  BY <1>8, <1>9, <1>10, <1>11, <1>13, <1>15, <1>16

LEMMA EnderDeletesKeeps ==
    ASSUME IInv, NEW c \in Enders, EnderDeletes(c)
    PROVE  IInv'
<1> USE AcpAssumption DEF IInv
<1>1. Kinds
  BY KindsHold
<1>2. ender[c] \in EnderRecords /\ ender[c].pc = "delete"
  BY <1>1 DEF EnderDeletes, PlaceInv, Placed, Kinds, ListenerInv, OriginInv, AcpTypeOK
<1>3. UNCHANGED <<acp, prompt, said, overwritten>>
  BY DEF EnderDeletes, AcpTypeOK
<1>4. PICK l \in {"over", "end"} : /\ l = (IF slot = None THEN "over" ELSE "end")
         /\ ender' = [ender EXCEPT ![c] = [ender[c] EXCEPT !.at = slot, !.pc = l]]
  BY <1>2 DEF EnderDeletes, AcpTypeOK
<1>5. l \in {"over", "end"} /\ slot \in Acps \cup {None}
  BY <1>4 DEF AcpTypeOK
<1>6. ender' = [ender EXCEPT ![c] = [ender[c] EXCEPT !.at = slot, !.pc = l]]
  BY <1>2, <1>4, <1>5 DEF EnderDeletes, AcpTypeOK
<1>7. /\ ender' \in [Enders -> EnderRecords]
      /\ \A d \in Enders \ {c} : ender'[d] = ender[d]
      /\ ender'[c].pc = l /\ ender'[c].at = slot
  <2> DEFINE r == [ender[c] EXCEPT !.at = slot, !.pc = l]
  <2>1. ender \in [Enders -> EnderRecords] /\ ender[c] \in EnderRecords
    BY <1>2 DEF AcpTypeOK
  <2>2. /\ r \in EnderRecords
        /\ r.pc = l /\ r.at = slot
    BY <1>2, <2>1, <1>4, <1>5 DEF EnderRecords
  <2> HIDE DEF r
  <2>3. ender' = [ender EXCEPT ![c] = r]
    BY <1>6 DEF r
  <2>4. QED
    BY <2>1, <2>2, <2>3
<1>8. slot' = None
  BY DEF EnderDeletes
<1>9. AcpTypeOK'
  BY <1>1, <1>2, <1>3, <1>4, <1>5, <1>7, <1>8 DEF AcpTypeOK
<1>10. PlaceInv'
  BY <1>1, <1>2, <1>3, <1>4, <1>5, <1>7, <1>8 DEF Kinds, PlaceInv, Placed
<1>11. MutexInv'
  BY <1>1, <1>2, <1>3, <1>4, <1>5, <1>7, <1>8 DEF Kinds, PlaceInv, Placed, MutexInv
<1>12. ListenerInv'
  BY <1>1, <1>2, <1>3, <1>4, <1>5, <1>7, <1>8 DEF Kinds, PlaceInv, Placed, MutexInv, ListenerInv, Live
<1>13. OriginSpared
  BY <1>1, <1>2, <1>3, <1>4, <1>5, <1>7, <1>8 DEF OriginSpared, Begun, Kinds
<1>14. OriginInv'
  BY <1>13, OriginKept
<1>15. FlowSpared
  BY <1>1, <1>2, <1>3, <1>4, <1>5, <1>7, <1>8 DEF FlowSpared, Spared, Kinds, PlaceInv, Placed, MutexInv,
     ListenerInv, Live
<1>16. FlowInv'
  BY <1>15, FlowKept
<1>17. OnlyOverwrittenLeak'
  BY <1>1, <1>2, <1>3, <1>4, <1>5, <1>7, <1>8 DEF Kinds, PlaceInv, Placed, OnlyOverwrittenLeak, Live
<1>18. QED
  BY <1>9, <1>10, <1>11, <1>12, <1>14, <1>16, <1>17

LEMMA EnderEndsKeeps ==
    ASSUME IInv, NEW c \in Enders, EnderEnds(c)
    PROVE  IInv'
<1> USE AcpAssumption DEF IInv
<1>1. Kinds
  BY KindsHold
<1>2. PICK s \in Acps : s = ender[c].at /\ ender[c] \in EnderRecords /\ ender[c].pc = "end"
  BY <1>1 DEF EnderEnds, PlaceInv, Placed, Kinds, ListenerInv, OriginInv, AcpTypeOK
<1>3. UNCHANGED <<slot, prompt, said, overwritten>>
  BY DEF EnderEnds, AcpTypeOK
<1>4. Finish(s, "closed")
  BY <1>2 DEF EnderEnds
<1>5. Finished(s)
  BY <1>2, <1>4, FinishFinishes
<1>6. ender' = [ender EXCEPT ![c] = [ender[c] EXCEPT !.pc = "over"]]
  BY <1>2 DEF EnderEnds, AcpTypeOK
<1>7. /\ ender' \in [Enders -> EnderRecords]
      /\ \A d \in Enders \ {c} : ender'[d] = ender[d]
      /\ ender'[c].pc = "over"
      /\ ender'[c].at = ender[c].at
  <2> DEFINE r == [ender[c] EXCEPT !.pc = "over"]
  <2>1. ender \in [Enders -> EnderRecords] /\ ender[c] \in EnderRecords
    BY <1>2 DEF AcpTypeOK
  <2>2. /\ r \in EnderRecords
        /\ r.pc = "over"
        /\ r.at = ender[c].at
    BY <1>2, <2>1 DEF EnderRecords
  <2> HIDE DEF r
  <2>3. ender' = [ender EXCEPT ![c] = r]
    BY <1>6 DEF r
  <2>4. QED
    BY <2>1, <2>2, <2>3
<1>8. AcpTypeOK'
  BY <1>1, <1>2, <1>3, <1>4, <1>5, <1>7 DEF AcpTypeOK, Finished
<1>9. PlaceInv'
  BY <1>1, <1>2, <1>3, <1>4, <1>5, <1>7 DEF Kinds, PlaceInv, Placed, Finished
<1>10. MutexInv'
  BY <1>1, <1>2, <1>3, <1>4, <1>5, <1>7 DEF Kinds, PlaceInv, Placed, MutexInv, Finished
<1>11. ListenerInv'
  BY <1>1, <1>2, <1>3, <1>4, <1>5, <1>7 DEF Kinds, PlaceInv, Placed, MutexInv, ListenerInv, Live, Finished
<1>12. OriginSpared
  BY <1>1, <1>2, <1>3, <1>4, <1>5, <1>7 DEF OriginSpared, Begun, Kinds, Finished
<1>13. OriginInv'
  BY <1>12, OriginKept
<1>14. FlowSpared
  BY <1>1, <1>2, <1>3, <1>4, <1>5, <1>7 DEF FlowSpared, Spared, Kinds, PlaceInv, Placed, MutexInv,
     ListenerInv, Live, Finished
<1>15. FlowInv'
  BY <1>14, FlowKept
<1>16. OnlyOverwrittenLeak'
  BY <1>1, <1>2, <1>3, <1>4, <1>5, <1>7 DEF Kinds, PlaceInv, Placed, OnlyOverwrittenLeak, Live, Finished
<1>17. QED
  BY <1>8, <1>9, <1>10, <1>11, <1>13, <1>15, <1>16

LEMMA RegisterKeeps ==
    ASSUME IInv, NEW t \in Prompts, RegisterAgy(t)
    PROVE  IInv'
<1> USE AcpAssumption DEF IInv
<1>1. Kinds
  BY KindsHold
<1>2. prompt[t] \in PromptRecords /\ prompt[t].pc = "register" /\ prompt[t].at \in Acps
  BY <1>1 DEF RegisterAgy, Goes, PlaceInv, Placed, Kinds, ListenerInv, OriginInv, AcpTypeOK
<1>3. UNCHANGED <<acp, ender, said>>
  BY DEF RegisterAgy, Goes, AcpTypeOK
<1>4. prompt' = [prompt EXCEPT ![t] = [prompt[t] EXCEPT !.pc = "lock"]]
  BY <1>2 DEF RegisterAgy, Goes, AcpTypeOK
<1>5. /\ prompt' \in [Prompts -> PromptRecords]
      /\ \A u \in Prompts \ {t} : prompt'[u] = prompt[u]
      /\ prompt'[t].pc = "lock"
      /\ prompt'[t].at = prompt[t].at /\ prompt'[t].inbox = prompt[t].inbox
      /\ prompt'[t].replied = prompt[t].replied /\ prompt'[t].answer = prompt[t].answer
  <2> DEFINE r == [prompt[t] EXCEPT !.pc = "lock"]
  <2>1. prompt \in [Prompts -> PromptRecords] /\ prompt[t] \in PromptRecords
    BY <1>2 DEF AcpTypeOK
  <2>2. /\ r \in PromptRecords
        /\ r.pc = "lock"
        /\ r.at = prompt[t].at /\ r.inbox = prompt[t].inbox /\ r.replied = prompt[t].replied
        /\ r.answer = prompt[t].answer
    BY <1>2, <2>1 DEF PromptRecords
  <2> HIDE DEF r
  <2>3. prompt' = [prompt EXCEPT ![t] = r]
    BY <1>4 DEF r
  <2>4. QED
    BY <2>1, <2>2, <2>3
<1>6. slot' = prompt[t].at /\ overwritten' = IF slot = None THEN overwritten ELSE overwritten \cup {slot}
  BY DEF RegisterAgy
<1>7. AcpTypeOK'
  BY <1>1, <1>2, <1>3, <1>5, <1>6 DEF AcpTypeOK
<1>8. PlaceInv'
  BY <1>1, <1>2, <1>3, <1>5, <1>6 DEF Kinds, PlaceInv, Placed
<1>9. MutexInv'
  BY <1>1, <1>2, <1>3, <1>5, <1>6 DEF Kinds, PlaceInv, Placed, MutexInv
<1>10. ListenerInv'
  BY <1>1, <1>2, <1>3, <1>5, <1>6 DEF Kinds, PlaceInv, Placed, MutexInv, ListenerInv, Live
<1>11. OriginSpared
  BY <1>1, <1>2, <1>3, <1>5, <1>6 DEF OriginSpared, Begun, Kinds
<1>12. OriginInv'
  BY <1>11, OriginKept
<1>13. FlowSpared
  BY <1>1, <1>2, <1>3, <1>5, <1>6 DEF FlowSpared, Spared, Kinds, PlaceInv, Placed, MutexInv, ListenerInv, Live
<1>14. FlowInv'
  BY <1>13, FlowKept
<1>15. OnlyOverwrittenLeak'
  BY <1>1, <1>2, <1>3, <1>5, <1>6 DEF Kinds, PlaceInv, Placed, OnlyOverwrittenLeak, Live
<1>16. QED
  BY <1>7, <1>8, <1>9, <1>10, <1>12, <1>14, <1>15

LEMMA LockKeeps ==
    ASSUME IInv, NEW t \in Prompts, Lock(t)
    PROVE  IInv'
<1> USE AcpAssumption DEF IInv
<1>1. Kinds
  BY KindsHold
<1>2. PICK s \in Acps : s = prompt[t].at /\ prompt[t] \in PromptRecords /\ prompt[t].pc = "lock"
         /\ acp[s].turn = None
  BY <1>1 DEF Lock, Goes, PlaceInv, Placed, Kinds, ListenerInv, OriginInv, AcpTypeOK
<1>3. UNCHANGED <<slot, ender, said, overwritten>>
  BY DEF Lock, Goes, AcpTypeOK
<1>4. acp' = [acp EXCEPT ![s] = [acp[s] EXCEPT !.turn = t]]
  BY <1>2 DEF Lock, Goes, AcpTypeOK
<1>5. /\ acp' \in [Acps -> AcpRecords]
      /\ \A r \in Acps \ {s} : acp'[r] = acp[r]
      /\ acp'[s].turn = t
      /\ acp'[s].process = acp[s].process /\ acp'[s].listener = acp[s].listener
      /\ acp'[s].agent = acp[s].agent /\ acp'[s].events = acp[s].events
      /\ acp'[s].hand = acp[s].hand
  <2> DEFINE r == [acp[s] EXCEPT !.turn = t]
  <2>1. acp \in [Acps -> AcpRecords] /\ acp[s] \in AcpRecords
    BY <1>2 DEF AcpTypeOK
  <2>2. /\ r \in AcpRecords
        /\ r.turn = t
        /\ r.process = acp[s].process /\ r.listener = acp[s].listener
        /\ r.agent = acp[s].agent /\ r.events = acp[s].events /\ r.hand = acp[s].hand
    BY <1>2, <2>1 DEF AcpRecords
  <2> HIDE DEF r
  <2>3. acp' = [acp EXCEPT ![s] = r]
    BY <1>4 DEF r
  <2>4. QED
    BY <2>1, <2>2, <2>3
<1>6. prompt' = [prompt EXCEPT ![t] = [prompt[t] EXCEPT !.pc = "prompt"]]
  BY <1>2 DEF Lock, Goes, AcpTypeOK
<1>7. /\ prompt' \in [Prompts -> PromptRecords]
      /\ \A u \in Prompts \ {t} : prompt'[u] = prompt[u]
      /\ prompt'[t].pc = "prompt"
      /\ prompt'[t].at = prompt[t].at /\ prompt'[t].inbox = prompt[t].inbox
      /\ prompt'[t].replied = prompt[t].replied /\ prompt'[t].answer = prompt[t].answer
  <2> DEFINE r == [prompt[t] EXCEPT !.pc = "prompt"]
  <2>1. prompt \in [Prompts -> PromptRecords] /\ prompt[t] \in PromptRecords
    BY <1>2 DEF AcpTypeOK
  <2>2. /\ r \in PromptRecords
        /\ r.pc = "prompt"
        /\ r.at = prompt[t].at /\ r.inbox = prompt[t].inbox /\ r.replied = prompt[t].replied
        /\ r.answer = prompt[t].answer
    BY <1>2, <2>1 DEF PromptRecords
  <2> HIDE DEF r
  <2>3. prompt' = [prompt EXCEPT ![t] = r]
    BY <1>6 DEF r
  <2>4. QED
    BY <2>1, <2>2, <2>3
<1>8. AcpTypeOK'
  BY <1>1, <1>2, <1>3, <1>5, <1>7 DEF AcpTypeOK
<1>9. PlaceInv'
  BY <1>1, <1>2, <1>3, <1>5, <1>7 DEF Kinds, PlaceInv, Placed
<1>10. MutexInv'
  BY <1>1, <1>2, <1>3, <1>5, <1>7 DEF Kinds, PlaceInv, Placed, MutexInv
<1>11. ListenerInv'
  BY <1>1, <1>2, <1>3, <1>5, <1>7 DEF Kinds, PlaceInv, Placed, MutexInv, ListenerInv, Live
<1>12. OriginSpared
  BY <1>1, <1>2, <1>3, <1>5, <1>7 DEF OriginSpared, Begun, Kinds
<1>13. OriginInv'
  BY <1>12, OriginKept
<1>14. FlowSpared
  BY <1>1, <1>2, <1>3, <1>5, <1>7 DEF FlowSpared, Spared, Kinds, PlaceInv, Placed, MutexInv, ListenerInv, Live
<1>15. FlowInv'
  BY <1>14, FlowKept
<1>16. OnlyOverwrittenLeak'
  BY <1>1, <1>2, <1>3, <1>5, <1>7 DEF Kinds, PlaceInv, Placed, OnlyOverwrittenLeak, Live
<1>17. QED
  BY <1>8, <1>9, <1>10, <1>11, <1>13, <1>15, <1>16

LEMMA GoneKeeps ==
    ASSUME IInv, NEW t \in Prompts, Gone(t)
    PROVE  IInv'
<1> USE AcpAssumption DEF IInv
<1>1. Kinds
  BY KindsHold
<1>2. PICK s \in Acps : s = prompt[t].at /\ prompt[t] \in PromptRecords /\ prompt[t].pc = "run" /\ ~Live(s)
  BY <1>1 DEF Gone, Returned, Unlocked, PlaceInv, Placed, Kinds, ListenerInv, OriginInv, AcpTypeOK
<1>3. UNCHANGED <<slot, ender, said, overwritten>>
  BY DEF Gone, Returned, Unlocked, AcpTypeOK
<1>4. acp[s].cause \in {"none", "closed", "did not stop", "exited"}
  BY DEF AcpTypeOK, AcpRecords
<1>5. acp' = [acp EXCEPT ![s] = [acp[s] EXCEPT !.turn = None, !.listener = None]]
  BY <1>2, <1>4 DEF Gone, Returned, Unlocked, AcpTypeOK
<1>6. /\ acp' \in [Acps -> AcpRecords]
      /\ \A r \in Acps \ {s} : acp'[r] = acp[r]
      /\ acp'[s].turn = None /\ acp'[s].listener = None
      /\ acp'[s].process = acp[s].process /\ acp'[s].agent = acp[s].agent
      /\ acp'[s].events = acp[s].events /\ acp'[s].hand = acp[s].hand
  <2> DEFINE r == [acp[s] EXCEPT !.turn = None, !.listener = None]
  <2>1. acp \in [Acps -> AcpRecords] /\ acp[s] \in AcpRecords
    BY <1>2 DEF AcpTypeOK
  <2>2. /\ r \in AcpRecords
        /\ r.turn = None /\ r.listener = None
        /\ r.process = acp[s].process /\ r.agent = acp[s].agent
        /\ r.events = acp[s].events /\ r.hand = acp[s].hand
    BY <1>2, <2>1, <1>4 DEF AcpRecords
  <2> HIDE DEF r
  <2>3. acp' = [acp EXCEPT ![s] = r]
    BY <1>5 DEF r
  <2>4. QED
    BY <2>1, <2>2, <2>3
<1>7. prompt' = [prompt EXCEPT ![t] = [prompt[t] EXCEPT !.pc = "over", !.result = acp[s].cause]]
  BY <1>2, <1>4 DEF Gone, Returned, Unlocked, AcpTypeOK
<1>8. /\ prompt' \in [Prompts -> PromptRecords]
      /\ \A u \in Prompts \ {t} : prompt'[u] = prompt[u]
      /\ prompt'[t].pc = "over"
      /\ prompt'[t].at = prompt[t].at /\ prompt'[t].inbox = prompt[t].inbox
      /\ prompt'[t].replied = prompt[t].replied /\ prompt'[t].answer = prompt[t].answer
  <2> DEFINE r == [prompt[t] EXCEPT !.pc = "over", !.result = acp[s].cause]
  <2>1. prompt \in [Prompts -> PromptRecords] /\ prompt[t] \in PromptRecords
    BY <1>2 DEF AcpTypeOK
  <2>2. /\ r \in PromptRecords
        /\ r.pc = "over"
        /\ r.at = prompt[t].at /\ r.inbox = prompt[t].inbox /\ r.replied = prompt[t].replied
        /\ r.answer = prompt[t].answer
    BY <1>2, <2>1, <1>4 DEF PromptRecords
  <2> HIDE DEF r
  <2>3. prompt' = [prompt EXCEPT ![t] = r]
    BY <1>7 DEF r
  <2>4. QED
    BY <2>1, <2>2, <2>3
<1>9. AcpTypeOK'
  BY <1>1, <1>2, <1>3, <1>6, <1>8 DEF AcpTypeOK
<1>10. PlaceInv'
  BY <1>1, <1>2, <1>3, <1>6, <1>8 DEF Kinds, PlaceInv, Placed
<1>11. MutexInv'
  BY <1>1, <1>2, <1>3, <1>6, <1>8 DEF Kinds, PlaceInv, Placed, MutexInv
<1>12. ListenerInv'
  BY <1>1, <1>2, <1>3, <1>6, <1>8 DEF Kinds, PlaceInv, Placed, MutexInv, ListenerInv, Live
<1>13. OriginSpared
  BY <1>1, <1>2, <1>3, <1>6, <1>8 DEF OriginSpared, Begun, Kinds
<1>14. OriginInv'
  BY <1>13, OriginKept
<1>15. FlowSpared
  BY <1>1, <1>2, <1>3, <1>6, <1>8 DEF FlowSpared, Spared, Kinds, PlaceInv, Placed, MutexInv, ListenerInv, Live
<1>16. FlowInv'
  BY <1>15, FlowKept
<1>17. OnlyOverwrittenLeak'
  BY <1>1, <1>2, <1>3, <1>6, <1>8 DEF Kinds, PlaceInv, Placed, OnlyOverwrittenLeak, Live
<1>18. QED
  BY <1>9, <1>10, <1>11, <1>12, <1>14, <1>16, <1>17

LEMMA StopKeeps ==
    ASSUME IInv, NEW t \in Prompts, StopPrompt(t)
    PROVE  IInv'
<1> USE AcpAssumption DEF IInv
<1>1. Kinds
  BY KindsHold
<1>2. PICK s \in Acps : s = prompt[t].at /\ prompt[t] \in PromptRecords /\ prompt[t].pc = "run"
  BY <1>1 DEF StopPrompt, PlaceInv, Placed, Kinds, ListenerInv, OriginInv, AcpTypeOK
<1>3. UNCHANGED <<slot, ender, said, overwritten>>
  BY DEF StopPrompt, AcpTypeOK
<1>4. acp' = [acp EXCEPT ![s] = [acp[s] EXCEPT !.watchdogs =
                                      IF Live(s) THEN acp[s].watchdogs \cup {t} ELSE acp[s].watchdogs]]
  BY <1>2 DEF StopPrompt, AcpTypeOK
<1>5. /\ acp' \in [Acps -> AcpRecords]
      /\ \A r \in Acps \ {s} : acp'[r] = acp[r]
      /\ acp'[s].process = acp[s].process /\ acp'[s].turn = acp[s].turn
      /\ acp'[s].listener = acp[s].listener /\ acp'[s].agent = acp[s].agent
      /\ acp'[s].events = acp[s].events /\ acp'[s].hand = acp[s].hand
  <2> DEFINE r == [acp[s] EXCEPT !.watchdogs = IF Live(s) THEN acp[s].watchdogs \cup {t} ELSE acp[s].watchdogs]
  <2>1. acp \in [Acps -> AcpRecords] /\ acp[s] \in AcpRecords
    BY <1>2 DEF AcpTypeOK
  <2>2. /\ r \in AcpRecords
        /\ r.process = acp[s].process /\ r.turn = acp[s].turn
        /\ r.listener = acp[s].listener /\ r.agent = acp[s].agent
        /\ r.events = acp[s].events /\ r.hand = acp[s].hand
    BY <1>2, <2>1 DEF AcpRecords
  <2> HIDE DEF r
  <2>3. acp' = [acp EXCEPT ![s] = r]
    BY <1>4 DEF r
  <2>4. QED
    BY <2>1, <2>2, <2>3
<1>6. prompt' = [prompt EXCEPT ![t] = [prompt[t] EXCEPT !.stopped = TRUE]]
  BY <1>2 DEF StopPrompt, AcpTypeOK
<1>7. /\ prompt' \in [Prompts -> PromptRecords]
      /\ \A u \in Prompts \ {t} : prompt'[u] = prompt[u]
      /\ prompt'[t].pc = prompt[t].pc /\ prompt'[t].at = prompt[t].at
      /\ prompt'[t].inbox = prompt[t].inbox /\ prompt'[t].replied = prompt[t].replied
      /\ prompt'[t].answer = prompt[t].answer
  <2> DEFINE r == [prompt[t] EXCEPT !.stopped = TRUE]
  <2>1. prompt \in [Prompts -> PromptRecords] /\ prompt[t] \in PromptRecords
    BY <1>2 DEF AcpTypeOK
  <2>2. /\ r \in PromptRecords
        /\ r.pc = prompt[t].pc /\ r.at = prompt[t].at /\ r.inbox = prompt[t].inbox
        /\ r.replied = prompt[t].replied /\ r.answer = prompt[t].answer
    BY <1>2, <2>1 DEF PromptRecords
  <2> HIDE DEF r
  <2>3. prompt' = [prompt EXCEPT ![t] = r]
    BY <1>6 DEF r
  <2>4. QED
    BY <2>1, <2>2, <2>3
<1>8. AcpTypeOK'
  BY <1>1, <1>2, <1>3, <1>5, <1>7 DEF AcpTypeOK
<1>9. PlaceInv'
  BY <1>1, <1>2, <1>3, <1>5, <1>7 DEF Kinds, PlaceInv, Placed
<1>10. MutexInv'
  BY <1>1, <1>2, <1>3, <1>5, <1>7 DEF Kinds, PlaceInv, Placed, MutexInv
<1>11. ListenerInv'
  BY <1>1, <1>2, <1>3, <1>5, <1>7 DEF Kinds, PlaceInv, Placed, MutexInv, ListenerInv, Live
<1>12. OriginSpared
  BY <1>1, <1>2, <1>3, <1>5, <1>7 DEF OriginSpared, Begun, Kinds
<1>13. OriginInv'
  BY <1>12, OriginKept
<1>14. FlowSpared
  BY <1>1, <1>2, <1>3, <1>5, <1>7 DEF FlowSpared, Spared, Kinds, PlaceInv, Placed, MutexInv, ListenerInv, Live
<1>15. FlowInv'
  BY <1>14, FlowKept
<1>16. OnlyOverwrittenLeak'
  BY <1>1, <1>2, <1>3, <1>5, <1>7 DEF Kinds, PlaceInv, Placed, OnlyOverwrittenLeak, Live
<1>17. QED
  BY <1>8, <1>9, <1>10, <1>11, <1>13, <1>15, <1>16

LEMMA LaunchedKeeps ==
    ASSUME IInv, NEW t \in Prompts, NEW s \in Acps, Launched(t, s)
    PROVE  IInv'
<1> USE AcpAssumption DEF IInv
<1>1. Kinds
  BY KindsHold
<1>2. /\ prompt[t] \in PromptRecords /\ prompt[t].pc = "launch" /\ acp[s] \in AcpRecords
      /\ acp[s].process = "unborn"
      /\ prompt[t].print \in Prints \cup {None}
  BY <1>1 DEF Launched, PromptRecords, PlaceInv, Placed, Kinds, ListenerInv, OriginInv, AcpTypeOK
<1>3. UNCHANGED <<slot, ender, said, overwritten>>
  BY DEF Launched, PromptRecords, AcpTypeOK
<1>4. acp' = [acp EXCEPT ![s] = [acp[s] EXCEPT !.process = "running", !.print = prompt[t].print]]
  BY <1>2 DEF Launched, PromptRecords, AcpTypeOK
<1>5. /\ acp' \in [Acps -> AcpRecords]
      /\ \A r \in Acps \ {s} : acp'[r] = acp[r]
      /\ acp'[s].process = "running"
      /\ acp'[s].turn = acp[s].turn /\ acp'[s].listener = acp[s].listener
      /\ acp'[s].agent = acp[s].agent /\ acp'[s].events = acp[s].events
      /\ acp'[s].hand = acp[s].hand
  <2> DEFINE r == [acp[s] EXCEPT !.process = "running", !.print = prompt[t].print]
  <2>1. acp \in [Acps -> AcpRecords] /\ acp[s] \in AcpRecords
    BY <1>2 DEF AcpTypeOK
  <2>2. /\ r \in AcpRecords
        /\ r.process = "running"
        /\ r.turn = acp[s].turn /\ r.listener = acp[s].listener /\ r.agent = acp[s].agent
        /\ r.events = acp[s].events /\ r.hand = acp[s].hand
    BY <1>2, <2>1 DEF AcpRecords
  <2> HIDE DEF r
  <2>3. acp' = [acp EXCEPT ![s] = r]
    BY <1>4 DEF r
  <2>4. QED
    BY <2>1, <2>2, <2>3
<1>6. prompt' = [prompt EXCEPT ![t] = [prompt[t] EXCEPT !.at = s, !.pc = "register"]]
  BY <1>2 DEF Launched, PromptRecords, AcpTypeOK
<1>7. /\ prompt' \in [Prompts -> PromptRecords]
      /\ \A u \in Prompts \ {t} : prompt'[u] = prompt[u]
      /\ prompt'[t].pc = "register" /\ prompt'[t].at = s
      /\ prompt'[t].inbox = prompt[t].inbox /\ prompt'[t].replied = prompt[t].replied
      /\ prompt'[t].answer = prompt[t].answer
  <2> DEFINE r == [prompt[t] EXCEPT !.at = s, !.pc = "register"]
  <2>1. prompt \in [Prompts -> PromptRecords] /\ prompt[t] \in PromptRecords
    BY <1>2 DEF AcpTypeOK
  <2>2. /\ r \in PromptRecords
        /\ r.pc = "register" /\ r.at = s
        /\ r.inbox = prompt[t].inbox /\ r.replied = prompt[t].replied
        /\ r.answer = prompt[t].answer
    BY <1>2, <2>1 DEF PromptRecords
  <2> HIDE DEF r
  <2>3. prompt' = [prompt EXCEPT ![t] = r]
    BY <1>6 DEF r
  <2>4. QED
    BY <2>1, <2>2, <2>3
<1>8. AcpTypeOK'
  BY <1>1, <1>2, <1>3, <1>5, <1>7 DEF AcpTypeOK
<1>9. PlaceInv'
  BY <1>1, <1>2, <1>3, <1>5, <1>7 DEF Kinds, PlaceInv, Placed
<1>10. MutexInv'
  BY <1>1, <1>2, <1>3, <1>5, <1>7 DEF Kinds, PlaceInv, Placed, MutexInv
<1>11. ListenerInv'
  BY <1>1, <1>2, <1>3, <1>5, <1>7 DEF Kinds, PlaceInv, Placed, MutexInv, ListenerInv, Live
<1>12. OriginSpared
  BY <1>1, <1>2, <1>3, <1>5, <1>7 DEF OriginSpared, Begun, Kinds
<1>13. OriginInv'
  BY <1>12, OriginKept
<1>14. FlowSpared
  BY <1>1, <1>2, <1>3, <1>5, <1>7 DEF FlowSpared, Spared, Kinds, PlaceInv, Placed, MutexInv, ListenerInv, Live
<1>15. FlowInv'
  BY <1>14, FlowKept
<1>16. OnlyOverwrittenLeak'
  BY <1>1, <1>2, <1>3, <1>5, <1>7 DEF Kinds, PlaceInv, Placed, OnlyOverwrittenLeak, Live
<1>17. QED
  BY <1>8, <1>9, <1>10, <1>11, <1>13, <1>15, <1>16

LEMMA LaunchFailedKeeps ==
    ASSUME IInv, NEW t \in Prompts, LaunchFailed(t)
    PROVE  IInv'
<1> USE AcpAssumption DEF IInv
<1>1. Kinds
  BY KindsHold
<1>2. prompt[t] \in PromptRecords /\ prompt[t].pc = "launch"
  BY <1>1 DEF LaunchFailed, PlaceInv, Placed, Kinds, ListenerInv, OriginInv, AcpTypeOK
<1>3. UNCHANGED <<slot, acp, ender, said, overwritten>>
  BY DEF LaunchFailed, AcpTypeOK
<1>4. prompt' = [prompt EXCEPT ![t] = [prompt[t] EXCEPT !.pc = "over", !.result = "error"]]
  BY <1>2 DEF LaunchFailed, AcpTypeOK
<1>5. /\ prompt' \in [Prompts -> PromptRecords]
      /\ \A u \in Prompts \ {t} : prompt'[u] = prompt[u]
      /\ prompt'[t].pc = "over"
      /\ prompt'[t].at = prompt[t].at /\ prompt'[t].inbox = prompt[t].inbox
      /\ prompt'[t].replied = prompt[t].replied /\ prompt'[t].answer = prompt[t].answer
  <2> DEFINE r == [prompt[t] EXCEPT !.pc = "over", !.result = "error"]
  <2>1. prompt \in [Prompts -> PromptRecords] /\ prompt[t] \in PromptRecords
    BY <1>2 DEF AcpTypeOK
  <2>2. /\ r \in PromptRecords
        /\ r.pc = "over"
        /\ r.at = prompt[t].at /\ r.inbox = prompt[t].inbox /\ r.replied = prompt[t].replied
        /\ r.answer = prompt[t].answer
    BY <1>2, <2>1 DEF PromptRecords
  <2> HIDE DEF r
  <2>3. prompt' = [prompt EXCEPT ![t] = r]
    BY <1>4 DEF r
  <2>4. QED
    BY <2>1, <2>2, <2>3
<1>6. AcpTypeOK'
  BY <1>1, <1>2, <1>3, <1>5 DEF AcpTypeOK
<1>7. PlaceInv'
  BY <1>1, <1>2, <1>3, <1>5 DEF Kinds, PlaceInv, Placed
<1>8. MutexInv'
  BY <1>1, <1>2, <1>3, <1>5 DEF Kinds, PlaceInv, Placed, MutexInv
<1>9. ListenerInv'
  BY <1>1, <1>2, <1>3, <1>5 DEF Kinds, PlaceInv, Placed, MutexInv, ListenerInv, Live
<1>10. OriginSpared
  BY <1>1, <1>2, <1>3, <1>5 DEF OriginSpared, Begun, Kinds
<1>11. OriginInv'
  BY <1>10, OriginKept
<1>12. FlowSpared
  BY <1>1, <1>2, <1>3, <1>5 DEF FlowSpared, Spared, Kinds, PlaceInv, Placed, MutexInv, ListenerInv, Live
<1>13. FlowInv'
  BY <1>12, FlowKept
<1>14. OnlyOverwrittenLeak'
  BY <1>1, <1>2, <1>3, <1>5 DEF Kinds, PlaceInv, Placed, OnlyOverwrittenLeak, Live
<1>15. QED
  BY <1>6, <1>7, <1>8, <1>9, <1>11, <1>13, <1>14

LEMMA UnpromptedKeeps ==
    ASSUME IInv, NEW t \in Prompts, Unprompted(t)
    PROVE  IInv'
<1> USE AcpAssumption DEF IInv
<1>1. Kinds
  BY KindsHold
<1>2. PICK s \in Acps : s = prompt[t].at /\ prompt[t] \in PromptRecords /\ prompt[t].pc = "prompt"
  BY <1>1 DEF Unprompted, Returned, Unlocked, PlaceInv, Placed, Kinds, ListenerInv, OriginInv, AcpTypeOK
<1>3. UNCHANGED <<slot, ender, said, overwritten>>
  BY DEF Unprompted, Returned, Unlocked, AcpTypeOK
<1>4. acp' = [acp EXCEPT ![s] = [acp[s] EXCEPT !.turn = None, !.listener = None]]
  BY <1>2 DEF Unprompted, Returned, Unlocked, AcpTypeOK
<1>5. /\ acp' \in [Acps -> AcpRecords]
      /\ \A r \in Acps \ {s} : acp'[r] = acp[r]
      /\ acp'[s].turn = None /\ acp'[s].listener = None
      /\ acp'[s].process = acp[s].process /\ acp'[s].agent = acp[s].agent
      /\ acp'[s].events = acp[s].events /\ acp'[s].hand = acp[s].hand
  <2> DEFINE r == [acp[s] EXCEPT !.turn = None, !.listener = None]
  <2>1. acp \in [Acps -> AcpRecords] /\ acp[s] \in AcpRecords
    BY <1>2 DEF AcpTypeOK
  <2>2. /\ r \in AcpRecords
        /\ r.turn = None /\ r.listener = None
        /\ r.process = acp[s].process /\ r.agent = acp[s].agent
        /\ r.events = acp[s].events /\ r.hand = acp[s].hand
    BY <1>2, <2>1 DEF AcpRecords
  <2> HIDE DEF r
  <2>3. acp' = [acp EXCEPT ![s] = r]
    BY <1>4 DEF r
  <2>4. QED
    BY <2>1, <2>2, <2>3
<1>6. /\ \A r \in Acps \ {s} : acp'[r] = acp[r]
      /\ acp'[s].turn = None /\ acp'[s].listener = None
      /\ acp'[s].process = acp[s].process /\ acp'[s].agent = acp[s].agent
  BY <1>5
<1>7. prompt' = [prompt EXCEPT ![t] = [prompt[t] EXCEPT !.pc = "over", !.result = "unprompted"]]
  BY <1>2 DEF Unprompted, Returned, Unlocked, AcpTypeOK
<1>8. /\ prompt' \in [Prompts -> PromptRecords]
      /\ \A u \in Prompts \ {t} : prompt'[u] = prompt[u]
      /\ prompt'[t].pc = "over"
      /\ prompt'[t].at = prompt[t].at /\ prompt'[t].inbox = prompt[t].inbox
      /\ prompt'[t].replied = prompt[t].replied /\ prompt'[t].answer = prompt[t].answer
  <2> DEFINE r == [prompt[t] EXCEPT !.pc = "over", !.result = "unprompted"]
  <2>1. prompt \in [Prompts -> PromptRecords] /\ prompt[t] \in PromptRecords
    BY <1>2 DEF AcpTypeOK
  <2>2. /\ r \in PromptRecords
        /\ r.pc = "over"
        /\ r.at = prompt[t].at /\ r.inbox = prompt[t].inbox /\ r.replied = prompt[t].replied
        /\ r.answer = prompt[t].answer
    BY <1>2, <2>1 DEF PromptRecords
  <2> HIDE DEF r
  <2>3. prompt' = [prompt EXCEPT ![t] = r]
    BY <1>7 DEF r
  <2>4. QED
    BY <2>1, <2>2, <2>3
<1>9. /\ \A u \in Prompts \ {t} : prompt'[u] = prompt[u]
      /\ prompt'[t].pc = "over"
      /\ prompt'[t].at = prompt[t].at /\ prompt'[t].replied = prompt[t].replied
  BY <1>8
<1>10. AcpTypeOK'
  BY <1>1, <1>2, <1>3, <1>5, <1>8 DEF AcpTypeOK
<1>11. PlaceInv'
  BY <1>1, <1>2, <1>3, <1>6, <1>9 DEF Kinds, PlaceInv, Placed
<1>12. MutexInv'
  BY <1>1, <1>2, <1>3, <1>6, <1>9 DEF Kinds, PlaceInv, Placed, MutexInv
<1>13. ListenerInv'
  BY <1>1, <1>2, <1>3, <1>5, <1>8 DEF Kinds, PlaceInv, Placed, MutexInv, ListenerInv, Live
<1>14. OriginSpared
  BY <1>1, <1>2, <1>3, <1>5, <1>8 DEF OriginSpared, Begun, Kinds
<1>15. OriginInv'
  BY <1>14, OriginKept
<1>16. FlowSpared
  BY <1>1, <1>2, <1>3, <1>5, <1>8 DEF FlowSpared, Spared, Kinds, PlaceInv, Placed, MutexInv, ListenerInv, Live
<1>17. FlowInv'
  BY <1>16, FlowKept
<1>18. OnlyOverwrittenLeak'
  BY <1>1, <1>2, <1>3, <1>6, <1>9 DEF Kinds, PlaceInv, Placed, OnlyOverwrittenLeak, Live
<1>19. QED
  BY <1>10, <1>11, <1>12, <1>13, <1>15, <1>17, <1>18

LEMMA AgentRepliesKeeps ==
    ASSUME IInv, NEW s \in Acps, AgentReplies(s)
    PROVE  IInv'
<1> USE AcpAssumption DEF IInv
<1>1. Kinds
  BY KindsHold
<1>2. PICK t \in Prompts : t = acp[s].agent /\ acp[s] \in AcpRecords /\ prompt[t] \in PromptRecords
  BY <1>1 DEF AgentReplies, PlaceInv, Placed, Kinds, ListenerInv, OriginInv, AcpTypeOK
<1>3. UNCHANGED <<slot, ender, said, overwritten>>
  BY DEF AgentReplies, AcpTypeOK
<1>4. prompt[t].pc = "run"
  BY <1>2 DEF ListenerInv
<1>5. acp' = [acp EXCEPT ![s] = [acp[s] EXCEPT !.agent = None]]
  BY <1>2, <1>4 DEF AgentReplies, AcpTypeOK
<1>6. /\ acp' \in [Acps -> AcpRecords]
      /\ \A r \in Acps \ {s} : acp'[r] = acp[r]
      /\ acp'[s].agent = None
      /\ acp'[s].process = acp[s].process /\ acp'[s].turn = acp[s].turn
      /\ acp'[s].listener = acp[s].listener /\ acp'[s].events = acp[s].events
      /\ acp'[s].hand = acp[s].hand
  <2> DEFINE r == [acp[s] EXCEPT !.agent = None]
  <2>1. acp \in [Acps -> AcpRecords] /\ acp[s] \in AcpRecords
    BY <1>2 DEF AcpTypeOK
  <2>2. /\ r \in AcpRecords
        /\ r.agent = None
        /\ r.process = acp[s].process /\ r.turn = acp[s].turn
        /\ r.listener = acp[s].listener /\ r.events = acp[s].events
        /\ r.hand = acp[s].hand
    BY <1>2, <2>1, <1>4 DEF AcpRecords
  <2> HIDE DEF r
  <2>3. acp' = [acp EXCEPT ![s] = r]
    BY <1>5 DEF r
  <2>4. QED
    BY <2>1, <2>2, <2>3
<1>7. prompt' = [prompt EXCEPT ![t] = [prompt[t] EXCEPT !.replied = TRUE]]
  BY <1>2, <1>4 DEF AgentReplies, AcpTypeOK
<1>8. /\ prompt' \in [Prompts -> PromptRecords]
      /\ \A u \in Prompts \ {t} : prompt'[u] = prompt[u]
      /\ prompt'[t].replied = TRUE
      /\ prompt'[t].pc = prompt[t].pc /\ prompt'[t].at = prompt[t].at
      /\ prompt'[t].inbox = prompt[t].inbox /\ prompt'[t].answer = prompt[t].answer
  <2> DEFINE r == [prompt[t] EXCEPT !.replied = TRUE]
  <2>1. prompt \in [Prompts -> PromptRecords] /\ prompt[t] \in PromptRecords
    BY <1>2 DEF AcpTypeOK
  <2>2. /\ r \in PromptRecords
        /\ r.replied = TRUE
        /\ r.pc = prompt[t].pc /\ r.at = prompt[t].at /\ r.inbox = prompt[t].inbox
        /\ r.answer = prompt[t].answer
    BY <1>2, <2>1, <1>4 DEF PromptRecords
  <2> HIDE DEF r
  <2>3. prompt' = [prompt EXCEPT ![t] = r]
    BY <1>7 DEF r
  <2>4. QED
    BY <2>1, <2>2, <2>3
<1>9. AcpTypeOK'
  BY <1>1, <1>2, <1>3, <1>4, <1>6, <1>8 DEF AcpTypeOK
<1>10. PlaceInv'
  BY <1>1, <1>2, <1>3, <1>4, <1>6, <1>8 DEF Kinds, PlaceInv, Placed
<1>11. MutexInv'
  BY <1>1, <1>2, <1>3, <1>4, <1>6, <1>8 DEF Kinds, PlaceInv, Placed, MutexInv
<1>12. ListenerInv'
  BY <1>1, <1>2, <1>3, <1>4, <1>6, <1>8 DEF Kinds, PlaceInv, Placed, MutexInv, ListenerInv, Live
<1>13. OriginSpared
  BY <1>1, <1>2, <1>3, <1>4, <1>6, <1>8 DEF OriginSpared, Begun, Kinds
<1>14. OriginInv'
  BY <1>13, OriginKept
<1>15. FlowSpared
  BY <1>1, <1>2, <1>3, <1>4, <1>6, <1>8 DEF FlowSpared, Spared, Kinds, PlaceInv, Placed, MutexInv,
     ListenerInv, Live
<1>16. FlowInv'
  BY <1>15, FlowKept
<1>17. OnlyOverwrittenLeak'
  BY <1>1, <1>2, <1>3, <1>4, <1>6, <1>8 DEF Kinds, PlaceInv, Placed, OnlyOverwrittenLeak, Live
<1>18. QED
  BY <1>9, <1>10, <1>11, <1>12, <1>14, <1>16, <1>17

LEMMA ProcessDiesKeeps ==
    ASSUME IInv, NEW s \in Acps, ProcessDies(s)
    PROVE  IInv'
<1> USE AcpAssumption DEF IInv
<1>1. Kinds
  BY KindsHold
<1>2. acp[s].process = "running"
  BY <1>1 DEF ProcessDies, Live, PlaceInv, Placed, Kinds, ListenerInv, OriginInv, AcpTypeOK
<1>3. UNCHANGED <<slot, prompt, ender, said, overwritten>>
  BY DEF ProcessDies, Live, AcpTypeOK
<1>4. Finish(s, "exited")
  BY <1>2 DEF ProcessDies
<1>5. Finished(s)
  BY <1>2, <1>4, FinishFinishes
<1>6. AcpTypeOK'
  BY <1>1, <1>2, <1>3, <1>4, <1>5 DEF AcpTypeOK, Finished
<1>7. PlaceInv'
  BY <1>1, <1>2, <1>3, <1>4, <1>5 DEF Kinds, PlaceInv, Placed, Finished
<1>8. MutexInv'
  BY <1>1, <1>2, <1>3, <1>4, <1>5 DEF Kinds, PlaceInv, Placed, MutexInv, Finished
<1>9. ListenerInv'
  BY <1>1, <1>2, <1>3, <1>4, <1>5 DEF Kinds, PlaceInv, Placed, MutexInv, ListenerInv, Live, Finished
<1>10. OriginSpared
  BY <1>1, <1>2, <1>3, <1>4, <1>5 DEF OriginSpared, Begun, Kinds, Finished
<1>11. OriginInv'
  BY <1>10, OriginKept
<1>12. FlowSpared
  BY <1>1, <1>2, <1>3, <1>4, <1>5 DEF FlowSpared, Spared, Kinds, PlaceInv, Placed, MutexInv, ListenerInv,
     Live, Finished
<1>13. FlowInv'
  BY <1>12, FlowKept
<1>14. OnlyOverwrittenLeak'
  BY <1>1, <1>2, <1>3, <1>4, <1>5 DEF Kinds, PlaceInv, Placed, OnlyOverwrittenLeak, Live, Finished
<1>15. QED
  BY <1>6, <1>7, <1>8, <1>9, <1>11, <1>13, <1>14

LEMMA WatchdogFiresKeeps ==
    ASSUME IInv, NEW t \in Prompts, WatchdogFires(t)
    PROVE  IInv'
<1> USE AcpAssumption DEF IInv
<1>1. Kinds
  BY KindsHold
<1>2. PICK s \in Acps : Finish(s, "did not stop")
  BY <1>1 DEF WatchdogFires, PlaceInv, Placed, Kinds, ListenerInv, OriginInv, AcpTypeOK
<1>3. UNCHANGED <<slot, prompt, ender, said, overwritten>>
  BY DEF WatchdogFires, AcpTypeOK
<1>4. Finish(s, "did not stop")
  BY <1>2
<1>5. Finished(s)
  BY <1>2, <1>4, FinishFinishes
<1>6. AcpTypeOK'
  BY <1>1, <1>3, <1>5 DEF AcpTypeOK, Finished
<1>7. PlaceInv'
  BY <1>1, <1>3, <1>5 DEF Kinds, PlaceInv, Placed, Finished
<1>8. MutexInv'
  BY <1>1, <1>3, <1>5 DEF Kinds, PlaceInv, Placed, MutexInv, Finished
<1>9. ListenerInv'
  BY <1>1, <1>3, <1>5 DEF Kinds, PlaceInv, Placed, MutexInv, ListenerInv, Live, Finished
<1>10. OriginSpared
  BY <1>1, <1>3, <1>5 DEF OriginSpared, Begun, Kinds, Finished
<1>11. OriginInv'
  BY <1>10, OriginKept
<1>12. FlowSpared
  BY <1>1, <1>3, <1>5 DEF FlowSpared, Spared, Kinds, PlaceInv, Placed, MutexInv, ListenerInv, Live, Finished
<1>13. FlowInv'
  BY <1>12, FlowKept
<1>14. OnlyOverwrittenLeak'
  BY <1>1, <1>3, <1>5 DEF Kinds, PlaceInv, Placed, OnlyOverwrittenLeak, Live, Finished
<1>15. QED
  BY <1>6, <1>7, <1>8, <1>9, <1>11, <1>13, <1>14

(* The steps that move messages.  A queue without a message of the turn.   *)
LEMMA NumberedNone ==
    ASSUME NEW q, NEW t, NEW a \in Nat, \A i \in DOMAIN q : q[i].turn # t
    PROVE  Numbered(q, t, a, a)
  BY DEF Numbered

(* A queue of one message ...                                              *)
LEMMA NumberedOne ==
    ASSUME NEW m \in Chunks, NEW t, NEW a \in Nat, NEW b \in Nat
    PROVE  /\ Numbered(<<>>, t, a, b) => a = b
           /\ m.turn # t /\ Numbered(<<m>>, t, a, b) => a = b
           /\ m.turn = t /\ Numbered(<<m>>, t, a, b) => m.n = a + 1 /\ b = a + 1
<1>1. /\ DOMAIN <<>> = {} /\ DOMAIN <<m>> = {1} /\ <<m>>[1] = m
      /\ <<>> \in Seq(Chunks) /\ <<m>> = Append(<<>>, m)
  OBVIOUS
<1>2. ASSUME Numbered(<<>>, t, a, b) PROVE a = b
  <2>1. \A n \in (a + 1)..b : FALSE
    BY <1>1, <1>2 DEF Numbered
  <2>2. a <= b /\ (a < b => b \in (a + 1)..b)
    BY <1>2 DEF Numbered
  <2>3. QED
    BY <2>1, <2>2
<1>3. ASSUME m.turn # t, Numbered(<<m>>, t, a, b) PROVE a = b
  <2>1. \A n \in (a + 1)..b : FALSE
    BY <1>1, <1>3 DEF Numbered
  <2>2. a <= b /\ (a < b => b \in (a + 1)..b)
    BY <1>3 DEF Numbered
  <2>3. QED
    BY <2>1, <2>2
<1>4. ASSUME m.turn = t, Numbered(<<m>>, t, a, b) PROVE m.n = a + 1 /\ b = a + 1
  <2>1. m.n \in (a + 1)..b
    BY <1>1, <1>4 DEF Numbered
  <2>2. \A n \in (a + 1)..b : n = m.n
    BY <1>1, <1>4 DEF Numbered
  <2>3. a + 1 \in (a + 1)..b /\ b \in (a + 1)..b
    BY <2>1
  <2>4. QED
    BY <2>2, <2>3
<1>5. QED
  BY <1>2, <1>3, <1>4

LEMMA NumberedSingle ==
    ASSUME NEW m \in Chunks, NEW t, NEW a \in Nat
    PROVE  /\ m.turn # t => Numbered(<<m>>, t, a, a)
           /\ m.turn = t /\ m.n = a + 1 => Numbered(<<m>>, t, a, a + 1)
<1>1. <<>> \in Seq(Chunks) /\ <<m>> = Append(<<>>, m) /\ Numbered(<<>>, t, a, a)
  BY NumberedEmpty
<1>2. QED
  BY <1>1, NumberedAppend

LEMMA PromptedKeeps ==
    ASSUME IInv, NEW t \in Prompts, Prompted(t)
    PROVE  IInv'
<1> USE AcpAssumption DEF IInv
<1>1. Kinds
  BY KindsHold
<1>2. PICK s \in Acps : s = prompt[t].at /\ prompt[t] \in PromptRecords /\ prompt[t].pc = "prompt"
  BY <1>1 DEF Prompted, Goes, PlaceInv, Placed, Kinds, ListenerInv, OriginInv, AcpTypeOK
<1>3. UNCHANGED <<slot, ender, said, overwritten>>
  BY DEF Prompted, Goes, AcpTypeOK
<1>4. PICK v \in Prompts \cup {None} : v = IF Live(s) THEN t ELSE None
  OBVIOUS
<1>5. acp' = [acp EXCEPT ![s] = [acp[s] EXCEPT !.listener = t, !.agent = v]]
  BY <1>2, <1>4 DEF Prompted, Goes, AcpTypeOK
<1>6. /\ acp' \in [Acps -> AcpRecords]
      /\ \A r \in Acps \ {s} : acp'[r] = acp[r]
      /\ acp'[s].listener = t /\ acp'[s].agent = v
      /\ acp'[s].process = acp[s].process /\ acp'[s].turn = acp[s].turn
      /\ acp'[s].events = acp[s].events /\ acp'[s].hand = acp[s].hand
  <2> DEFINE r == [acp[s] EXCEPT !.listener = t, !.agent = v]
  <2>1. acp \in [Acps -> AcpRecords] /\ acp[s] \in AcpRecords
    BY <1>2 DEF AcpTypeOK
  <2>2. /\ r \in AcpRecords
        /\ r.listener = t /\ r.agent = v
        /\ r.process = acp[s].process /\ r.turn = acp[s].turn /\ r.events = acp[s].events
        /\ r.hand = acp[s].hand
    BY <1>2, <2>1, <1>4 DEF AcpRecords
  <2> HIDE DEF r
  <2>3. acp' = [acp EXCEPT ![s] = r]
    BY <1>5 DEF r
  <2>4. QED
    BY <2>1, <2>2, <2>3
<1>7. prompt' = [prompt EXCEPT ![t] = [prompt[t] EXCEPT !.pc = "run"]]
  BY <1>2, <1>4 DEF Prompted, Goes, AcpTypeOK
<1>8. /\ prompt' \in [Prompts -> PromptRecords]
      /\ \A u \in Prompts \ {t} : prompt'[u] = prompt[u]
      /\ prompt'[t].pc = "run"
      /\ prompt'[t].at = prompt[t].at /\ prompt'[t].inbox = prompt[t].inbox
      /\ prompt'[t].replied = prompt[t].replied /\ prompt'[t].answer = prompt[t].answer
  <2> DEFINE r == [prompt[t] EXCEPT !.pc = "run"]
  <2>1. prompt \in [Prompts -> PromptRecords] /\ prompt[t] \in PromptRecords
    BY <1>2 DEF AcpTypeOK
  <2>2. /\ r \in PromptRecords
        /\ r.pc = "run"
        /\ r.at = prompt[t].at /\ r.inbox = prompt[t].inbox /\ r.replied = prompt[t].replied
        /\ r.answer = prompt[t].answer
    BY <1>2, <2>1, <1>4 DEF PromptRecords
  <2> HIDE DEF r
  <2>3. prompt' = [prompt EXCEPT ![t] = r]
    BY <1>7 DEF r
  <2>4. QED
    BY <2>1, <2>2, <2>3
<1>9. AcpTypeOK'
  BY <1>1, <1>2, <1>3, <1>4, <1>6, <1>8 DEF AcpTypeOK
<1>10. PlaceInv'
  BY <1>1, <1>2, <1>3, <1>4, <1>6, <1>8 DEF Kinds, PlaceInv, Placed
<1>11. MutexInv'
  BY <1>1, <1>2, <1>3, <1>4, <1>6, <1>8 DEF Kinds, PlaceInv, Placed, MutexInv
<1>12. ListenerInv'
  BY <1>1, <1>2, <1>3, <1>4, <1>6, <1>8 DEF Kinds, PlaceInv, Placed, MutexInv, ListenerInv, Live
<1>13. OriginInv'
  <2>1. \A u \in Prompts : prompt'[u].pc \notin {"run", "over"} =>
            said'[u] = 0 /\ prompt'[u].inbox = <<>> /\ prompt'[u].answer = <<>>
    BY <1>1, <1>2, <1>3, <1>4, <1>6, <1>8 DEF OriginInv, Begun
  <2>2. \A r \in Acps : acp'[r].events = acp[r].events /\ acp'[r].hand = acp[r].hand
    BY <1>1, <1>2, <1>3, <1>4, <1>6, <1>8
  <2>3. \A r \in Acps : \A i \in DOMAIN acp[r].events : prompt'[acp[r].events[i].turn].pc \in {"run", "over"}
    BY <1>1, <1>2, <1>3, <1>4, <1>6, <1>8, WrittenTyped DEF OriginInv, Begun
  <2>4. ASSUME NEW r \in Acps, acp[r].hand # <<>>
        PROVE  LET held == acp[r].hand[1] IN
                /\ prompt'[held.msg.turn].pc \in {"run", "over"}
                /\ prompt'[held.to].at = r /\ prompt'[held.to].pc \in {"run", "over"}
                /\ acp'[r].listener = held.msg.turn => held.to = held.msg.turn
    <3>1. acp[r].hand[1].msg.turn \in Prompts /\ acp[r].hand[1].to \in Prompts
      BY <2>4, HeldTyped
    <3>2. /\ Begun(acp[r].hand[1].msg.turn)
          /\ prompt[acp[r].hand[1].to].at = r /\ Begun(acp[r].hand[1].to)
          /\ acp[r].listener = acp[r].hand[1].msg.turn => acp[r].hand[1].to = acp[r].hand[1].msg.turn
      BY <2>4 DEF OriginInv
    <3>3. ~Begun(t) /\ acp'[r].listener \in {t, acp[r].listener}
      BY <1>1, <1>2, <1>3, <1>4, <1>6, <1>8 DEF Begun
    <3>4. \A u \in Prompts : Begun(u) => u # t /\ prompt'[u] = prompt[u]
      BY <1>1, <1>2, <1>3, <1>4, <1>6, <1>8, <3>3
    <3>5. QED
      BY <3>1, <3>2, <3>3, <3>4 DEF Begun
  <2>5. QED
    BY <2>1, <2>2, <2>3, <2>4 DEF OriginInv, Begun
<1>14. FlowInv'
  <2>1. ASSUME NEW u \in Prompts, u # t PROVE Spared(u)
    BY <1>1, <1>2, <1>3, <1>4, <1>6, <1>8, <2>1 DEF Spared, Kinds, PlaceInv, Placed, MutexInv, ListenerInv,
       Live
  <2>2. FlowOf(t)'
    <3>1. said'[t] = 0 /\ prompt'[t].answer = <<>> /\ prompt'[t].inbox = <<>>
      BY <1>1, <1>2, <1>3, <1>4, <1>6, <1>8 DEF OriginInv, Begun
    <3>2. \A i \in DOMAIN acp[s].events : acp[s].events[i].turn # t
      BY <1>1, <1>2, <1>3, <1>4, <1>6, <1>8 DEF OriginInv, Begun
    <3>3. \A i \in DOMAIN HeldBy(s) : HeldBy(s)[i].turn # t
      <4>1. CASE acp[s].hand = <<>>
        BY <4>1 DEF HeldBy
      <4>2. CASE acp[s].hand # <<>>
        BY SMTT(30), <1>1, <1>2, <1>3, <1>4, <1>6, <1>8, <4>2 DEF OriginInv, Begun, HeldBy
      <4>3. QED
        BY <4>1, <4>2
    <3>4. HeldBy(s)' = HeldBy(s) /\ acp'[s].events = acp[s].events /\ prompt'[t].at = s
      BY <1>1, <1>2, <1>3, <1>4, <1>6, <1>8 DEF HeldBy
    <3>5. /\ Numbered(<<>>, t, 0, 0) /\ Numbered(HeldBy(s), t, 0, 0) /\ Numbered(acp[s].events, t, 0, 0)
      BY <3>2, <3>3, NumberedEmpty, NumberedNone
    <3>6. 0 \in 0..said'[t]
      BY <3>1
    <3>7. QED
      BY <3>1, <3>4, <3>5, <3>6 DEF FlowOf
  <2>3. QED
    BY <2>1, <2>2, FlowOfKept DEF FlowInv
<1>15. OnlyOverwrittenLeak'
  BY <1>1, <1>2, <1>3, <1>4, <1>6, <1>8 DEF Kinds, PlaceInv, Placed, OnlyOverwrittenLeak, Live
<1>16. QED
  BY <1>9, <1>10, <1>11, <1>12, <1>13, <1>14, <1>15

LEMMA HandleKeeps ==
    ASSUME IInv, NEW t \in Prompts, Handle(t)
    PROVE  IInv'
<1> USE AcpAssumption DEF IInv
<1>1. Kinds
  BY KindsHold
<1>2. prompt[t] \in PromptRecords /\ prompt[t].pc = "run"
  BY <1>1 DEF Handle, PlaceInv, Placed, Kinds, ListenerInv, OriginInv, AcpTypeOK
<1>3. UNCHANGED <<slot, acp, ender, said, overwritten>>
  BY DEF Handle, AcpTypeOK
<1>4. /\ prompt[t].inbox # <<>> /\ prompt[t].inbox \in Seq(Chunks) /\ prompt[t].answer \in Seq(Chunks)
      /\ Head(prompt[t].inbox) \in Chunks
  BY <1>2, QueuesTyped, HeadTailProperties DEF Handle
<1>5. PICK p \in Seq(Chunks), q \in Seq(Chunks) :
         p = Tail(prompt[t].inbox) /\ q = Append(prompt[t].answer, Head(prompt[t].inbox))
  BY <1>4, HeadTailProperties, AppendProperties
<1>6. prompt' = [prompt EXCEPT ![t] = [prompt[t] EXCEPT !.inbox = p, !.answer = q]]
  BY <1>2, <1>4, <1>5 DEF Handle, AcpTypeOK
<1>7. /\ prompt' \in [Prompts -> PromptRecords]
      /\ \A u \in Prompts \ {t} : prompt'[u] = prompt[u]
      /\ prompt'[t].inbox = p /\ prompt'[t].answer = q
      /\ prompt'[t].pc = prompt[t].pc /\ prompt'[t].at = prompt[t].at
      /\ prompt'[t].replied = prompt[t].replied
  <2> DEFINE r == [prompt[t] EXCEPT !.inbox = p, !.answer = q]
  <2>1. prompt \in [Prompts -> PromptRecords] /\ prompt[t] \in PromptRecords
    BY <1>2 DEF AcpTypeOK
  <2>2. /\ r \in PromptRecords
        /\ r.inbox = p /\ r.answer = q
        /\ r.pc = prompt[t].pc /\ r.at = prompt[t].at /\ r.replied = prompt[t].replied
    BY <1>2, <2>1, <1>4, <1>5 DEF PromptRecords
  <2> HIDE DEF r
  <2>3. prompt' = [prompt EXCEPT ![t] = r]
    BY <1>6 DEF r
  <2>4. QED
    BY <2>1, <2>2, <2>3
<1>8. AcpTypeOK'
  BY <1>1, <1>2, <1>3, <1>7 DEF AcpTypeOK
<1>9. PlaceInv'
  BY <1>1, <1>2, <1>3, <1>7 DEF Kinds, PlaceInv, Placed
<1>10. MutexInv'
  BY <1>1, <1>2, <1>3, <1>7 DEF Kinds, PlaceInv, Placed, MutexInv
<1>11. ListenerInv'
  BY <1>1, <1>2, <1>3, <1>7 DEF Kinds, PlaceInv, Placed, MutexInv, ListenerInv, Live
<1>12. OriginInv'
  <2>1. \A u \in Prompts : prompt'[u].pc \notin {"run", "over"} =>
            said'[u] = 0 /\ prompt'[u].inbox = <<>> /\ prompt'[u].answer = <<>>
    BY <1>1, <1>2, <1>3, <1>7 DEF OriginInv, Begun
  <2>2. \A u \in Prompts : prompt'[u].pc = prompt[u].pc /\ prompt'[u].at = prompt[u].at
    BY <1>1, <1>2, <1>3, <1>7
  <2>3. \A r \in Acps : \A i \in DOMAIN acp[r].events : acp[r].events[i].turn \in Prompts
    BY WrittenTyped
  <2>4. \A r \in Acps : acp[r].hand # <<>> => acp[r].hand[1].msg.turn \in Prompts /\ acp[r].hand[1].to \in Prompts
    BY HeldTyped
  <2>5. QED
    BY <1>3, <2>1, <2>2, <2>3, <2>4 DEF OriginInv, Begun
<1>13. FlowInv'
  <2>1. ASSUME NEW u \in Prompts, u # t PROVE Spared(u)
    BY <1>1, <1>2, <1>3, <1>7, <2>1 DEF Spared
  <2>2. FlowOf(t)'
    <3>1. PICK a \in 0..said[t], b \in 0..said[t], c \in 0..said[t] :
            /\ Numbered(prompt[t].answer, t, 0, a)
            /\ Numbered(prompt[t].inbox, t, a, b)
            /\ Streaming(t) => /\ Numbered(HeldBy(prompt[t].at), t, b, c)
                               /\ Numbered(acp[prompt[t].at].events, t, c, said[t])
      BY DEF FlowInv, FlowOf
    <3>2. /\ said[t] \in Nat /\ a \in Nat /\ b \in Nat
          /\ prompt[t].inbox \in Seq(Chunks) /\ prompt[t].answer \in Seq(Chunks) /\ Head(prompt[t].inbox) \in Chunks
      BY <1>4, <3>1, QueuesTyped
    <3>3. /\ Streaming(t)' = Streaming(t) /\ HeldBy(prompt[t].at)' = HeldBy(prompt[t].at)
          /\ acp'[prompt'[t].at].events = acp[prompt[t].at].events
      BY <1>1, <1>2, <1>3, <1>7 DEF Streaming, HeldBy, Live
    <3>4. CASE Head(prompt[t].inbox).turn = t
      <4>1. /\ Head(prompt[t].inbox).n = a + 1 /\ a + 1 <= b
            /\ Numbered(Tail(prompt[t].inbox), t, a + 1, b)
            /\ Numbered(Append(prompt[t].answer, Head(prompt[t].inbox)), t, 0, a + 1)
        BY <1>4, <3>1, <3>2, <3>4, NumberedTail, NumberedAppend
      <4>2. a + 1 \in 0..said[t]
        BY <3>2, <4>1
      <4>3. said' = said /\ prompt'[t].inbox = Tail(prompt[t].inbox)
            /\ prompt'[t].answer = Append(prompt[t].answer, Head(prompt[t].inbox))
        BY <1>1, <1>2, <1>3, <1>7, <1>4, <1>5
      <4>4. QED
        BY <3>1, <3>3, <4>1, <4>2, <4>3 DEF FlowOf
    <3>5. CASE Head(prompt[t].inbox).turn # t
      <4>1. /\ Numbered(Tail(prompt[t].inbox), t, a, b)
            /\ Numbered(Append(prompt[t].answer, Head(prompt[t].inbox)), t, 0, a)
        BY <1>4, <3>1, <3>2, <3>5, NumberedTail, NumberedAppend
      <4>3. said' = said /\ prompt'[t].inbox = Tail(prompt[t].inbox)
            /\ prompt'[t].answer = Append(prompt[t].answer, Head(prompt[t].inbox))
        BY <1>1, <1>2, <1>3, <1>7, <1>4, <1>5
      <4>4. QED
        BY <3>1, <3>3, <4>1, <4>3 DEF FlowOf
    <3>6. QED
      BY <3>4, <3>5
  <2>3. QED
    BY <2>1, <2>2, FlowOfKept DEF FlowInv
<1>14. OnlyOverwrittenLeak'
  BY <1>1, <1>2, <1>3, <1>7 DEF Kinds, PlaceInv, Placed, OnlyOverwrittenLeak, Live
<1>15. QED
  BY <1>8, <1>9, <1>10, <1>11, <1>12, <1>13, <1>14

LEMMA CompleteFacts ==
    ASSUME AcpTypeOK, NEW t \in Prompts, Complete(t)
    PROVE  /\ prompt' \in [Prompts -> PromptRecords]
           /\ \A u \in Prompts \ {t} : prompt'[u] = prompt[u]
           /\ prompt'[t].pc = "over" /\ prompt'[t].at = prompt[t].at /\ prompt'[t].replied = prompt[t].replied
           /\ prompt'[t].inbox = <<>> /\ prompt'[t].answer = prompt[t].answer \o prompt[t].inbox
<1> DEFINE q == prompt[t].answer \o prompt[t].inbox
           v == IF prompt[t].stopped THEN "cancelled" ELSE IF q = <<>> THEN "empty" ELSE "answer"
           r == [prompt[t] EXCEPT !.pc = "over", !.result = v, !.answer = q, !.inbox = <<>>]
<1>1. prompt \in [Prompts -> PromptRecords] /\ prompt[t] \in PromptRecords
  BY DEF AcpTypeOK
<1>2. prompt' = [prompt EXCEPT ![t] = r]
  BY <1>1 DEF Complete, Returned
<1>3. q \in Seq(Chunks) /\ <<>> \in Seq(Chunks) /\ v \in {"cancelled", "empty", "answer"}
  BY QueuesTyped, ConcatProperties
<1> HIDE DEF q, v
<1>4. /\ r \in PromptRecords /\ r.pc = "over" /\ r.at = prompt[t].at /\ r.replied = prompt[t].replied
      /\ r.inbox = <<>> /\ r.answer = q
  BY <1>1, <1>3 DEF PromptRecords
<1> HIDE DEF r
<1>5. QED
  BY <1>1, <1>2, <1>4 DEF q

LEMMA CompleteKeeps ==
    ASSUME IInv, NEW t \in Prompts, Complete(t)
    PROVE  IInv'
<1> USE AcpAssumption DEF IInv
<1>1. Kinds
  BY KindsHold
<1>2. PICK s \in Acps : s = prompt[t].at /\ prompt[t] \in PromptRecords /\ prompt[t].pc = "run"
  BY <1>1 DEF Complete, Returned, Unlocked, PlaceInv, Placed, Kinds, ListenerInv, OriginInv, AcpTypeOK
<1>3. UNCHANGED <<slot, ender, said, overwritten>>
  BY DEF Complete, Returned, Unlocked, AcpTypeOK
<1>4. acp' = [acp EXCEPT ![s] = [acp[s] EXCEPT !.turn = None, !.listener = None]]
  BY <1>2 DEF Complete, Returned, Unlocked, AcpTypeOK
<1>5. /\ acp' \in [Acps -> AcpRecords]
      /\ \A r \in Acps \ {s} : acp'[r] = acp[r]
      /\ acp'[s].turn = None /\ acp'[s].listener = None
      /\ acp'[s].process = acp[s].process /\ acp'[s].agent = acp[s].agent
      /\ acp'[s].events = acp[s].events /\ acp'[s].hand = acp[s].hand
  <2> DEFINE r == [acp[s] EXCEPT !.turn = None, !.listener = None]
  <2>1. acp \in [Acps -> AcpRecords] /\ acp[s] \in AcpRecords
    BY <1>2 DEF AcpTypeOK
  <2>2. /\ r \in AcpRecords
        /\ r.turn = None /\ r.listener = None
        /\ r.process = acp[s].process /\ r.agent = acp[s].agent
        /\ r.events = acp[s].events /\ r.hand = acp[s].hand
    BY <1>2, <2>1 DEF AcpRecords
  <2> HIDE DEF r
  <2>3. acp' = [acp EXCEPT ![s] = r]
    BY <1>4 DEF r
  <2>4. QED
    BY <2>1, <2>2, <2>3
<1>6. /\ prompt' \in [Prompts -> PromptRecords]
      /\ \A u \in Prompts \ {t} : prompt'[u] = prompt[u]
      /\ prompt'[t].pc = "over" /\ prompt'[t].at = prompt[t].at /\ prompt'[t].replied = prompt[t].replied
  BY CompleteFacts
<1>7. \A u \in Prompts \ {t} : ~(prompt[u].at = s /\ prompt[u].pc = "run")
  BY <1>2 DEF MutexInv
<1>8. acp[s].agent = None
  BY <1>2 DEF Complete, ListenerInv
<1>9. AcpTypeOK'
  BY <1>1, <1>2, <1>3, <1>5, <1>6, <1>7, <1>8 DEF AcpTypeOK
<1>10. PlaceInv'
  BY <1>1, <1>2, <1>3, <1>5, <1>6, <1>7, <1>8 DEF Kinds, PlaceInv, Placed
<1>11. MutexInv'
  <2>1. SUFFICES ASSUME NEW r \in Acps, NEW u \in Prompts
                 PROVE  acp'[r].turn = u <=> prompt'[u].at = r /\ prompt'[u].pc \in {"prompt", "run"}
    BY DEF MutexInv
  <2>2. acp[r].turn = u <=> prompt[u].at = r /\ prompt[u].pc \in {"prompt", "run"}
    BY DEF MutexInv
  <2>3. acp[s].turn = t
    BY <1>2 DEF MutexInv
  <2>4. CASE u = t
    BY <1>2, <1>5, <1>6, <2>2, <2>4
  <2>5. CASE u # t
    BY <1>2, <1>5, <1>6, <2>2, <2>3, <2>5
  <2>6. QED
    BY <2>4, <2>5
<1>12. ListenerInv'
  BY <1>1, <1>2, <1>3, <1>5, <1>6, <1>7, <1>8 DEF Kinds, PlaceInv, Placed, MutexInv, ListenerInv, Live
<1>13. OriginInv'
  <2>1. \A u \in Prompts : prompt'[u].pc \notin {"run", "over"} =>
            said'[u] = 0 /\ prompt'[u].inbox = <<>> /\ prompt'[u].answer = <<>>
    BY <1>1, <1>2, <1>3, <1>5, <1>6, <1>7, <1>8 DEF OriginInv, Begun
  <2>2. \A u \in Prompts : Begun(u) => prompt'[u].pc \in {"run", "over"} /\ prompt'[u].at = prompt[u].at
    BY <1>1, <1>2, <1>3, <1>5, <1>6, <1>7, <1>8 DEF Begun
  <2>3. \A r \in Acps : \A i \in DOMAIN acp[r].events : acp[r].events[i].turn \in Prompts
    BY WrittenTyped
  <2>4. \A r \in Acps : acp[r].hand # <<>> => acp[r].hand[1].msg.turn \in Prompts /\ acp[r].hand[1].to \in Prompts
    BY HeldTyped
  <2>5. \A r \in Acps : /\ acp'[r].events = acp[r].events /\ acp'[r].hand = acp[r].hand
                        /\ acp'[r].listener \in {acp[r].listener, None}
    BY <1>1, <1>2, <1>3, <1>5, <1>6, <1>7, <1>8
  <2>6. QED
    BY <2>1, <2>2, <2>3, <2>4, <2>5 DEF OriginInv, Begun
<1>14. FlowInv'
  <2>1. ASSUME NEW u \in Prompts, u # t PROVE Spared(u)
    BY <1>1, <1>2, <1>3, <1>5, <1>6, <1>7, <1>8, <2>1 DEF Spared, Kinds, PlaceInv, Placed, MutexInv
  <2>2. FlowOf(t)'
    <3>1. PICK a \in 0..said[t], b \in 0..said[t] :
            /\ Numbered(prompt[t].answer, t, 0, a)
            /\ Numbered(prompt[t].inbox, t, a, b)
      BY DEF FlowInv, FlowOf
    <3>2. /\ said[t] \in Nat /\ a \in Nat /\ b \in Nat
          /\ prompt[t].inbox \in Seq(Chunks) /\ prompt[t].answer \in Seq(Chunks)
      BY <3>1, QueuesTyped
    <3>3. Numbered(prompt[t].answer \o prompt[t].inbox, t, 0, b) /\ Numbered(<<>>, t, b, b)
      BY <3>1, <3>2, NumberedConcat, NumberedEmpty
    <3>4. /\ said' = said /\ prompt'[t].inbox = <<>>
          /\ prompt'[t].answer = prompt[t].answer \o prompt[t].inbox /\ prompt'[t].pc = "over"
      BY <1>3, CompleteFacts
    <3>5. QED
      BY <3>1, <3>3, <3>4 DEF FlowOf, Streaming
  <2>3. QED
    BY <2>1, <2>2, FlowOfKept DEF FlowInv
<1>15. OnlyOverwrittenLeak'
  BY <1>1, <1>2, <1>3, <1>5, <1>6, <1>7, <1>8 DEF Kinds, PlaceInv, Placed, OnlyOverwrittenLeak, Live
<1>16. QED
  BY <1>9, <1>10, <1>11, <1>12, <1>13, <1>14, <1>15

LEMMA PumpTakesKeeps ==
    ASSUME IInv, NEW s \in Acps, PumpTakes(s)
    PROVE  IInv'
<1> USE AcpAssumption DEF IInv
<1>1. Kinds
  BY KindsHold
<1>2. acp[s] \in AcpRecords
  BY <1>1 DEF PumpTakes, Taken, PlaceInv, Placed, Kinds, ListenerInv, OriginInv, AcpTypeOK
<1>3. UNCHANGED <<slot, prompt, ender, said, overwritten>>
  BY DEF PumpTakes, Taken, AcpTypeOK
<1>4. /\ acp[s].hand = <<>> /\ acp[s].events # <<>> /\ acp[s].events \in Seq(Chunks)
      /\ Head(acp[s].events) \in Chunks /\ 1 \in DOMAIN acp[s].events /\ Head(acp[s].events) = acp[s].events[1]
  BY <1>2, EventsTyped, HeadTailProperties, EmptySeq DEF PumpTakes
<1>5. PICK p \in Seq(Chunks) : p = Tail(acp[s].events)
  BY <1>4, HeadTailProperties
<1>6. PICK v \in Seq([msg : Chunks, to : Prompts]) : v = Taken(s)
  <2>1. Taken(s) \in Seq([msg : Chunks, to : Prompts])
    <3>1. acp[s].listener \in Prompts \cup {None} /\ Head(acp[s].events) \in Chunks
      BY <1>1, <1>4 DEF Kinds
    <3>2. CASE acp[s].listener = None
      BY <3>2 DEF Taken
    <3>3. CASE acp[s].listener # None
      <4>1. [msg |-> Head(acp[s].events), to |-> acp[s].listener] \in [msg : Chunks, to : Prompts]
        BY <3>1, <3>3
      <4>2. QED
        BY <3>3, <4>1 DEF Taken
    <3>4. QED
      BY <3>2, <3>3
  <2>2. QED
    BY <2>1
<1>7. Live(s)
  BY <1>4 DEF ListenerInv
<1>8. acp' = [acp EXCEPT ![s] = [acp[s] EXCEPT !.events = p, !.hand = v]]
  BY <1>2, <1>4, <1>5, <1>6, <1>7 DEF PumpTakes, Taken, AcpTypeOK
<1>9. /\ acp' \in [Acps -> AcpRecords]
      /\ \A r \in Acps \ {s} : acp'[r] = acp[r]
      /\ acp'[s].events = p /\ acp'[s].hand = v
      /\ acp'[s].process = acp[s].process /\ acp'[s].turn = acp[s].turn
      /\ acp'[s].listener = acp[s].listener /\ acp'[s].agent = acp[s].agent
  <2> DEFINE r == [acp[s] EXCEPT !.events = p, !.hand = v]
  <2>1. acp \in [Acps -> AcpRecords] /\ acp[s] \in AcpRecords
    BY <1>2 DEF AcpTypeOK
  <2>2. /\ r \in AcpRecords
        /\ r.events = p /\ r.hand = v
        /\ r.process = acp[s].process /\ r.turn = acp[s].turn
        /\ r.listener = acp[s].listener /\ r.agent = acp[s].agent
    BY <1>2, <2>1, <1>4, <1>5, <1>6, <1>7 DEF AcpRecords
  <2> HIDE DEF r
  <2>3. acp' = [acp EXCEPT ![s] = r]
    BY <1>8 DEF r
  <2>4. QED
    BY <2>1, <2>2, <2>3
<1>10. AcpTypeOK'
  BY <1>1, <1>2, <1>3, <1>7, <1>9 DEF AcpTypeOK
<1>11. PlaceInv'
  BY <1>1, <1>2, <1>3, <1>7, <1>9 DEF Kinds, PlaceInv, Placed
<1>12. MutexInv'
  BY <1>1, <1>2, <1>3, <1>7, <1>9 DEF Kinds, PlaceInv, Placed, MutexInv
<1>13. ListenerInv'
  BY <1>1, <1>2, <1>3, <1>7, <1>9 DEF Kinds, PlaceInv, Placed, MutexInv, ListenerInv, Live
<1>14. OriginInv'
  <2>1. Begun(Head(acp[s].events).turn)
    BY <1>4 DEF OriginInv
  <2>2. \A i \in DOMAIN acp'[s].events : i + 1 \in DOMAIN acp[s].events /\ acp'[s].events[i] = acp[s].events[i + 1]
    BY <1>1, <1>2, <1>3, <1>7, <1>9, <1>4, <1>5, <1>6, <1>7
  <2>3. \A i \in DOMAIN acp'[s].events : Begun(acp'[s].events[i].turn)
    BY <2>2 DEF OriginInv
  <2>4. acp[s].listener # None => prompt[acp[s].listener].at = s /\ Begun(acp[s].listener)
    BY <1>1, <1>2, <1>3, <1>7, <1>9 DEF ListenerInv, Kinds, Begun
  <2>5. acp'[s].hand # <<>> => LET held == acp'[s].hand[1] IN
              /\ Begun(held.msg.turn) /\ prompt[held.to].at = s /\ Begun(held.to)
              /\ acp'[s].listener = held.msg.turn => held.to = held.msg.turn
    BY <1>1, <1>2, <1>3, <1>7, <1>9, <1>4, <1>5, <1>6, <1>7, <2>1, <2>4 DEF Taken
  <2>6. QED
    BY <1>1, <1>2, <1>3, <1>7, <1>9, <2>3, <2>5 DEF OriginInv, Begun
<1>15. FlowInv'
  <2>1. SUFFICES ASSUME NEW u \in Prompts PROVE FlowOf(u)'
    BY DEF FlowInv
  <2>2. CASE Streaming(u) /\ prompt[u].at = s
    <3>1. acp[s].listener = u
      BY <2>2 DEF Streaming, ListenerInv
    <3>2. PICK a \in 0..said[u], b \in 0..said[u], c \in 0..said[u] :
            /\ Numbered(prompt[u].answer, u, 0, a)
            /\ Numbered(prompt[u].inbox, u, a, b)
            /\ Numbered(<<>>, u, b, c)
            /\ Numbered(acp[s].events, u, c, said[u])
      BY <1>4, <2>2 DEF FlowInv, FlowOf, HeldBy
    <3>3. said[u] \in Nat /\ b \in Nat /\ c \in Nat /\ c = b
      <4>1. said[u] \in Nat /\ b \in Nat /\ c \in Nat
        BY <3>2, QueuesTyped
      <4>2. QED
        BY <1>4, <3>2, <4>1, NumberedOne
    <3>4. HeldBy(s)' = <<Head(acp[s].events)>>
      BY <1>1, <1>2, <1>3, <1>7, <1>9, <1>4, <1>5, <1>6, <1>7, <3>1, AcpAssumption DEF HeldBy, Taken
    <3>5. CASE Head(acp[s].events).turn = u
      <4>1. /\ b + 1 <= said[u]
            /\ Numbered(Tail(acp[s].events), u, b + 1, said[u])
            /\ Numbered(<<Head(acp[s].events)>>, u, b, b + 1)
        <5>1. Numbered(acp[s].events, u, b, said[u])
          BY <3>2, <3>3
        <5>2. /\ Head(acp[s].events).n = b + 1 /\ b + 1 <= said[u]
              /\ Numbered(Tail(acp[s].events), u, b + 1, said[u])
          BY <1>4, <3>3, <3>5, <5>1, NumberedTail
        <5>3. QED
          BY <1>4, <3>3, <3>5, <5>2, NumberedSingle
      <4>2. b + 1 \in 0..said[u]
        BY <3>3, <4>1
      <4>3. QED
        BY <1>1, <1>2, <1>3, <1>7, <1>9, <1>4, <1>5, <1>6, <1>7, <2>2, <3>2, <3>4, <4>1, <4>2 DEF FlowOf
    <3>6. CASE Head(acp[s].events).turn # u
      <4>1. /\ Numbered(Tail(acp[s].events), u, b, said[u])
            /\ Numbered(<<Head(acp[s].events)>>, u, b, b)
        <5>1. Numbered(acp[s].events, u, b, said[u])
          BY <3>2, <3>3
        <5>2. QED
          BY <1>4, <3>3, <3>6, <5>1, NumberedTail, NumberedSingle
      <4>2. QED
        BY <1>1, <1>2, <1>3, <1>7, <1>9, <1>4, <1>5, <1>6, <1>7, <2>2, <3>2, <3>4, <4>1 DEF FlowOf
    <3>7. QED
      BY <3>5, <3>6
  <2>3. CASE ~(Streaming(u) /\ prompt[u].at = s)
    <3>1. Spared(u)
      BY <1>1, <1>2, <1>3, <1>7, <1>9, <2>3 DEF Spared, Streaming, Live, PlaceInv, Placed, Kinds
    <3>2. QED
      BY <3>1, FlowOfKept DEF FlowInv
  <2>4. QED
    BY <2>2, <2>3
<1>16. OnlyOverwrittenLeak'
  BY <1>1, <1>2, <1>3, <1>7, <1>9 DEF Kinds, PlaceInv, Placed, OnlyOverwrittenLeak, Live
<1>17. QED
  BY <1>10, <1>11, <1>12, <1>13, <1>14, <1>15, <1>16

LEMMA PumpDeliversKeeps ==
    ASSUME IInv, NEW s \in Acps, PumpDelivers(s)
    PROVE  IInv'
<1> USE AcpAssumption DEF IInv
<1>1. Kinds
  BY KindsHold
<1>2. acp[s] \in AcpRecords
  BY <1>1 DEF PumpDelivers, PlaceInv, Placed, Kinds, ListenerInv, OriginInv, AcpTypeOK
<1>3. UNCHANGED <<slot, ender, said, overwritten>>
  BY DEF PumpDelivers, AcpTypeOK
<1>4. PICK msg \in Chunks, to \in Prompts :
         acp[s].hand # <<>> /\ acp[s].hand[1].msg = msg /\ acp[s].hand[1].to = to
  BY HeldTyped DEF PumpDelivers
<1>5. <<>> \in Seq([msg : Chunks, to : Prompts])
  OBVIOUS
<1>6. PICK q \in Seq(Chunks) : q = Append(prompt[to].inbox, msg)
  BY <1>4, QueuesTyped, AppendProperties
<1>7. acp' = [acp EXCEPT ![s] = [acp[s] EXCEPT !.hand = <<>>]]
  BY <1>2, <1>4, <1>5, <1>6 DEF PumpDelivers, AcpTypeOK
<1>8. /\ acp' \in [Acps -> AcpRecords]
      /\ \A r \in Acps \ {s} : acp'[r] = acp[r]
      /\ acp'[s].hand = <<>>
      /\ acp'[s].process = acp[s].process /\ acp'[s].turn = acp[s].turn
      /\ acp'[s].listener = acp[s].listener /\ acp'[s].agent = acp[s].agent
      /\ acp'[s].events = acp[s].events
  <2> DEFINE r == [acp[s] EXCEPT !.hand = <<>>]
  <2>1. acp \in [Acps -> AcpRecords] /\ acp[s] \in AcpRecords
    BY <1>2 DEF AcpTypeOK
  <2>2. /\ r \in AcpRecords
        /\ r.hand = <<>>
        /\ r.process = acp[s].process /\ r.turn = acp[s].turn
        /\ r.listener = acp[s].listener /\ r.agent = acp[s].agent
        /\ r.events = acp[s].events
    BY <1>2, <2>1, <1>4, <1>5, <1>6 DEF AcpRecords
  <2> HIDE DEF r
  <2>3. acp' = [acp EXCEPT ![s] = r]
    BY <1>7 DEF r
  <2>4. QED
    BY <2>1, <2>2, <2>3
<1>9. /\ prompt' \in [Prompts -> PromptRecords]
      /\ \A u \in Prompts \ {to} : prompt'[u] = prompt[u]
      /\ \A u \in Prompts : /\ prompt'[u].pc = prompt[u].pc /\ prompt'[u].at = prompt[u].at
                            /\ prompt'[u].replied = prompt[u].replied /\ prompt'[u].answer = prompt[u].answer
      /\ prompt'[to].inbox = IF prompt[to].pc = "run" THEN q ELSE prompt[to].inbox
  <2>1. prompt \in [Prompts -> PromptRecords] /\ prompt[to] \in PromptRecords
    BY DEF AcpTypeOK
  <2>2. CASE prompt[to].pc = "run"
    <3> DEFINE r == [prompt[to] EXCEPT !.inbox = q]
    <3>1. /\ r \in PromptRecords
          /\ r.inbox = q /\ r.pc = prompt[to].pc /\ r.at = prompt[to].at
          /\ r.replied = prompt[to].replied /\ r.answer = prompt[to].answer
      BY <2>1 DEF PromptRecords
    <3> HIDE DEF r
    <3>2. prompt' = [prompt EXCEPT ![to] = r]
      BY <1>4, <1>6, <2>2 DEF PumpDelivers, r
    <3>3. QED
      BY <2>1, <2>2, <3>1, <3>2
  <2>3. CASE prompt[to].pc # "run"
    <3>1. prompt' = prompt
      BY <1>4, <2>3 DEF PumpDelivers
    <3>2. QED
      BY <2>1, <2>3, <3>1
  <2>4. QED
    BY <2>2, <2>3
<1>10. AcpTypeOK'
  BY <1>1, <1>2, <1>3, <1>8, <1>9 DEF AcpTypeOK
<1>11. PlaceInv'
  BY <1>1, <1>2, <1>3, <1>8, <1>9 DEF Kinds, PlaceInv, Placed
<1>12. MutexInv'
  BY <1>1, <1>2, <1>3, <1>8, <1>9 DEF Kinds, PlaceInv, Placed, MutexInv
<1>13. ListenerInv'
  BY <1>1, <1>2, <1>3, <1>8, <1>9 DEF Kinds, PlaceInv, Placed, MutexInv, ListenerInv, Live
<1>14. OriginInv'
  <2>1. \A u \in Prompts : prompt'[u].pc \notin {"run", "over"} =>
            said'[u] = 0 /\ prompt'[u].inbox = <<>> /\ prompt'[u].answer = <<>>
    BY <1>1, <1>2, <1>3, <1>8, <1>9 DEF OriginInv, Begun
  <2>2. \A u \in Prompts : prompt'[u].pc = prompt[u].pc /\ prompt'[u].at = prompt[u].at
    BY <1>1, <1>2, <1>3, <1>8, <1>9
  <2>3. \A r \in Acps : \A i \in DOMAIN acp[r].events : acp[r].events[i].turn \in Prompts
    BY WrittenTyped
  <2>4. \A r \in Acps : acp[r].hand # <<>> => acp[r].hand[1].msg.turn \in Prompts /\ acp[r].hand[1].to \in Prompts
    BY HeldTyped
  <2>5. \A r \in Acps : /\ acp'[r].events = acp[r].events /\ acp'[r].hand \in {acp[r].hand, <<>>}
                        /\ acp'[r].listener = acp[r].listener
    BY <1>1, <1>2, <1>3, <1>8, <1>9
  <2>6. QED
    BY <2>1, <2>2, <2>3, <2>4, <2>5 DEF OriginInv, Begun
<1>15. FlowInv'
  <2>1. SUFFICES ASSUME NEW u \in Prompts PROVE FlowOf(u)'
    BY DEF FlowInv
  <2>2. CASE Streaming(u) /\ prompt[u].at = s
    <3>1. acp[s].listener = u /\ HeldBy(s) = <<msg>>
      BY <1>4, <2>2 DEF Streaming, ListenerInv, HeldBy
    <3>2. PICK a \in 0..said[u], b \in 0..said[u], c \in 0..said[u] :
            /\ Numbered(prompt[u].answer, u, 0, a)
            /\ Numbered(prompt[u].inbox, u, a, b)
            /\ Numbered(<<msg>>, u, b, c)
            /\ Numbered(acp[s].events, u, c, said[u])
      BY <2>2, <3>1 DEF FlowInv, FlowOf
    <3>3. said[u] \in Nat /\ a \in Nat /\ b \in Nat /\ c \in Nat /\ prompt[u].inbox \in Seq(Chunks)
      BY <3>2, QueuesTyped
    <3>4. CASE msg.turn = u
      <4>1. to = u
        BY <1>4, <3>1, <3>4 DEF OriginInv
      <4>2. msg.n = b + 1 /\ c = b + 1
        BY <1>4, <3>2, <3>3, <3>4, NumberedOne
      <4>3. Numbered(Append(prompt[u].inbox, msg), u, a, c) /\ Numbered(<<>>, u, c, c)
        BY <1>4, <3>2, <3>3, <3>4, <4>2, NumberedAppend, NumberedEmpty
      <4>4. prompt'[u].inbox = Append(prompt[u].inbox, msg)
        BY <1>1, <1>2, <1>3, <1>8, <1>9, <1>4, <1>5, <1>6, <2>2, <4>1 DEF Streaming
      <4>5. HeldBy(s)' = <<>>
        BY <1>1, <1>2, <1>3, <1>8, <1>9 DEF HeldBy
      <4>6. /\ said' = said /\ prompt'[u].answer = prompt[u].answer /\ prompt'[u].at = s
            /\ acp'[s].events = acp[s].events
        BY <1>1, <1>2, <1>3, <1>8, <1>9, <2>2
      <4>7. QED
        BY <3>2, <4>3, <4>4, <4>5, <4>6 DEF FlowOf
    <3>5. CASE msg.turn # u
      <4>1. b = c
        BY <1>4, <3>2, <3>3, <3>5, NumberedOne
      <4>2. Numbered(Append(prompt[u].inbox, msg), u, a, b) /\ Numbered(<<>>, u, b, b)
        BY <1>4, <3>2, <3>3, <3>5, NumberedAppend, NumberedEmpty
      <4>3. prompt'[u].inbox = Append(prompt[u].inbox, msg) \/ prompt'[u].inbox = prompt[u].inbox
        BY <1>1, <1>2, <1>3, <1>8, <1>9, <1>4, <1>5, <1>6
      <4>4. Numbered(prompt'[u].inbox, u, a, b)
        BY <3>2, <4>2, <4>3
      <4>5. HeldBy(s)' = <<>>
        BY <1>1, <1>2, <1>3, <1>8, <1>9 DEF HeldBy
      <4>6. /\ said' = said /\ prompt'[u].answer = prompt[u].answer /\ prompt'[u].at = s
            /\ acp'[s].events = acp[s].events
        BY <1>1, <1>2, <1>3, <1>8, <1>9, <2>2
      <4>7. QED
        BY <3>2, <4>1, <4>2, <4>4, <4>5, <4>6 DEF FlowOf
    <3>6. QED
      BY <3>4, <3>5
  <2>3. CASE ~(Streaming(u) /\ prompt[u].at = s)
    <3>1. Live(s)
      BY <1>4 DEF ListenerInv
    <3>2. u = to => prompt[u].pc # "run"
      BY <1>4, <2>3, <3>1 DEF OriginInv, Streaming
    <3>3. Spared(u)
      BY <1>1, <1>2, <1>3, <1>8, <1>9, <2>3, <3>1, <3>2 DEF Spared, Streaming, Live, PlaceInv, Placed, Kinds
    <3>4. QED
      BY <3>3, FlowOfKept DEF FlowInv
  <2>4. QED
    BY <2>2, <2>3
<1>16. OnlyOverwrittenLeak'
  BY <1>1, <1>2, <1>3, <1>8, <1>9 DEF Kinds, PlaceInv, Placed, OnlyOverwrittenLeak, Live
<1>17. QED
  BY <1>10, <1>11, <1>12, <1>13, <1>14, <1>15, <1>16

LEMMA AgentWritesKeeps ==
    ASSUME IInv, NEW s \in Acps, AgentWrites(s)
    PROVE  IInv'
<1> USE AcpAssumption DEF IInv
<1>1. Kinds
  BY KindsHold
<1>2. PICK t \in Prompts : t = acp[s].agent /\ acp[s] \in AcpRecords
  BY <1>1 DEF AgentWrites, PlaceInv, Placed, Kinds, ListenerInv, OriginInv, AcpTypeOK
<1>3. UNCHANGED <<slot, prompt, ender, overwritten>>
  BY DEF AgentWrites, AcpTypeOK
<1>4. PICK m \in Chunks :
         m = [turn |-> t, n |-> said[t] + 1] /\ m.turn = t /\ m.n = said[t] + 1
  <2>1. said[t] \in Nat /\ said[t] < MaxChunks
    BY <1>2, QueuesTyped DEF AgentWrites
  <2>2. said[t] + 1 \in 1..MaxChunks
    BY <2>1
  <2>3. [turn |-> t, n |-> said[t] + 1] \in Chunks
    BY <2>2 DEF Chunks
  <2>4. QED
    BY <2>3
<1>5. PICK q \in Seq(Chunks) : q = Append(acp[s].events, m)
  BY <1>4, EventsTyped, AppendProperties
<1>6. /\ Live(s) /\ acp[s].listener = t /\ prompt[t].at = s /\ prompt[t].pc = "run"
  BY <1>2 DEF ListenerInv
<1>7. said[t] \in Nat /\ said[t] < MaxChunks
  BY <1>2, QueuesTyped DEF AgentWrites
<1>8. acp' = [acp EXCEPT ![s] = [acp[s] EXCEPT !.events = q]]
  BY <1>2, <1>4, <1>5, <1>6, <1>7 DEF AgentWrites, AcpTypeOK
<1>9. /\ acp' \in [Acps -> AcpRecords]
      /\ \A r \in Acps \ {s} : acp'[r] = acp[r]
      /\ acp'[s].events = q
      /\ acp'[s].process = acp[s].process /\ acp'[s].turn = acp[s].turn
      /\ acp'[s].listener = acp[s].listener /\ acp'[s].agent = acp[s].agent
      /\ acp'[s].hand = acp[s].hand
  <2> DEFINE r == [acp[s] EXCEPT !.events = q]
  <2>1. acp \in [Acps -> AcpRecords] /\ acp[s] \in AcpRecords
    BY <1>2 DEF AcpTypeOK
  <2>2. /\ r \in AcpRecords
        /\ r.events = q
        /\ r.process = acp[s].process /\ r.turn = acp[s].turn
        /\ r.listener = acp[s].listener /\ r.agent = acp[s].agent /\ r.hand = acp[s].hand
    BY <1>2, <2>1, <1>4, <1>5, <1>6, <1>7 DEF AcpRecords
  <2> HIDE DEF r
  <2>3. acp' = [acp EXCEPT ![s] = r]
    BY <1>8 DEF r
  <2>4. QED
    BY <2>1, <2>2, <2>3
<1>10. /\ said' \in [Prompts -> 0..MaxChunks] /\ said'[t] = said[t] + 1
      /\ \A u \in Prompts \ {t} : said'[u] = said[u]
  BY <1>2, <1>7 DEF AgentWrites, AcpTypeOK
<1>11. AcpTypeOK'
  BY <1>1, <1>2, <1>3, <1>6, <1>9, <1>10 DEF AcpTypeOK
<1>12. PlaceInv'
  BY SMTT(30), <1>1, <1>2, <1>3, <1>6, <1>9, <1>10 DEF Kinds, PlaceInv, Placed
<1>13. MutexInv'
  BY <1>1, <1>2, <1>3, <1>6, <1>9, <1>10 DEF Kinds, PlaceInv, Placed, MutexInv
<1>14. ListenerInv'
  BY <1>1, <1>2, <1>3, <1>6, <1>9, <1>10 DEF Kinds, PlaceInv, Placed, MutexInv, ListenerInv, Live
<1>15. OriginInv'
  <2>1. \A u \in Prompts : ~Begun(u) =>
            u # t /\ said'[u] = 0 /\ prompt[u].inbox = <<>> /\ prompt[u].answer = <<>>
    BY <1>1, <1>2, <1>3, <1>6, <1>9, <1>10 DEF OriginInv, Begun
  <2>2. \A i \in DOMAIN acp'[s].events :
          acp'[s].events[i].turn = t \/ (i \in DOMAIN acp[s].events /\ acp'[s].events[i] = acp[s].events[i])
    BY <1>1, <1>2, <1>3, <1>6, <1>9, <1>10, <1>4, <1>5, <1>6, <1>7
  <2>3. \A i \in DOMAIN acp'[s].events : Begun(acp'[s].events[i].turn)
    BY <1>1, <1>2, <1>3, <1>6, <1>9, <1>10, <1>4, <1>5, <1>6, <1>7, <2>2 DEF OriginInv, Begun
  <2>4. \A r \in Acps \ {s} : \A i \in DOMAIN acp'[r].events : Begun(acp'[r].events[i].turn)
    BY <1>1, <1>2, <1>3, <1>6, <1>9, <1>10 DEF OriginInv
  <2>5. \A r \in Acps : acp'[r].hand = acp[r].hand /\ acp'[r].listener = acp[r].listener
    BY <1>1, <1>2, <1>3, <1>6, <1>9, <1>10
  <2>6. QED
    BY <1>3, <2>1, <2>3, <2>4, <2>5 DEF OriginInv, Begun
<1>16. FlowInv'
  <2>1. ASSUME NEW u \in Prompts, u # t PROVE Spared(u)
    BY <1>1, <1>2, <1>3, <1>6, <1>9, <1>10, <2>1 DEF Spared, Kinds, ListenerInv, PlaceInv, Placed, Live
  <2>2. FlowOf(t)'
    <3>1. Streaming(t)
      BY <1>2, <1>6 DEF Streaming
    <3>2. PICK a \in 0..said[t], b \in 0..said[t], c \in 0..said[t] :
            /\ Numbered(prompt[t].answer, t, 0, a)
            /\ Numbered(prompt[t].inbox, t, a, b)
            /\ Numbered(HeldBy(s), t, b, c)
            /\ Numbered(acp[s].events, t, c, said[t])
      BY <1>2, <1>6, <3>1 DEF FlowInv, FlowOf
    <3>3. /\ c \in Nat /\ m \in Chunks /\ m.turn = t /\ m.n = said[t] + 1 /\ a \in 0..(said[t] + 1)
          /\ b \in 0..(said[t] + 1) /\ c \in 0..(said[t] + 1)
      BY <1>4, <1>7, <3>2
    <3>4. Numbered(acp'[s].events, t, c, said[t] + 1)
      BY SMTT(30), <1>1, <1>2, <1>3, <1>6, <1>9, <1>10, <1>4, <1>5, <1>6, <1>7, <3>2, <3>3, NumberedAppend
    <3>5. HeldBy(s)' = HeldBy(s) /\ prompt' = prompt /\ said'[t] = said[t] + 1
      BY <1>1, <1>2, <1>3, <1>6, <1>9, <1>10 DEF HeldBy
    <3>6. QED
      BY <1>2, <1>6, <3>2, <3>3, <3>4, <3>5 DEF FlowOf
  <2>3. QED
    BY <2>1, <2>2, FlowOfKept DEF FlowInv
<1>17. OnlyOverwrittenLeak'
  BY <1>1, <1>2, <1>3, <1>6, <1>9, <1>10 DEF Kinds, PlaceInv, Placed, OnlyOverwrittenLeak, Live
<1>18. QED
  BY <1>11, <1>12, <1>13, <1>14, <1>15, <1>16, <1>17

-----------------------------------------------------------------------------
(* The invariant.                                                          *)

LEMMA InitHolds == AcpInit => IInv
<1> SUFFICES ASSUME AcpInit PROVE IInv
  OBVIOUS
<1> USE AcpAssumption
<1>1. AcpTypeOK
  <2>1. \A t \in Prompts : prompt[t] \in PromptRecords
    BY DEF AcpInit, NewPrompt, PromptRecords
  <2>2. \A c \in Enders : ender[c] \in EnderRecords
    BY DEF AcpInit, EnderRecords
  <2>3. acp \in [Acps -> AcpRecords]
    BY NewAcpTyped DEF AcpInit
  <2>4. QED
    BY <2>1, <2>2, <2>3 DEF AcpInit, AcpTypeOK
<1>2. \A s \in Acps : /\ acp[s].process = "unborn" /\ acp[s].turn = None /\ acp[s].listener = None
                      /\ acp[s].agent = None /\ acp[s].events = <<>> /\ acp[s].hand = <<>>
  BY DEF AcpInit, NewAcp
<1>3. \A t \in Prompts : /\ prompt[t].pc = "look" /\ prompt[t].at = None /\ prompt[t].replied = FALSE
                         /\ prompt[t].inbox = <<>> /\ prompt[t].answer = <<>> /\ said[t] = 0
  BY DEF AcpInit, NewPrompt
<1>4. slot = None /\ \A c \in Enders : ender[c].pc = "delete"
  BY DEF AcpInit
<1>5. PlaceInv
  BY <1>3, <1>4 DEF PlaceInv, Placed
<1>6. MutexInv
  BY <1>2, <1>3 DEF MutexInv
<1>7. ListenerInv
  BY <1>2, <1>3 DEF ListenerInv, Live
<1>8. OriginInv
  BY <1>2, <1>3 DEF OriginInv, Begun
<1>9. FlowInv
  BY <1>3, NumberedEmpty DEF FlowInv, FlowOf, Streaming
<1>10. OnlyOverwrittenLeak
  BY <1>2 DEF OnlyOverwrittenLeak, Live
<1>11. QED
  BY <1>1, <1>5, <1>6, <1>7, <1>8, <1>9, <1>10 DEF IInv

LEMMA LaunchKeeps ==
    ASSUME IInv, NEW t \in Prompts, LaunchAgy(t)
    PROVE  IInv'
<1>1. CASE /\ UnbornAcps # {}
           /\ LET s == CHOOSE u \in UnbornAcps : TRUE IN
                /\ acp' = [acp EXCEPT ![s].process = "running", ![s].print = prompt[t].print]
                /\ prompt' = [prompt EXCEPT ![t].at = s, ![t].pc = "register"]
  <2>1. PICK s \in Acps : s = (CHOOSE u \in UnbornAcps : TRUE) /\ acp[s].process = "unborn"
    BY <1>1 DEF UnbornAcps
  <2>2. Launched(t, s)
    BY <1>1, <2>1 DEF Launched, LaunchAgy
  <2>3. QED
    BY <2>2, LaunchedKeeps
<1>2. CASE prompt' = [prompt EXCEPT ![t].pc = "over", ![t].result = "error"] /\ UNCHANGED acp
  <2>1. LaunchFailed(t)
    BY <1>2 DEF LaunchFailed, LaunchAgy
  <2>2. QED
    BY <2>1, LaunchFailedKeeps
<1>3. QED
  BY <1>1, <1>2 DEF LaunchAgy

LEMMA PromptKeeps ==
    ASSUME IInv, NEW t \in Prompts, Prompt(t)
    PROVE  IInv'
<1>1. Unprompted(t) \/ Prompted(t)
  BY DEF Prompt, Unprompted, Prompted
<1>2. QED
  BY <1>1, UnpromptedKeeps, PromptedKeeps

LEMMA StutterKeeps == IInv /\ UNCHANGED acpVars => IInv'
  BY DEF acpVars, IInv, AcpTypeOK, PlaceInv, MutexInv, ListenerInv, OriginInv, FlowInv, FlowOf, Streaming,
     HeldBy,
         Begun, Live, OnlyOverwrittenLeak

LEMMA NextKeeps == IInv /\ [AcpNext]_acpVars => IInv'
<1> SUFFICES ASSUME IInv, [AcpNext]_acpVars PROVE IInv'
  OBVIOUS
<1>1. ASSUME NEW t \in Prompts,
             \/ Look(t) \/ Delete(t) \/ EndProcess(t) \/ LaunchAgy(t) \/ RegisterAgy(t) \/ Lock(t) \/ Prompt(t)
             \/ Handle(t) \/ Complete(t) \/ Gone(t) \/ StopPrompt(t) \/ WatchdogFires(t)
      PROVE  IInv'
  BY <1>1, LookKeeps, DeleteKeeps, EndKeeps, LaunchKeeps, RegisterKeeps, LockKeeps, PromptKeeps, HandleKeeps,
     CompleteKeeps, GoneKeeps, StopKeeps, WatchdogFiresKeeps
<1>2. ASSUME NEW c \in Enders, EnderDeletes(c) \/ EnderEnds(c) PROVE IInv'
  BY <1>2, EnderDeletesKeeps, EnderEndsKeeps
<1>3. ASSUME NEW s \in Acps,
             PumpTakes(s) \/ PumpDelivers(s) \/ AgentWrites(s) \/ AgentReplies(s) \/ ProcessDies(s)
      PROVE  IInv'
  BY <1>3, PumpTakesKeeps, PumpDeliversKeeps, AgentWritesKeeps, AgentRepliesKeeps, ProcessDiesKeeps
<1>4. CASE UNCHANGED acpVars
  BY <1>4, StutterKeeps
<1>5. QED
  BY <1>1, <1>2, <1>3, <1>4 DEF AcpNext

(* The conjunction of all parts is an invariant of the sessions of a chat. *)
THEOREM AcpInvariant == AcpSpec => []IInv
<1>1. AcpInit => IInv
  BY InitHolds
<1>2. IInv /\ [AcpNext]_acpVars => IInv'
  BY NextKeeps
<1>3. QED
  BY <1>1, <1>2, PTL DEF AcpSpec

(* Types of the variables.                                                 *)
THEOREM AcpTypeCorrect == AcpSpec => []AcpTypeOK
<1>1. IInv => AcpTypeOK
  BY DEF IInv
<1>2. QED
  BY <1>1, AcpInvariant, PTL

(* "One process per chat": whoever launches, looks, closes or dies in what *)
(* order, a process that runs is in the slot, is held by one call that is  *)
(* about to register or to close it, or lost its slot to another launch.   *)
THEOREM OnlyOverwrittenLeakHolds == AcpSpec => []OnlyOverwrittenLeak
<1>1. IInv => OnlyOverwrittenLeak
  BY DEF IInv
<1>2. QED
  BY <1>1, AcpInvariant, PTL

(* Events go "in order, never dropped": the answer to a prompt is the      *)
(* beginning of what the agent wrote for it, though the response overtakes *)
(* the pump and the chat's turns share one reader and one pump.            *)
THEOREM AnswersHaveNoGapsHolds == AcpSpec => []AnswersHaveNoGaps
<1>1. IInv => AnswersHaveNoGaps
  BY DEF IInv, FlowInv, FlowOf, AnswersHaveNoGaps
<1>2. QED
  BY <1>1, AcpInvariant, PTL
=============================================================================
