-------------------------- MODULE RpcSessionProofs --------------------------
(***************************************************************************)
(* Proofs about RpcSession for both adapters and any number of sessions,   *)
(* processes, calls, closes, idle callbacks, senders and native turns.     *)
(***************************************************************************)
EXTENDS RpcSession, TLAPS

(* What TypeOK says of the records' fields, one by one.                    *)
Kinds ==
    /\ registry \in Sessions \cup {None}
    /\ \A x \in Threads :
        /\ work[x].session \in Sessions \cup {None} /\ work[x].target \in Sessions \cup {None}
        /\ work[x].process \in Procs \cup {None} /\ work[x].turn \in Nat
        /\ work[x].scope \in Scopes \cup {None}
    /\ \A s \in Sessions :
        /\ session[s].turn \in Calls \cup Callbacks \cup {None} /\ session[s].rpc \in Procs \cup {None}
        /\ session[s].active \in Nat /\ session[s].active <= MaxTurns /\ session[s].steers \subseteq Senders
    /\ \A p \in Procs :
        /\ process[p].turns \in Nat /\ process[p].turns <= MaxTurns /\ process[p].busy \in BOOLEAN
        /\ process[p].queued \subseteq Senders /\ process[p].items \subseteq Senders

LEMMA KindsHold == TypeOK => Kinds
  BY RpcAssumption DEF TypeOK, SessionRecords, ProcessRecords, WorkRecords, Kinds

(* A goroutine that serves a session holds its turn mutex at these labels; *)
(* a closer serves none, it has a target.                                  *)
Holding == {"choose", "launch", "replace", "attach", "start", "follow", "followup", "abort", "end",
            "take", "closing", "expire"}
Following == {"follow", "followup"}

(* A sender has written its request at some labels; the server took the    *)
(* input at some of them, and the session may know of it at some.          *)
Sending == {"idle", "read", "steer", "late", "taken", "refused", "sent", "lost", "rejected"}
Written == {"steer", "late", "taken", "refused", "sent", "lost", "rejected"}
Accepted == {"taken", "sent"}
Known == {"steer", "taken", "refused", "sent"}

PlaceInv ==
    /\ \A t \in Calls : /\ work[t].pc \in Holding \cup {"idle", "lock"} /\ work[t].pc # "expire"
                        /\ work[t].session # None <=> work[t].pc # "idle"
    /\ \A c \in Closers : work[c].pc \in {"idle", "take", "closing"} /\ work[c].session = None
    /\ \A k \in Callbacks : /\ work[k].pc \in {"idle", "fired", "expire", "closing"}
                            /\ work[k].session # None <=> work[k].pc # "idle"
    /\ \A d \in Senders : work[d].pc \in Sending /\ work[d].session = None
    /\ \A x \in Threads :
        /\ work[x].pc \in {"take", "read", "steer", "taken", "refused"} => work[x].target # None
        /\ work[x].pc \in {"replace", "attach", "start", "follow", "followup", "abort", "closing"} \cup Written =>
              work[x].process # None /\ process[work[x].process].state # "unborn"

(* The turn mutex has the holder it says.                                  *)
MutexInv == \A s \in Sessions, x \in Calls \cup Callbacks :
    session[s].turn = x <=> work[x].session = s /\ work[x].pc \in Holding

(* A session's process was launched, for the session's scope, and belongs  *)
(* to no other session.                                                    *)
RpcInv ==
    /\ \A s \in Sessions : session[s].rpc # None =>
        /\ process[session[s].rpc].state # "unborn"
        /\ process[session[s].rpc].scope = session[s].scope
    /\ \A s, o \in Sessions : session[s].rpc # None /\ session[s].rpc = session[o].rpc => s = o

(* A process that was just launched belongs to no session and to one call, *)
(* whose session has no process that still runs.                           *)
LaunchInv ==
    /\ \A t \in Calls : work[t].pc \in {"launch", "attach"} =>
        session[work[t].session].rpc = None \/ ~Running(session[work[t].session].rpc)
    /\ \A t \in Calls : work[t].pc = "attach" =>
        /\ process[work[t].process].scope = work[t].scope
        /\ \A s \in Sessions : session[s].rpc # work[t].process
        /\ \A u \in Calls : work[u].pc = "attach" /\ work[u].process = work[t].process => u = t

(* A call works with the process of its session.                           *)
CallInv == \A t \in Calls :
    /\ work[t].pc \in {"replace", "start", "follow", "followup"} =>
        session[work[t].session].rpc = work[t].process
    /\ work[t].pc \in {"start", "follow", "followup"} =>
        session[work[t].session].scope = work[t].scope

(* A session has an active turn only while a call follows it or winds up,  *)
(* and then it is one its process has begun.                               *)
ActiveInv ==
    /\ \A s \in Sessions : session[s].active # 0 =>
        /\ session[s].turn \in Calls
        /\ work[session[s].turn].pc \in {"follow", "followup", "abort", "end"}
        /\ session[s].rpc # None
        /\ session[s].active <= process[session[s].rpc].turns
    /\ \A t \in Calls : work[t].pc \in Following => session[work[t].session].active # 0

(* Steers are for turns their process has begun.  One that the server has  *)
(* not seen is registered with the session of its process, unless that     *)
(* process has gone on to another turn and will refuse it; and the steers  *)
(* of an active session are for its process and no later turn.             *)
SteerInv ==
    /\ \A d \in Senders : work[d].pc \in Written => work[d].turn <= process[work[d].process].turns
    /\ \A d \in Senders : work[d].pc = "steer" /\ Running(work[d].process) =>
        /\ session[work[d].target].rpc = work[d].process
        /\ d \in session[work[d].target].steers \/ work[d].turn < process[work[d].process].turns
    /\ \A s \in Sessions, d \in Senders : d \in session[s].steers =>
        /\ work[d].pc \in Known /\ (work[d].pc # "sent" => work[d].target = s)
        /\ session[s].active # 0 => work[d].process = session[s].rpc /\ work[d].turn <= session[s].active

(* What a process took was sent to it, and it is queued or consumed, not   *)
(* both; a turn that failed left nothing in the queue, and a process that  *)
(* was not launched has run nothing.                                       *)
QueueInv == \A p \in Procs :
    /\ \A d \in process[p].queued \cup process[p].items :
        work[d].pc \in Accepted \cup {"lost"} /\ work[d].process = p
    /\ process[p].queued \cap process[p].items = {}
    /\ ~process[p].busy /\ process[p].result = "failed" => process[p].queued = {}
    /\ process[p].state = "unborn" => ~process[p].busy /\ process[p].queued = {}

(* A sender gave up on input that p took, before the turn p is in.         *)
Lost(p) == \E d \in Senders : GaveUp(d, p)
LostBefore(p) == \E d \in Senders : GaveUp(d, p) /\ work[d].turn < process[p].turns

(* What is queued is registered with the session of the call that follows, *)
(* or a sender gave up; if the process has gone on to a turn of its own,   *)
(* that turn has input of the session, or of a sender who gave up; a call  *)
(* that waits for that turn has seen the end of its own.                   *)
FollowInv == adapter = "codex" => \A t \in Calls : work[t].pc \in Following =>
    LET p == work[t].process  s == work[t].session IN
    /\ Running(p) => process[p].queued \subseteq session[s].steers \/ Lost(p)
    /\ ~Followed(t) => (\E d \in session[s].steers : work[d].pc \in Accepted) \/ LostBefore(p)
    /\ work[t].pc = "followup" /\ Followed(t) => ~process[p].busy

(* A process that runs a turn, or will run one of its own, is followed, or *)
(* a sender gave up.                                                       *)
ObservedInv == adapter = "codex" => \A p \in Procs : Running(p) =>
    \/ \E t \in Calls : work[t].process = p /\ work[t].pc \in Following
    \/ LostBefore(p)
    \/ ~process[p].busy /\ (process[p].queued = {} \/ Lost(p))

IInv == /\ TypeOK /\ PlaceInv /\ MutexInv /\ RpcInv /\ LaunchInv /\ CallInv /\ ActiveInv
        /\ SteerInv /\ QueueInv /\ FollowInv /\ ObservedInv

(* A new object or process is one of those nobody refers to.               *)
LEMMA FreshIsMember == ASSUME NEW S, NEW o \in Fresh(S)
                       PROVE  o \in S
  BY DEF Fresh

(* What a stop of p may change: the state of p.                            *)
Halted(p) ==
    /\ process' \in [Procs -> ProcessRecords]
    /\ \A q \in Procs :
        /\ process'[q].scope = process[q].scope /\ process'[q].busy = process[q].busy
        /\ process'[q].turns = process[q].turns /\ process'[q].result = process[q].result
        /\ process'[q].queued = process[q].queued /\ process'[q].items = process[q].items
        /\ process'[q].state = "running" => process[q].state = "running"
        /\ process'[q].state = "unborn" <=> process[q].state = "unborn"
    /\ process'[p].state # "running"

LEMMA FinishedIsHalted ==
    ASSUME process \in [Procs -> ProcessRecords], NEW p \in Procs, process' = Finished(p)
    PROVE  Halted(p)
  BY DEF Finished, ProcessRecords, Halted

(* FollowInv of one call, and ObservedInv of one process, after a step.    *)
LostThen(q) == \E d \in Senders : work'[d].pc = "lost" /\ work'[d].process = q
LostBeforeThen(q) ==
    \E d \in Senders : work'[d].pc = "lost" /\ work'[d].process = q /\ work'[d].turn < process'[q].turns
FollowsThen(u) ==
    LET q == work'[u].process  o == work'[u].session IN
    /\ process'[q].state = "running" => process'[q].queued \subseteq session'[o].steers \/ LostThen(q)
    /\ process'[q].turns # session'[o].active =>
          (\E d \in session'[o].steers : work'[d].pc \in Accepted) \/ LostBeforeThen(q)
    /\ work'[u].pc = "followup" /\ process'[q].turns = session'[o].active => ~process'[q].busy
ObservedThen(q) ==
    \/ \E t \in Calls : work'[t].process = q /\ work'[t].pc \in Following
    \/ LostBeforeThen(q)
    \/ ~process'[q].busy /\ (process'[q].queued = {} \/ LostThen(q))

LEMMA FollowNext ==
    ASSUME \A u \in Calls : adapter' = "codex" /\ work'[u].pc \in Following => FollowsThen(u)
    PROVE  FollowInv'
  BY DEF FollowInv, FollowsThen, Followed, Running, Lost, LostBefore, GaveUp, At, LostThen, LostBeforeThen

LEMMA ObservedNext ==
    ASSUME \A q \in Procs : adapter' = "codex" /\ process'[q].state = "running" => ObservedThen(q)
    PROVE  ObservedInv'
  BY DEF ObservedInv, ObservedThen, Running, Lost, LostBefore, GaveUp, At, LostThen, LostBeforeThen

(* What a call that follows a turn, and a process that runs, have now.     *)
LEMMA FollowNow ==
    ASSUME IInv, adapter = "codex", NEW u \in Calls, work[u].pc \in Following
    PROVE  LET q == work[u].process  o == work[u].session IN
           /\ q \in Procs /\ o \in Sessions /\ session[o].rpc = q /\ session[o].turn = u
           /\ session[o].steers \subseteq Senders
           /\ process[q].state = "running" => process[q].queued \subseteq session[o].steers \/ Lost(q)
           /\ process[q].turns # session[o].active =>
                 (\E d \in session[o].steers : work[d].pc \in Accepted) \/ LostBefore(q)
           /\ work[u].pc = "followup" /\ process[q].turns = session[o].active => ~process[q].busy
<1>1. Kinds /\ u \in Threads /\ work[u].process # None /\ work[u].session # None
  BY KindsHold, RpcAssumption DEF IInv, PlaceInv, Following, Threads
<1>2. /\ work[u].process \in Procs /\ work[u].session \in Sessions
      /\ session[work[u].session].rpc = work[u].process /\ session[work[u].session].turn = u
      /\ session[work[u].session].steers \subseteq Senders
  BY <1>1 DEF IInv, Kinds, CallInv, MutexInv, Holding, Following
<1>3. QED
  BY <1>2 DEF IInv, FollowInv, Followed, Running

LEMMA ObservedNow ==
    ASSUME IInv, adapter = "codex", NEW q \in Procs, process[q].state = "running"
    PROVE  \/ \E t \in Calls : work[t].process = q /\ work[t].pc \in Following
           \/ LostBefore(q)
           \/ ~process[q].busy /\ (process[q].queued = {} \/ Lost(q))
  BY DEF IInv, ObservedInv, Running

(* Two calls follow the processes of two sessions.                         *)
LEMMA FollowersDiffer ==
    ASSUME IInv, NEW t \in Calls, NEW u \in Calls, u # t, work[u].pc \in Following,
           work[t].pc \in {"start", "follow", "followup"}
    PROVE  work[u].session # work[t].session /\ work[u].process # work[t].process
<1>1. \A x \in {t, u} : /\ work[x].session \in Sessions /\ work[x].process # None
                        /\ session[work[x].session].turn = x
                        /\ session[work[x].session].rpc = work[x].process
  BY KindsHold, RpcAssumption DEF IInv, Kinds, PlaceInv, Following, Threads, CallInv, MutexInv, Holding
<1>2. QED
  BY <1>1 DEF IInv, RpcInv

(* A sender who gave up stays one who gave up.                             *)
LEMMA LossBeforeIsLoss == ASSUME NEW q, LostBefore(q)
                          PROVE  Lost(q)
  BY DEF Lost, LostBefore

LEMMA LossIsKept ==
    ASSUME Kinds, \A d \in Senders : work[d].pc = "lost" => work'[d] = work[d],
           NEW q \in Procs, process'[q].turns \in Nat, process[q].turns <= process'[q].turns
    PROVE  (Lost(q) => LostThen(q)) /\ (LostBefore(q) => LostBeforeThen(q))
<1>1. Lost(q) => LostThen(q)
  BY DEF Lost, GaveUp, At, LostThen
<1>2. ASSUME LostBefore(q) PROVE LostBeforeThen(q)
  <2>1. PICK d \in Senders : work[d].pc = "lost" /\ work[d].process = q /\ work[d].turn < process[q].turns
    BY <1>2 DEF LostBefore, GaveUp, At
  <2>2. work'[d] = work[d] /\ work[d].turn \in Nat /\ process[q].turns \in Nat
    BY <2>1 DEF Kinds, Threads
  <2>3. work'[d].turn < process'[q].turns
    BY <2>1, <2>2
  <2>4. QED
    BY <2>1, <2>2, <2>3 DEF LostBeforeThen
<1>3. QED
  BY <1>1, <1>2

LEMMA LossComesBefore ==
    ASSUME Kinds, SteerInv, work' = work, NEW q \in Procs, process'[q].turns = process[q].turns + 1, Lost(q)
    PROVE  LostBeforeThen(q)
<1>1. PICK d \in Senders : work[d].pc = "lost" /\ work[d].process = q
  BY DEF Lost, GaveUp, At
<1>2. work[d].turn <= process[q].turns /\ work[d].turn \in Nat /\ process[q].turns \in Nat
  BY <1>1 DEF SteerInv, Written, Kinds, Threads
<1>3. work[d].turn < process'[q].turns
  BY <1>2
<1>4. QED
  BY <1>1, <1>3 DEF LostBeforeThen

(* A step elsewhere leaves a call that follows a turn as it was.           *)
LEMMA OtherFollows ==
    ASSUME IInv, adapter = "codex", NEW u \in Calls, work[u].pc \in Following, work'[u] = work[u],
           session'[work[u].session] = session[work[u].session],
           process'[work[u].process] = process[work[u].process],
           \A d \in Senders : work'[d] = work[d]
    PROVE  FollowsThen(u)
<1> DEFINE q == work[u].process
           o == work[u].session
<1>1. /\ Kinds /\ q \in Procs /\ session[o].steers \subseteq Senders
      /\ process[q].state = "running" => process[q].queued \subseteq session[o].steers \/ Lost(q)
      /\ process[q].turns # session[o].active =>
            (\E d \in session[o].steers : work[d].pc \in Accepted) \/ LostBefore(q)
      /\ work[u].pc = "followup" /\ process[q].turns = session[o].active => ~process[q].busy
  BY FollowNow, KindsHold DEF IInv
<1>2. (Lost(q) => LostThen(q)) /\ (LostBefore(q) => LostBeforeThen(q))
  <2>1. process'[q].turns \in Nat /\ process[q].turns <= process'[q].turns
    BY <1>1 DEF Kinds
  <2>2. QED
    BY <1>1, <2>1, LossIsKept
<1>3. QED
  BY <1>1, <1>2 DEF FollowsThen

(* A step that leaves the calls that go on following a turn alone.         *)
SparesFollowers ==
    /\ adapter' = adapter
    /\ \A u \in Calls : work'[u].pc \in Following =>
        /\ work[u].pc \in Following /\ work'[u] = work[u]
        /\ session'[work[u].session].active = session[work[u].session].active
        /\ session[work[u].session].steers \subseteq session'[work[u].session].steers
    /\ \A p \in Procs :
        /\ process'[p].turns = process[p].turns /\ process'[p].busy = process[p].busy
        /\ process'[p].queued = process[p].queued
        /\ process'[p].state = "running" => process[p].state = "running" \/ (~process[p].busy /\ process[p].queued = {})
    /\ \A d \in Senders : work[d].pc \in Accepted => work'[d].pc \in Accepted
    /\ \A d \in Senders : work[d].pc = "lost" => work'[d] = work[d]

(* A step that makes no call stop following its turn.                      *)
KeepsFollowers == \A u \in Calls : work[u].pc \in Following => work'[u] = work[u]

LEMMA SparedFollowers ==
    ASSUME IInv, SparesFollowers
    PROVE  FollowInv' /\ (KeepsFollowers => ObservedInv')
<1> USE DEF Following
<1>1. Kinds /\ PlaceInv
  BY KindsHold DEF IInv
<1>2. \A q \in Procs : (Lost(q) => LostThen(q)) /\ (LostBefore(q) => LostBeforeThen(q))
  <2>1. \A d \in Senders : work[d].pc = "lost" => work'[d] = work[d]
    BY DEF SparesFollowers
  <2>2. \A q \in Procs : process'[q].turns \in Nat /\ process[q].turns <= process'[q].turns
    BY <1>1 DEF SparesFollowers, Kinds
  <2>3. QED
    BY <1>1, <2>1, <2>2, LossIsKept
<1>3. FollowInv'
  <2> SUFFICES ASSUME adapter' = "codex", NEW u \in Calls, work'[u].pc \in Following
               PROVE  FollowsThen(u)
    BY FollowNext
  <2> DEFINE q == work[u].process
             o == work[u].session
  <2>1. work[u].pc \in Following /\ work'[u] = work[u] /\ adapter = "codex"
    BY DEF SparesFollowers
  <2>2. /\ q \in Procs /\ o \in Sessions /\ session[o].steers \subseteq Senders
        /\ process[q].state = "running" => process[q].queued \subseteq session[o].steers \/ Lost(q)
        /\ process[q].turns # session[o].active =>
              (\E d \in session[o].steers : work[d].pc \in Accepted) \/ LostBefore(q)
        /\ work[u].pc = "followup" /\ process[q].turns = session[o].active => ~process[q].busy
    BY <2>1, FollowNow
  <2>3. /\ session'[o].active = session[o].active /\ session[o].steers \subseteq session'[o].steers
        /\ process'[q].turns = process[q].turns /\ process'[q].busy = process[q].busy
        /\ process'[q].queued = process[q].queued
        /\ process'[q].state = "running" => process[q].state = "running" \/ process[q].queued = {}
        /\ \A d \in Senders : work[d].pc \in Accepted => work'[d].pc \in Accepted
    <3>1. session'[o].active = session[o].active /\ session[o].steers \subseteq session'[o].steers
      BY DEF SparesFollowers
    <3>2. /\ process'[q].turns = process[q].turns /\ process'[q].busy = process[q].busy
          /\ process'[q].queued = process[q].queued
          /\ process'[q].state = "running" => process[q].state = "running" \/ process[q].queued = {}
      BY <2>2 DEF SparesFollowers
    <3>3. \A d \in Senders : work[d].pc \in Accepted => work'[d].pc \in Accepted
      BY DEF SparesFollowers
    <3>4. QED
      BY <3>1, <3>2, <3>3
  <2>4. process'[q].state = "running" => process'[q].queued \subseteq session'[o].steers \/ LostThen(q)
    BY <1>2, <2>2, <2>3
  <2>5. process'[q].turns # session'[o].active =>
            (\E d \in session'[o].steers : work'[d].pc \in Accepted) \/ LostBeforeThen(q)
    BY <1>2, <2>2, <2>3
  <2>6. QED
    BY <2>1, <2>2, <2>3, <2>4, <2>5 DEF FollowsThen
<1>4. ASSUME KeepsFollowers PROVE ObservedInv'
  <2> SUFFICES ASSUME adapter' = "codex", NEW q \in Procs, process'[q].state = "running"
               PROVE  ObservedThen(q)
    BY ObservedNext
  <2>1. CASE process[q].state = "running"
    BY <1>2, <1>4, <2>1, ObservedNow DEF SparesFollowers, KeepsFollowers, ObservedThen
  <2>2. CASE ~process[q].busy /\ process[q].queued = {}
    BY <2>2 DEF SparesFollowers, ObservedThen
  <2>3. QED
    BY <2>1, <2>2 DEF SparesFollowers
<1>5. QED
  BY <1>3, <1>4

-----------------------------------------------------------------------------
LEMMA CallKeeps ==
    ASSUME IInv, NEW t \in Calls, Call(t)
    PROVE  IInv'
<1> USE RpcAssumption DEF IInv, Threads, Sending, Written, Known, Accepted
<1>1. Kinds /\ work[t].pc = "idle"
  BY KindsHold DEF Kinds, PlaceInv, Holding, Call, At
<1>2. /\ work \in [Threads -> WorkRecords]
      /\ session \in [Sessions -> SessionRecords] /\ process \in [Procs -> ProcessRecords]
      /\ work[t] \in WorkRecords
  BY <1>1 DEF TypeOK
<1>3. /\ UNCHANGED <<adapter, process>>
      /\ counts' \in [calls : 0..MaxCalls, closes : 0..MaxCloses]
  BY <1>1 DEF Call, TypeOK, At
<1>4. CASE /\ registry # None /\ UNCHANGED <<registry, session>>
           /\ work' = [work EXCEPT ![t] = [Idle EXCEPT !.pc = "lock", !.session = registry]]
  <2>1. UNCHANGED <<registry, session>> /\ registry \in Sessions
    BY <1>1, <1>2, <1>3, <1>4 DEF Idle, Kinds
  <2>2. Idle \in WorkRecords
    BY DEF Idle, WorkRecords, Labels
  <2>3. [Idle EXCEPT !.pc = "lock", !.session = registry] \in WorkRecords
    BY <1>2, <2>1, <2>2 DEF WorkRecords, Labels
  <2>4. work' = [work EXCEPT ![t] = [Idle EXCEPT !.pc = "lock", !.session = registry]]
    BY <1>4
  <2>5. work' \in [Threads -> WorkRecords]
    BY <1>2, <2>3, <2>4
  <2>6. /\ \A y \in Threads \ {t} : work'[y] = work[y]
        /\ work'[t].pc = "lock" /\ work'[t].session = registry /\ work'[t].target = None
        /\ work'[t].process = None /\ work'[t].scope = None /\ work'[t].failed = FALSE
        /\ work'[t].turn = 0
    BY <1>1, <1>2, <2>1, <2>4 DEF Idle
  <2>7. TypeOK'
    BY <1>1, <1>3, <2>1, <2>5, <2>6 DEF TypeOK
  <2>8. PlaceInv' /\ MutexInv'
    BY <1>1, <1>3, <2>1, <2>5, <2>6 DEF Kinds, PlaceInv, MutexInv, Holding
  <2>9. RpcInv'
    BY <1>1, <1>3, <2>1, <2>5, <2>6 DEF Kinds, RpcInv, LaunchInv
  <2>10. LaunchInv' /\ CallInv'
    BY <1>1, <1>3, <2>1, <2>5, <2>6 DEF Kinds, PlaceInv, MutexInv, Holding, Running, RpcInv,
       LaunchInv, CallInv
  <2>11. ActiveInv'
    BY <1>1, <1>3, <2>1, <2>5, <2>6 DEF Kinds, PlaceInv, MutexInv, Holding, Following, LaunchInv,
       CallInv, ActiveInv
  <2>12. SteerInv'
    BY <1>1, <1>3, <2>1, <2>5, <2>6 DEF Kinds, PlaceInv, Running, RpcInv, LaunchInv, CallInv,
       ActiveInv, QueueInv, SteerInv
  <2>13. QueueInv'
    BY <1>1, <1>3, <2>1, <2>5, <2>6 DEF Kinds, PlaceInv, QueueInv
  <2>14. SparesFollowers /\ KeepsFollowers
    BY <1>1, <1>3, <2>1, <2>5, <2>6 DEF SparesFollowers, KeepsFollowers, Following, Kinds, PlaceInv,
       MutexInv, Holding, QueueInv
  <2>15. FollowInv' /\ ObservedInv'
    BY <2>14, SparedFollowers
  <2>16. QED
    BY <2>7, <2>8, <2>9, <2>10, <2>11, <2>12, <2>13, <2>15
<1>5. CASE \E s \in Unreferenced :
           /\ registry = None /\ registry' = s /\ session' = [session EXCEPT ![s] = NewSession]
           /\ work' = [work EXCEPT ![t] = [Idle EXCEPT !.pc = "lock", !.session = s]]
  <2>1. PICK s \in Unreferenced :
           /\ registry = None /\ registry' = s /\ session' = [session EXCEPT ![s] = NewSession]
           /\ work' = [work EXCEPT ![t] = [Idle EXCEPT !.pc = "lock", !.session = s]]
    BY <1>1, <1>2, <1>3, <1>5
  <2>2. /\ registry' = s /\ s \in Sessions
        /\ \A y \in Threads : work[y].session # s /\ work[y].target # s
        /\ session[s].rpc # None => ~Running(session[s].rpc)
    BY <1>1, <1>2, <1>3, <1>5, <2>1 DEF Idle, NewSession, Unreferenced
  <2>3. Idle \in WorkRecords
    BY DEF Idle, WorkRecords, Labels
  <2>4. [Idle EXCEPT !.pc = "lock", !.session = s] \in WorkRecords
    BY <1>2, <2>2, <2>3 DEF WorkRecords, Labels
  <2>5. work' = [work EXCEPT ![t] = [Idle EXCEPT !.pc = "lock", !.session = s]]
    BY <2>1
  <2>6. work' \in [Threads -> WorkRecords]
    BY <1>2, <2>4, <2>5
  <2>7. /\ \A y \in Threads \ {t} : work'[y] = work[y]
        /\ work'[t].pc = "lock" /\ work'[t].session = s /\ work'[t].target = None
        /\ work'[t].process = None /\ work'[t].scope = None /\ work'[t].failed = FALSE
        /\ work'[t].turn = 0
    BY <1>1, <1>2, <2>2, <2>5 DEF Idle
  <2>8. NewSession \in SessionRecords
    BY DEF NewSession, SessionRecords
  <2>9. session' = [session EXCEPT ![s] = NewSession]
    BY <2>1
  <2>10. session' \in [Sessions -> SessionRecords]
    BY <1>2, <2>8, <2>9
  <2>11. /\ \A o \in Sessions \ {s} : session'[o] = session[o]
         /\ session'[s].turn = None /\ session'[s].rpc = None /\ session'[s].scope = None
         /\ session'[s].timer = FALSE /\ session'[s].active = 0 /\ session'[s].steers = {}
    BY <1>1, <1>2, <2>2, <2>9 DEF NewSession
  <2>12. TypeOK'
    BY <1>1, <1>3, <2>2, <2>6, <2>7, <2>10, <2>11 DEF TypeOK
  <2>13. PlaceInv' /\ MutexInv'
    BY <1>1, <1>3, <2>2, <2>6, <2>7, <2>10, <2>11 DEF Kinds, PlaceInv, MutexInv, Holding
  <2>14. RpcInv'
    BY <1>1, <1>3, <2>2, <2>6, <2>7, <2>10, <2>11 DEF Kinds, RpcInv, LaunchInv
  <2>15. LaunchInv' /\ CallInv'
    BY <1>1, <1>3, <2>2, <2>6, <2>7, <2>10, <2>11 DEF Kinds, PlaceInv, MutexInv, Holding, Running,
       RpcInv, LaunchInv, CallInv
  <2>16. ActiveInv'
    BY <1>1, <1>3, <2>2, <2>6, <2>7, <2>10, <2>11 DEF Kinds, PlaceInv, MutexInv, Holding, Following,
       LaunchInv, CallInv, ActiveInv
  <2>17. SteerInv'
    BY <1>1, <1>3, <2>2, <2>6, <2>7, <2>10, <2>11 DEF Kinds, PlaceInv, Running, RpcInv, LaunchInv,
       CallInv, ActiveInv, QueueInv, SteerInv
  <2>18. QueueInv'
    BY <1>1, <1>3, <2>2, <2>6, <2>7, <2>10, <2>11 DEF Kinds, PlaceInv, QueueInv
  <2>19. SparesFollowers /\ KeepsFollowers
    BY <1>1, <1>3, <2>2, <2>6, <2>7, <2>10, <2>11 DEF SparesFollowers, KeepsFollowers, Following,
       Kinds, PlaceInv, MutexInv, Holding, QueueInv
  <2>20. FollowInv' /\ ObservedInv'
    BY <2>19, SparedFollowers
  <2>21. QED
    BY <2>12, <2>13, <2>14, <2>15, <2>16, <2>17, <2>18, <2>20
<1>6. QED
  BY <1>1, <1>4, <1>5, FreshIsMember DEF Call, Kinds, Unreferenced

LEMMA LockTurnKeeps ==
    ASSUME IInv, NEW t \in Calls, LockTurn(t)
    PROVE  IInv'
<1> USE RpcAssumption DEF IInv, Threads, Sending, Written, Known, Accepted
<1> DEFINE s == work[t].session
<1>1. Kinds /\ work[t].pc = "lock" /\ s \in Sessions
  BY KindsHold DEF Kinds, PlaceInv, Holding, LockTurn, At
<1>2. /\ work \in [Threads -> WorkRecords]
      /\ session \in [Sessions -> SessionRecords] /\ process \in [Procs -> ProcessRecords]
      /\ work[t] \in WorkRecords /\ work[t].session \in Sessions /\ session[s] \in SessionRecords
  BY <1>1 DEF TypeOK
<1>3. UNCHANGED <<adapter, registry, process, counts>>
  BY DEF LockTurn, TypeOK, At
<1>4. CASE session[s].turn # None /\ Return(t) /\ UNCHANGED session
  <2>1. UNCHANGED session
    BY <1>1, <1>2, <1>3, <1>4 DEF Return, Idle
  <2>2. /\ work' \in [Threads -> WorkRecords]
        /\ \A y \in Threads \ {t} : work'[y] = work[y]
        /\ work'[t].pc = "idle" /\ work'[t].session = None /\ work'[t].target = None
        /\ work'[t].process = None /\ work'[t].scope = None /\ work'[t].failed = FALSE
        /\ work'[t].turn = 0
    BY <1>1, <1>2, <1>3, <1>4, <2>1 DEF Return, Idle, WorkRecords, Labels
  <2>3. TypeOK'
    BY <1>1, <1>3, <2>1, <2>2 DEF TypeOK
  <2>4. PlaceInv' /\ MutexInv'
    BY <1>1, <1>3, <2>1, <2>2 DEF Kinds, PlaceInv, MutexInv, Holding
  <2>5. RpcInv'
    BY <1>1, <1>3, <2>1, <2>2 DEF Kinds, RpcInv, LaunchInv
  <2>6. LaunchInv' /\ CallInv'
    BY <1>1, <1>3, <2>1, <2>2 DEF Kinds, PlaceInv, MutexInv, Holding, Running, RpcInv, LaunchInv,
       CallInv
  <2>7. ActiveInv'
    BY <1>1, <1>3, <2>1, <2>2 DEF Kinds, PlaceInv, MutexInv, Holding, Following, LaunchInv, CallInv,
       ActiveInv
  <2>8. SteerInv'
    BY <1>1, <1>3, <2>1, <2>2 DEF Kinds, PlaceInv, Running, RpcInv, LaunchInv, CallInv, ActiveInv,
       QueueInv, SteerInv
  <2>9. QueueInv'
    BY <1>1, <1>3, <2>1, <2>2 DEF Kinds, PlaceInv, QueueInv
  <2>10. SparesFollowers /\ KeepsFollowers
    BY <1>1, <1>3, <2>1, <2>2 DEF SparesFollowers, KeepsFollowers, Following, Kinds, PlaceInv,
       MutexInv, Holding, QueueInv
  <2>11. FollowInv' /\ ObservedInv'
    BY <2>10, SparedFollowers
  <2>12. QED
    BY <2>3, <2>4, <2>5, <2>6, <2>7, <2>8, <2>9, <2>11
<1>5. CASE /\ session[s].turn = None
           /\ session' = [session EXCEPT ![s].turn = t, ![s].timer = FALSE]
           /\ Step(t, "choose")
  <2>1. session[s].turn = None
    BY <1>1, <1>2, <1>3, <1>5 DEF Step
  <2>2. /\ work' \in [Threads -> WorkRecords]
        /\ \A y \in Threads \ {t} : work'[y] = work[y]
        /\ work'[t].pc = "choose"
        /\ work'[t].session = work[t].session /\ work'[t].target = work[t].target
        /\ work'[t].process = work[t].process /\ work'[t].scope = work[t].scope
        /\ work'[t].failed = work[t].failed /\ work'[t].turn = work[t].turn
    BY <1>1, <1>2, <1>3, <1>5, <2>1 DEF Step, WorkRecords, Labels
  <2>3. /\ session' \in [Sessions -> SessionRecords]
        /\ \A o \in Sessions \ {s} : session'[o] = session[o]
        /\ session'[s].turn = t /\ session'[s].timer = FALSE
        /\ session'[s].rpc = session[s].rpc /\ session'[s].scope = session[s].scope
        /\ session'[s].active = session[s].active /\ session'[s].steers = session[s].steers
    BY <1>1, <1>2, <1>3, <1>5, <2>1 DEF SessionRecords
  <2>4. TypeOK'
    BY <1>1, <1>3, <2>1, <2>2, <2>3 DEF TypeOK
  <2>5. PlaceInv' /\ MutexInv'
    BY <1>1, <1>3, <2>1, <2>2, <2>3 DEF Kinds, PlaceInv, MutexInv, Holding
  <2>6. RpcInv'
    BY <1>1, <1>3, <2>1, <2>2, <2>3 DEF Kinds, RpcInv, LaunchInv
  <2>7. LaunchInv' /\ CallInv'
    BY <1>1, <1>3, <2>1, <2>2, <2>3 DEF Kinds, PlaceInv, MutexInv, Holding, Running, RpcInv,
       LaunchInv, CallInv
  <2>8. ActiveInv'
    BY <1>1, <1>3, <2>1, <2>2, <2>3 DEF Kinds, PlaceInv, MutexInv, Holding, Following, LaunchInv,
       CallInv, ActiveInv
  <2>9. SteerInv'
    BY <1>1, <1>3, <2>1, <2>2, <2>3 DEF Kinds, PlaceInv, Running, RpcInv, LaunchInv, CallInv,
       ActiveInv, QueueInv, SteerInv
  <2>10. QueueInv'
    BY <1>1, <1>3, <2>1, <2>2, <2>3 DEF Kinds, PlaceInv, QueueInv
  <2>11. SparesFollowers /\ KeepsFollowers
    BY <1>1, <1>3, <2>1, <2>2, <2>3 DEF SparesFollowers, KeepsFollowers, Following, Kinds, PlaceInv,
       MutexInv, Holding, QueueInv
  <2>12. FollowInv' /\ ObservedInv'
    BY <2>11, SparedFollowers
  <2>13. QED
    BY <2>4, <2>5, <2>6, <2>7, <2>8, <2>9, <2>10, <2>12
<1>6. QED
  BY <1>1, <1>4, <1>5 DEF LockTurn

LEMMA ChooseKeeps ==
    ASSUME IInv, NEW t \in Calls, Choose(t)
    PROVE  IInv'
<1> USE RpcAssumption DEF IInv, Threads, Sending, Written, Known, Accepted
<1> DEFINE s == work[t].session
           p == session[s].rpc
<1>1. Kinds /\ work[t].pc = "choose" /\ s \in Sessions /\ p \in Procs \cup {None} /\ (p # None => process[p].state # "unborn")
  BY KindsHold DEF Kinds, PlaceInv, Holding, Choose, At, RpcInv
<1>2. /\ work \in [Threads -> WorkRecords]
      /\ session \in [Sessions -> SessionRecords] /\ process \in [Procs -> ProcessRecords]
      /\ work[t] \in WorkRecords /\ work[t].session \in Sessions /\ session[s] \in SessionRecords
  BY <1>1 DEF TypeOK
<1>3. UNCHANGED <<adapter, registry, session, counts>>
  BY DEF Choose, TypeOK, At
<1>4. CASE \E sc \in Scopes : /\ Reusable(s, sc) /\ UNCHANGED process
                                  /\ work' = [work EXCEPT ![t].pc = "start", ![t].scope = sc, ![t].process = p]
  <2>1. PICK sc \in Scopes : /\ Reusable(s, sc) /\ UNCHANGED process
                                 /\ work' = [work EXCEPT ![t].pc = "start", ![t].scope = sc, ![t].process = p]
    BY <1>1, <1>2, <1>3, <1>4
  <2>2. p \in Procs /\ Running(p) /\ session[s].scope = sc /\ UNCHANGED process
    BY <1>1, <1>2, <1>3, <1>4, <2>1 DEF Reusable
  <2>3. [work[t] EXCEPT !.pc = "start", !.process = p, !.scope = sc] \in WorkRecords
    BY <1>2, <2>2 DEF WorkRecords, Labels
  <2>4. work' = [work EXCEPT ![t] = [work[t] EXCEPT !.pc = "start", !.process = p, !.scope = sc]]
    BY <1>1, <1>2, <1>3, <2>1, <2>2 DEF WorkRecords
  <2>5. work' \in [Threads -> WorkRecords]
    BY <1>2, <2>3, <2>4
  <2>6. /\ \A y \in Threads \ {t} : work'[y] = work[y]
        /\ work'[t].pc = "start" /\ work'[t].process = p /\ work'[t].scope = sc
        /\ work'[t].session = work[t].session /\ work'[t].target = work[t].target
        /\ work'[t].failed = work[t].failed /\ work'[t].turn = work[t].turn
    BY <1>1, <1>2, <2>2, <2>4 DEF WorkRecords
  <2>7. TypeOK'
    BY <1>1, <1>3, <2>2, <2>5, <2>6 DEF TypeOK
  <2>8. PlaceInv' /\ MutexInv'
    BY <1>1, <1>3, <2>2, <2>5, <2>6 DEF Kinds, PlaceInv, MutexInv, Holding
  <2>9. RpcInv'
    BY <1>1, <1>3, <2>2, <2>5, <2>6 DEF Kinds, RpcInv, LaunchInv
  <2>10. LaunchInv' /\ CallInv'
    BY <1>1, <1>3, <2>2, <2>5, <2>6 DEF Kinds, PlaceInv, MutexInv, Holding, Running, RpcInv,
       LaunchInv, CallInv
  <2>11. ActiveInv'
    BY <1>1, <1>3, <2>2, <2>5, <2>6 DEF Kinds, PlaceInv, MutexInv, Holding, Following, LaunchInv,
       CallInv, ActiveInv
  <2>12. SteerInv'
    BY <1>1, <1>3, <2>2, <2>5, <2>6 DEF Kinds, PlaceInv, Running, RpcInv, LaunchInv, CallInv,
       ActiveInv, QueueInv, SteerInv
  <2>13. QueueInv'
    BY <1>1, <1>3, <2>2, <2>5, <2>6 DEF Kinds, PlaceInv, QueueInv
  <2>14. SparesFollowers /\ KeepsFollowers
    BY <1>1, <1>3, <2>2, <2>5, <2>6 DEF SparesFollowers, KeepsFollowers, Following, Kinds, PlaceInv,
       MutexInv, Holding, QueueInv
  <2>15. FollowInv' /\ ObservedInv'
    BY <2>14, SparedFollowers
  <2>16. QED
    BY <2>7, <2>8, <2>9, <2>10, <2>11, <2>12, <2>13, <2>15
<1>5. CASE \E sc \in Scopes : /\ p = None /\ UNCHANGED process
                                  /\ work' = [work EXCEPT ![t].pc = "launch", ![t].scope = sc]
  <2>1. PICK sc \in Scopes : /\ p = None /\ UNCHANGED process
                                 /\ work' = [work EXCEPT ![t].pc = "launch", ![t].scope = sc]
    BY <1>1, <1>2, <1>3, <1>5
  <2>2. p = None /\ UNCHANGED process
    BY <1>1, <1>2, <1>3, <1>5, <2>1 DEF Threads
  <2>3. [work[t] EXCEPT !.pc = "launch", !.scope = sc] \in WorkRecords
    BY <1>2, <2>2 DEF WorkRecords, Labels
  <2>4. work' = [work EXCEPT ![t] = [work[t] EXCEPT !.pc = "launch", !.scope = sc]]
    BY <1>1, <1>2, <1>3, <2>1, <2>2 DEF WorkRecords
  <2>5. work' \in [Threads -> WorkRecords]
    BY <1>2, <2>3, <2>4
  <2>6. /\ \A y \in Threads \ {t} : work'[y] = work[y]
        /\ work'[t].pc = "launch" /\ work'[t].scope = sc
        /\ work'[t].session = work[t].session /\ work'[t].target = work[t].target
        /\ work'[t].process = work[t].process /\ work'[t].failed = work[t].failed
        /\ work'[t].turn = work[t].turn
    BY <1>1, <1>2, <2>2, <2>4 DEF WorkRecords
  <2>7. TypeOK'
    BY <1>1, <1>3, <2>2, <2>5, <2>6 DEF TypeOK
  <2>8. PlaceInv' /\ MutexInv'
    BY <1>1, <1>3, <2>2, <2>5, <2>6 DEF Kinds, PlaceInv, MutexInv, Holding
  <2>9. RpcInv'
    BY <1>1, <1>3, <2>2, <2>5, <2>6 DEF Kinds, RpcInv, LaunchInv
  <2>10. LaunchInv' /\ CallInv'
    BY <1>1, <1>3, <2>2, <2>5, <2>6 DEF Kinds, PlaceInv, MutexInv, Holding, Running, RpcInv,
       LaunchInv, CallInv
  <2>11. ActiveInv'
    BY <1>1, <1>3, <2>2, <2>5, <2>6 DEF Kinds, PlaceInv, MutexInv, Holding, Following, LaunchInv,
       CallInv, ActiveInv
  <2>12. SteerInv'
    BY <1>1, <1>3, <2>2, <2>5, <2>6 DEF Kinds, PlaceInv, Running, RpcInv, LaunchInv, CallInv,
       ActiveInv, QueueInv, SteerInv
  <2>13. QueueInv'
    BY <1>1, <1>3, <2>2, <2>5, <2>6 DEF Kinds, PlaceInv, QueueInv
  <2>14. SparesFollowers /\ KeepsFollowers
    BY <1>1, <1>3, <2>2, <2>5, <2>6 DEF SparesFollowers, KeepsFollowers, Following, Kinds, PlaceInv,
       MutexInv, Holding, QueueInv
  <2>15. FollowInv' /\ ObservedInv'
    BY <2>14, SparedFollowers
  <2>16. QED
    BY <2>7, <2>8, <2>9, <2>10, <2>11, <2>12, <2>13, <2>15
<1>6. CASE \E sc \in Scopes : /\ p # None /\ process' = Finished(p)
                                  /\ work' = [work EXCEPT ![t].pc = "replace", ![t].scope = sc, ![t].process = p]
  <2>1. PICK sc \in Scopes : /\ p # None /\ process' = Finished(p)
                                 /\ work' = [work EXCEPT ![t].pc = "replace", ![t].scope = sc, ![t].process = p]
    BY <1>1, <1>2, <1>3, <1>6
  <2>2. p \in Procs
    BY <1>1, <1>2, <1>3, <1>6, <2>1 DEF Finished
  <2>3. [work[t] EXCEPT !.pc = "replace", !.process = p, !.scope = sc] \in WorkRecords
    BY <1>2, <2>2 DEF WorkRecords, Labels
  <2>4. work' = [work EXCEPT ![t] = [work[t] EXCEPT !.pc = "replace", !.process = p, !.scope = sc]]
    BY <1>1, <1>2, <1>3, <2>1, <2>2 DEF WorkRecords
  <2>5. work' \in [Threads -> WorkRecords]
    BY <1>2, <2>3, <2>4
  <2>6. /\ \A y \in Threads \ {t} : work'[y] = work[y]
        /\ work'[t].pc = "replace" /\ work'[t].process = p /\ work'[t].scope = sc
        /\ work'[t].session = work[t].session /\ work'[t].target = work[t].target
        /\ work'[t].failed = work[t].failed /\ work'[t].turn = work[t].turn
    BY <1>1, <1>2, <2>2, <2>4 DEF WorkRecords
  <2>7. process' = Finished(p)
    BY <1>1, <1>2, <1>3, <2>1, <2>2
  <2>8. Halted(p)
    BY <1>1, <1>2, <2>2, <2>7, FinishedIsHalted
  <2>9. TypeOK'
    BY <1>1, <1>3, <2>2, <2>5, <2>6, <2>8 DEF TypeOK, Halted
  <2>10. PlaceInv' /\ MutexInv'
    BY <1>1, <1>3, <2>2, <2>5, <2>6, <2>8 DEF Kinds, PlaceInv, MutexInv, Holding, Halted
  <2>11. RpcInv'
    BY <1>1, <1>3, <2>2, <2>5, <2>6, <2>8 DEF Kinds, RpcInv, LaunchInv, Halted
  <2>12. LaunchInv' /\ CallInv'
    BY <1>1, <1>3, <2>2, <2>5, <2>6, <2>8 DEF Kinds, PlaceInv, MutexInv, Holding, Running, RpcInv,
       LaunchInv, CallInv, Halted
  <2>13. ActiveInv'
    BY <1>1, <1>3, <2>2, <2>5, <2>6, <2>8 DEF Kinds, PlaceInv, MutexInv, Holding, Following,
       LaunchInv, CallInv, ActiveInv, Halted
  <2>14. SteerInv'
    BY <1>1, <1>3, <2>2, <2>5, <2>6, <2>8 DEF Kinds, PlaceInv, Running, RpcInv, LaunchInv, CallInv,
       ActiveInv, QueueInv, SteerInv, Halted
  <2>15. QueueInv'
    BY <1>1, <1>3, <2>2, <2>5, <2>6, <2>8 DEF Kinds, PlaceInv, QueueInv, Halted
  <2>16. SparesFollowers /\ KeepsFollowers
    BY <1>1, <1>3, <2>2, <2>5, <2>6, <2>8 DEF SparesFollowers, KeepsFollowers, Following, Kinds,
       PlaceInv, MutexInv, Holding, QueueInv, Halted
  <2>17. FollowInv' /\ ObservedInv'
    BY <2>16, SparedFollowers
  <2>18. QED
    BY <2>9, <2>10, <2>11, <2>12, <2>13, <2>14, <2>15, <2>17
<1>7. QED
  BY <1>1, <1>4, <1>5, <1>6 DEF Choose

LEMMA LaunchKeeps ==
    ASSUME IInv, NEW t \in Calls, Launch(t)
    PROVE  IInv'
<1> USE RpcAssumption DEF IInv, Threads, Sending, Written, Known, Accepted
<1> DEFINE s == work[t].session
<1>1. Kinds /\ work[t].pc = "launch" /\ s \in Sessions /\ work[t].scope \in Scopes \cup {None}
  BY KindsHold DEF Kinds, PlaceInv, Holding, Launch, At
<1>2. /\ work \in [Threads -> WorkRecords]
      /\ session \in [Sessions -> SessionRecords] /\ process \in [Procs -> ProcessRecords]
      /\ work[t] \in WorkRecords /\ work[t].session \in Sessions /\ session[s] \in SessionRecords
  BY <1>1 DEF TypeOK
<1>3. UNCHANGED <<adapter, registry, session, counts>>
  BY DEF Launch, TypeOK, At
<1>4. CASE \E p \in Unborn : /\ process' = [process EXCEPT ![p].state = "running", ![p].scope = work[t].scope]
                                 /\ work' = [work EXCEPT ![t].pc = "attach", ![t].process = p]
  <2>1. PICK p \in Unborn : /\ process' = [process EXCEPT ![p].state = "running", ![p].scope = work[t].scope]
                                /\ work' = [work EXCEPT ![t].pc = "attach", ![t].process = p]
    BY <1>1, <1>2, <1>3, <1>4
  <2>2. p \in Procs /\ process[p].state = "unborn"
    BY <1>1, <1>2, <1>3, <1>4, <2>1 DEF Unborn
  <2>3. [work[t] EXCEPT !.pc = "attach", !.process = p] \in WorkRecords
    BY <1>2, <2>2 DEF WorkRecords, Labels
  <2>4. work' = [work EXCEPT ![t] = [work[t] EXCEPT !.pc = "attach", !.process = p]]
    BY <1>1, <1>2, <1>3, <2>1, <2>2 DEF WorkRecords
  <2>5. work' \in [Threads -> WorkRecords]
    BY <1>2, <2>3, <2>4
  <2>6. /\ \A y \in Threads \ {t} : work'[y] = work[y]
        /\ work'[t].pc = "attach" /\ work'[t].process = p
        /\ work'[t].session = work[t].session /\ work'[t].target = work[t].target
        /\ work'[t].scope = work[t].scope /\ work'[t].failed = work[t].failed
        /\ work'[t].turn = work[t].turn
    BY <1>1, <1>2, <2>2, <2>4 DEF WorkRecords
  <2>7. [process[p] EXCEPT !.state = "running", !.scope = work[t].scope] \in ProcessRecords
    <3> HIDE DEF IInv
    <3>1. process[p] \in ProcessRecords /\ work[t].scope \in Scopes \cup {None}
      BY <1>2, <2>2 DEF WorkRecords
    <3>2. QED
      BY <3>1 DEF ProcessRecords
  <2>8. process' = [process EXCEPT ![p] = [process[p] EXCEPT !.state = "running", !.scope = work[t].scope]]
    BY <1>1, <1>2, <1>3, <2>1, <2>2 DEF ProcessRecords
  <2>9. process' \in [Procs -> ProcessRecords]
    BY <1>2, <2>7, <2>8
  <2>10. /\ \A q \in Procs \ {p} : process'[q] = process[q]
         /\ process'[p].state = "running" /\ process'[p].scope = work[t].scope
         /\ process'[p].busy = process[p].busy /\ process'[p].turns = process[p].turns
         /\ process'[p].result = process[p].result /\ process'[p].queued = process[p].queued
         /\ process'[p].items = process[p].items
    BY <1>1, <1>2, <2>2, <2>8 DEF ProcessRecords
  <2>11. TypeOK'
    BY <1>1, <1>3, <2>2, <2>5, <2>6, <2>9, <2>10 DEF TypeOK
  <2>12. PlaceInv' /\ MutexInv'
    BY <1>1, <1>3, <2>2, <2>5, <2>6, <2>9, <2>10 DEF Kinds, PlaceInv, MutexInv, Holding
  <2>13. RpcInv'
    BY <1>1, <1>3, <2>2, <2>5, <2>6, <2>9, <2>10 DEF Kinds, RpcInv, LaunchInv
  <2>14. LaunchInv' /\ CallInv'
    BY <1>1, <1>3, <2>2, <2>5, <2>6, <2>9, <2>10 DEF Kinds, PlaceInv, MutexInv, Holding, Running,
       RpcInv, LaunchInv, CallInv
  <2>15. ActiveInv'
    BY <1>1, <1>3, <2>2, <2>5, <2>6, <2>9, <2>10 DEF Kinds, PlaceInv, MutexInv, Holding, Following,
       LaunchInv, CallInv, ActiveInv
  <2>16. SteerInv'
    BY <1>1, <1>3, <2>2, <2>5, <2>6, <2>9, <2>10 DEF Kinds, PlaceInv, Running, RpcInv, LaunchInv,
       CallInv, ActiveInv, QueueInv, SteerInv
  <2>17. QueueInv'
    BY <1>1, <1>3, <2>2, <2>5, <2>6, <2>9, <2>10 DEF Kinds, PlaceInv, QueueInv
  <2>18. SparesFollowers /\ KeepsFollowers
    BY <1>1, <1>3, <2>2, <2>5, <2>6, <2>9, <2>10 DEF SparesFollowers, KeepsFollowers, Following,
       Kinds, PlaceInv, MutexInv, Holding, QueueInv
  <2>19. FollowInv' /\ ObservedInv'
    BY <2>18, SparedFollowers
  <2>20. QED
    BY <2>11, <2>12, <2>13, <2>14, <2>15, <2>16, <2>17, <2>19
<1>5. CASE Fails(t) /\ UNCHANGED process
  <2>1. UNCHANGED process
    BY <1>1, <1>2, <1>3, <1>5 DEF Fails, End
  <2>2. [work[t] EXCEPT !.pc = "end", !.process = None, !.failed = (adapter = "pi")] \in WorkRecords
    BY <1>2, <2>1 DEF WorkRecords, Labels
  <2>3. work' = [work EXCEPT ![t] = [work[t] EXCEPT !.pc = "end", !.process = None, !.failed = (adapter = "pi")]]
    BY <1>1, <1>2, <1>3, <1>5, <2>1 DEF Fails, End, WorkRecords
  <2>4. work' \in [Threads -> WorkRecords]
    BY <1>2, <2>2, <2>3
  <2>5. /\ \A y \in Threads \ {t} : work'[y] = work[y]
        /\ work'[t].pc = "end" /\ work'[t].process = None
        /\ work'[t].failed = (adapter = "pi")
        /\ work'[t].session = work[t].session /\ work'[t].target = work[t].target
        /\ work'[t].scope = work[t].scope /\ work'[t].turn = work[t].turn
    BY <1>1, <1>2, <2>1, <2>3 DEF WorkRecords
  <2>6. TypeOK'
    BY <1>1, <1>3, <2>1, <2>4, <2>5 DEF TypeOK
  <2>7. PlaceInv' /\ MutexInv'
    BY <1>1, <1>3, <2>1, <2>4, <2>5 DEF Kinds, PlaceInv, MutexInv, Holding
  <2>8. RpcInv'
    BY <1>1, <1>3, <2>1, <2>4, <2>5 DEF Kinds, RpcInv, LaunchInv
  <2>9. LaunchInv' /\ CallInv'
    BY <1>1, <1>3, <2>1, <2>4, <2>5 DEF Kinds, PlaceInv, MutexInv, Holding, Running, RpcInv,
       LaunchInv, CallInv
  <2>10. ActiveInv'
    BY <1>1, <1>3, <2>1, <2>4, <2>5 DEF Kinds, PlaceInv, MutexInv, Holding, Following, LaunchInv,
       CallInv, ActiveInv
  <2>11. SteerInv'
    BY <1>1, <1>3, <2>1, <2>4, <2>5 DEF Kinds, PlaceInv, Running, RpcInv, LaunchInv, CallInv,
       ActiveInv, QueueInv, SteerInv
  <2>12. QueueInv'
    BY <1>1, <1>3, <2>1, <2>4, <2>5 DEF Kinds, PlaceInv, QueueInv
  <2>13. SparesFollowers /\ KeepsFollowers
    BY <1>1, <1>3, <2>1, <2>4, <2>5 DEF SparesFollowers, KeepsFollowers, Following, Kinds, PlaceInv,
       MutexInv, Holding, QueueInv
  <2>14. FollowInv' /\ ObservedInv'
    BY <2>13, SparedFollowers
  <2>15. QED
    BY <2>6, <2>7, <2>8, <2>9, <2>10, <2>11, <2>12, <2>14
<1>6. QED
  BY <1>1, <1>4, <1>5, FreshIsMember DEF Launch

LEMMA AttachKeeps ==
    ASSUME IInv, NEW t \in Calls, Attach(t)
    PROVE  IInv'
<1> USE RpcAssumption DEF IInv, Threads, Sending, Written, Known, Accepted
<1> DEFINE s == work[t].session
           p == work[t].process
<1>1. Kinds /\ work[t].pc = "attach" /\ s \in Sessions /\ p \in Procs /\ process[p].state # "unborn"
  BY KindsHold DEF Kinds, PlaceInv, Holding, Attach, At
<1>2. /\ work \in [Threads -> WorkRecords]
      /\ session \in [Sessions -> SessionRecords] /\ process \in [Procs -> ProcessRecords]
      /\ work[t] \in WorkRecords /\ work[t].session \in Sessions /\ work[t].process \in Procs /\ session[s] \in SessionRecords /\ process[p] \in ProcessRecords
  BY <1>1 DEF TypeOK
<1>3. UNCHANGED <<adapter, registry, counts>>
  BY DEF Attach, TypeOK, At
<1>4. CASE /\ session' = [session EXCEPT ![s].rpc = p, ![s].scope = work[t].scope]
           /\ Step(t, "start") /\ UNCHANGED process
  <2>1. UNCHANGED process
    BY <1>1, <1>2, <1>3, <1>4 DEF Step
  <2>2. /\ work' \in [Threads -> WorkRecords]
        /\ \A y \in Threads \ {t} : work'[y] = work[y]
        /\ work'[t].pc = "start"
        /\ work'[t].session = work[t].session /\ work'[t].target = work[t].target
        /\ work'[t].process = work[t].process /\ work'[t].scope = work[t].scope
        /\ work'[t].failed = work[t].failed /\ work'[t].turn = work[t].turn
    BY <1>1, <1>2, <1>3, <1>4, <2>1 DEF Step, WorkRecords, Labels
  <2>3. /\ session' \in [Sessions -> SessionRecords]
        /\ \A o \in Sessions \ {s} : session'[o] = session[o]
        /\ session'[s].rpc = p /\ session'[s].scope = work[t].scope
        /\ session'[s].turn = session[s].turn /\ session'[s].timer = session[s].timer
        /\ session'[s].active = session[s].active /\ session'[s].steers = session[s].steers
    BY <1>1, <1>2, <1>3, <1>4, <2>1 DEF SessionRecords
  <2>4. TypeOK'
    BY <1>1, <1>3, <2>1, <2>2, <2>3 DEF TypeOK
  <2>5. PlaceInv' /\ MutexInv'
    BY <1>1, <1>3, <2>1, <2>2, <2>3 DEF Kinds, PlaceInv, MutexInv, Holding
  <2>6. RpcInv'
    BY <1>1, <1>3, <2>1, <2>2, <2>3 DEF Kinds, RpcInv, LaunchInv
  <2>7. LaunchInv' /\ CallInv'
    BY SMTT(30), <1>1, <1>3, <2>1, <2>2, <2>3 DEF Kinds, PlaceInv, MutexInv, Holding, Running, RpcInv,
       LaunchInv, CallInv
  <2>8. ActiveInv'
    BY <1>1, <1>3, <2>1, <2>2, <2>3 DEF Kinds, PlaceInv, MutexInv, Holding, Following, LaunchInv,
       CallInv, ActiveInv
  <2>9. SteerInv'
    <3>1. session[s].active = 0 /\ (session[s].rpc = None \/ process[session[s].rpc].state # "running")
      BY <1>1 DEF ActiveInv, LaunchInv, MutexInv, Holding, Running
    <3>2. \A d \in Senders : d # t /\ work'[d] = work[d]
      BY <2>2
    <3>3. SteerInv /\ \A d \in Senders : work[d].process \in Procs \cup {None} /\ work[d].target \in Sessions \cup {None}
      BY <1>1 DEF Kinds
    <3>4. \A d \in Senders : work[d].pc = "steer" => work[d].target # None /\ work[d].process # None
      BY DEF PlaceInv
    <3> HIDE DEF IInv
    <3>5. QED
      BY SMTT(30), <2>1, <2>3, <3>1, <3>2, <3>3, <3>4 DEF SteerInv, Running
  <2>10. QueueInv'
    BY <1>1, <1>3, <2>1, <2>2, <2>3 DEF Kinds, PlaceInv, QueueInv
  <2>11. SparesFollowers /\ KeepsFollowers
    BY <1>1, <1>3, <2>1, <2>2, <2>3 DEF SparesFollowers, KeepsFollowers, Following, Kinds, PlaceInv,
       MutexInv, Holding, QueueInv
  <2>12. FollowInv' /\ ObservedInv'
    BY <2>11, SparedFollowers
  <2>13. QED
    BY <2>4, <2>5, <2>6, <2>7, <2>8, <2>9, <2>10, <2>12
<1>5. CASE Stop(t, p, "abort") /\ UNCHANGED session
  <2>1. UNCHANGED session
    BY <1>1, <1>2, <1>3, <1>5 DEF Stop, Finished
  <2>2. [work[t] EXCEPT !.pc = "abort", !.process = p] \in WorkRecords
    BY <1>2, <2>1 DEF WorkRecords, Labels
  <2>3. work' = [work EXCEPT ![t] = [work[t] EXCEPT !.pc = "abort", !.process = p]]
    BY <1>1, <1>2, <1>3, <1>5, <2>1 DEF Stop, WorkRecords
  <2>4. work' \in [Threads -> WorkRecords]
    BY <1>2, <2>2, <2>3
  <2>5. /\ \A y \in Threads \ {t} : work'[y] = work[y]
        /\ work'[t].pc = "abort" /\ work'[t].process = p
        /\ work'[t].session = work[t].session /\ work'[t].target = work[t].target
        /\ work'[t].scope = work[t].scope /\ work'[t].failed = work[t].failed
        /\ work'[t].turn = work[t].turn
    BY <1>1, <1>2, <2>1, <2>3 DEF WorkRecords
  <2>6. process' = Finished(p)
    BY <1>1, <1>2, <1>3, <1>5, <2>1 DEF Stop
  <2>7. process' = Finished(p)
    BY <1>1, <1>2, <2>1, <2>6 DEF Stop
  <2>8. Halted(p)
    BY <1>1, <1>2, <2>1, <2>7, FinishedIsHalted
  <2>9. TypeOK'
    BY <1>1, <1>3, <2>1, <2>4, <2>5, <2>8 DEF TypeOK, Halted
  <2>10. PlaceInv' /\ MutexInv'
    BY <1>1, <1>3, <2>1, <2>4, <2>5, <2>8 DEF Kinds, PlaceInv, MutexInv, Holding, Halted
  <2>11. RpcInv'
    BY <1>1, <1>3, <2>1, <2>4, <2>5, <2>8 DEF Kinds, RpcInv, LaunchInv, Halted
  <2>12. LaunchInv' /\ CallInv'
    BY <1>1, <1>3, <2>1, <2>4, <2>5, <2>8 DEF Kinds, PlaceInv, MutexInv, Holding, Running, RpcInv,
       LaunchInv, CallInv, Halted
  <2>13. ActiveInv'
    BY <1>1, <1>3, <2>1, <2>4, <2>5, <2>8 DEF Kinds, PlaceInv, MutexInv, Holding, Following,
       LaunchInv, CallInv, ActiveInv, Halted
  <2>14. SteerInv'
    BY <1>1, <1>3, <2>1, <2>4, <2>5, <2>8 DEF Kinds, PlaceInv, Running, RpcInv, LaunchInv, CallInv,
       ActiveInv, QueueInv, SteerInv, Halted
  <2>15. QueueInv'
    BY <1>1, <1>3, <2>1, <2>4, <2>5, <2>8 DEF Kinds, PlaceInv, QueueInv, Halted
  <2>16. SparesFollowers /\ KeepsFollowers
    BY <1>1, <1>3, <2>1, <2>4, <2>5, <2>8 DEF SparesFollowers, KeepsFollowers, Following, Kinds,
       PlaceInv, MutexInv, Holding, QueueInv, Halted
  <2>17. FollowInv' /\ ObservedInv'
    BY <2>16, SparedFollowers
  <2>18. QED
    BY <2>9, <2>10, <2>11, <2>12, <2>13, <2>14, <2>15, <2>17
<1>6. QED
  BY <1>1, <1>4, <1>5 DEF Attach

LEMMA StartKeeps ==
    ASSUME IInv, NEW t \in Calls, Start(t)
    PROVE  IInv'
<1> USE RpcAssumption DEF IInv, Threads, Sending, Written, Known, Accepted
<1> DEFINE s == work[t].session
           p == work[t].process
<1>1. Kinds /\ work[t].pc = "start" /\ s \in Sessions /\ p \in Procs /\ process[p].state # "unborn"
  BY KindsHold DEF Kinds, PlaceInv, Holding, Start, At
<1>2. /\ work \in [Threads -> WorkRecords]
      /\ session \in [Sessions -> SessionRecords] /\ process \in [Procs -> ProcessRecords]
      /\ work[t] \in WorkRecords /\ work[t].session \in Sessions /\ work[t].process \in Procs /\ session[s] \in SessionRecords /\ process[p] \in ProcessRecords
  BY <1>1 DEF TypeOK
<1>3. UNCHANGED <<adapter, registry, counts>>
  BY DEF Start, TypeOK, At
<1>4. CASE /\ Running(p) /\ process[p].turns < MaxTurns /\ Step(t, "follow")
           /\ process' = [process EXCEPT ![p].busy = TRUE, ![p].turns = @ + 1]
           /\ session' = [session EXCEPT ![s].active = process[p].turns + 1, ![s].steers = {}]
  <2>1. Running(p) /\ process[p].turns + 1 \in 0..MaxTurns
    BY <1>1, <1>2, <1>3, <1>4 DEF Step, Kinds
  <2>2. /\ work' \in [Threads -> WorkRecords]
        /\ \A y \in Threads \ {t} : work'[y] = work[y]
        /\ work'[t].pc = "follow"
        /\ work'[t].session = work[t].session /\ work'[t].target = work[t].target
        /\ work'[t].process = work[t].process /\ work'[t].scope = work[t].scope
        /\ work'[t].failed = work[t].failed /\ work'[t].turn = work[t].turn
    BY <1>1, <1>2, <1>3, <1>4, <2>1 DEF Step, WorkRecords, Labels
  <2>3. [session[s] EXCEPT !.active = process[p].turns + 1, !.steers = {}] \in SessionRecords
    BY <1>2, <2>1, <1>1 DEF SessionRecords
  <2>4. session' = [session EXCEPT ![s] = [session[s] EXCEPT !.active = process[p].turns + 1, !.steers = {}]]
    BY <1>1, <1>2, <1>3, <1>4, <2>1 DEF SessionRecords
  <2>5. session' \in [Sessions -> SessionRecords]
    BY <1>2, <2>3, <2>4
  <2>6. /\ \A o \in Sessions \ {s} : session'[o] = session[o]
        /\ session'[s].active = process[p].turns + 1 /\ session'[s].steers = {}
        /\ session'[s].turn = session[s].turn /\ session'[s].rpc = session[s].rpc
        /\ session'[s].scope = session[s].scope /\ session'[s].timer = session[s].timer
    BY <1>1, <1>2, <2>1, <2>4 DEF SessionRecords
  <2>7. [process[p] EXCEPT !.busy = TRUE, !.turns = process[p].turns + 1] \in ProcessRecords
    BY <1>2, <2>1, <1>1 DEF ProcessRecords
  <2>8. process' = [process EXCEPT ![p] = [process[p] EXCEPT !.busy = TRUE, !.turns = process[p].turns + 1]]
    BY <1>1, <1>2, <1>3, <1>4, <2>1 DEF ProcessRecords
  <2>9. process' \in [Procs -> ProcessRecords]
    BY <1>2, <2>7, <2>8
  <2>10. /\ \A q \in Procs \ {p} : process'[q] = process[q]
         /\ process'[p].busy = TRUE /\ process'[p].turns = process[p].turns + 1
         /\ process'[p].state = process[p].state /\ process'[p].scope = process[p].scope
         /\ process'[p].result = process[p].result /\ process'[p].queued = process[p].queued
         /\ process'[p].items = process[p].items
    BY <1>1, <1>2, <2>1, <2>8 DEF ProcessRecords
  <2>11. TypeOK'
    BY <1>1, <1>3, <2>1, <2>2, <2>5, <2>6, <2>9, <2>10 DEF TypeOK
  <2>12. PlaceInv' /\ MutexInv'
    BY <1>1, <1>3, <2>1, <2>2, <2>5, <2>6, <2>9, <2>10 DEF Kinds, PlaceInv, MutexInv, Holding
  <2>13. RpcInv'
    BY <1>1, <1>3, <2>1, <2>2, <2>5, <2>6, <2>9, <2>10 DEF Kinds, RpcInv, LaunchInv
  <2>14. LaunchInv' /\ CallInv'
    BY SMTT(30), <1>1, <1>3, <2>1, <2>2, <2>5, <2>6, <2>9, <2>10 DEF Kinds, PlaceInv, MutexInv, Holding,
       Running, RpcInv, LaunchInv, CallInv
  <2>15. ActiveInv'
    BY SMTT(30), <1>1, <1>3, <2>1, <2>2, <2>5, <2>6, <2>9, <2>10 DEF Kinds, PlaceInv, MutexInv, Holding,
       Following, LaunchInv, CallInv, ActiveInv
  <2>16. SteerInv'
    BY SMTT(30), <1>1, <1>3, <2>1, <2>2, <2>5, <2>6, <2>9, <2>10 DEF Kinds, PlaceInv, Running, RpcInv,
       LaunchInv, CallInv, ActiveInv, QueueInv, SteerInv
  <2>17. QueueInv'
    BY <1>1, <1>3, <2>1, <2>2, <2>5, <2>6, <2>9, <2>10 DEF Kinds, PlaceInv, QueueInv
  <2>18. \A q \in Procs : (Lost(q) => LostThen(q)) /\ (LostBefore(q) => LostBeforeThen(q))
    <3>1. \A d \in Senders : work'[d] = work[d]
      BY <2>2
    <3>2. \A q \in Procs : process'[q].turns \in Nat /\ process[q].turns <= process'[q].turns
      BY <1>1, <2>10 DEF Kinds
    <3>3. QED
      BY <1>1, <3>1, <3>2, LossIsKept
  <2>19. FollowInv' /\ ObservedInv'
    <3>1. adapter = "codex" => process[p].queued = {} \/ Lost(p)
      <4>1. \A u \in Calls : ~(work[u].process = p /\ work[u].pc \in Following)
        BY <1>1, FollowersDiffer DEF Following
      <4>2. SUFFICES ASSUME adapter = "codex" PROVE process[p].queued = {} \/ Lost(p)
        OBVIOUS
      <4>3. LostBefore(p) \/ process[p].queued = {} \/ Lost(p)
        BY <1>1, <2>1, <4>1, <4>2, ObservedNow DEF Running
      <4>4. QED
        BY <4>3, LossBeforeIsLoss
    <3>2. ASSUME adapter' = "codex", NEW u \in Calls, work'[u].pc \in Following PROVE FollowsThen(u)
      <4>1. CASE u = t
        BY <1>1, <1>3, <2>2, <2>6, <2>10, <2>18, <3>1, <3>2, <4>1 DEF FollowsThen
      <4>2. CASE u # t
        <5>1. work[u].pc \in Following /\ work'[u] = work[u] /\ work[u].session \in Sessions \ {s} /\ work[u].process \in Procs \ {p}
          BY <1>1, <1>3, <2>2, <3>2, <4>2, FollowersDiffer, FollowNow
        <5>2. QED
          BY <1>3, <2>2, <2>6, <2>10, <3>2, <5>1, OtherFollows
      <4>3. QED
        BY <4>1, <4>2
    <3>3. ASSUME adapter' = "codex", NEW q \in Procs, process'[q].state = "running" PROVE ObservedThen(q)
      <4>1. CASE q = p
        BY <2>2, <4>1 DEF ObservedThen, Following
      <4>2. CASE q # p
        BY <1>1, <1>3, <2>2, <2>10, <2>18, <3>3, <4>2, ObservedNow DEF ObservedThen, Following
      <4>3. QED
        BY <4>1, <4>2
    <3>4. QED
      BY <3>2, <3>3, FollowNext, ObservedNext
  <2>20. QED
    BY <2>11, <2>12, <2>13, <2>14, <2>15, <2>16, <2>17, <2>18, <2>19
<1>5. CASE End(t, FALSE) /\ UNCHANGED <<session, process>>
  <2>1. UNCHANGED <<session, process>>
    BY <1>1, <1>2, <1>3, <1>5 DEF End
  <2>2. [work[t] EXCEPT !.pc = "end", !.process = None, !.failed = FALSE] \in WorkRecords
    BY <1>2, <2>1 DEF WorkRecords, Labels
  <2>3. work' = [work EXCEPT ![t] = [work[t] EXCEPT !.pc = "end", !.process = None, !.failed = FALSE]]
    BY <1>1, <1>2, <1>3, <1>5, <2>1 DEF End, WorkRecords
  <2>4. work' \in [Threads -> WorkRecords]
    BY <1>2, <2>2, <2>3
  <2>5. /\ \A y \in Threads \ {t} : work'[y] = work[y]
        /\ work'[t].pc = "end" /\ work'[t].process = None /\ work'[t].failed = FALSE
        /\ work'[t].session = work[t].session /\ work'[t].target = work[t].target
        /\ work'[t].scope = work[t].scope /\ work'[t].turn = work[t].turn
    BY <1>1, <1>2, <2>1, <2>3 DEF WorkRecords
  <2>6. TypeOK'
    BY <1>1, <1>3, <2>1, <2>4, <2>5 DEF TypeOK
  <2>7. PlaceInv' /\ MutexInv'
    BY <1>1, <1>3, <2>1, <2>4, <2>5 DEF Kinds, PlaceInv, MutexInv, Holding
  <2>8. RpcInv'
    BY <1>1, <1>3, <2>1, <2>4, <2>5 DEF Kinds, RpcInv, LaunchInv
  <2>9. LaunchInv' /\ CallInv'
    BY <1>1, <1>3, <2>1, <2>4, <2>5 DEF Kinds, PlaceInv, MutexInv, Holding, Running, RpcInv,
       LaunchInv, CallInv
  <2>10. ActiveInv'
    BY <1>1, <1>3, <2>1, <2>4, <2>5 DEF Kinds, PlaceInv, MutexInv, Holding, Following, LaunchInv,
       CallInv, ActiveInv
  <2>11. SteerInv'
    BY <1>1, <1>3, <2>1, <2>4, <2>5 DEF Kinds, PlaceInv, Running, RpcInv, LaunchInv, CallInv,
       ActiveInv, QueueInv, SteerInv
  <2>12. QueueInv'
    BY <1>1, <1>3, <2>1, <2>4, <2>5 DEF Kinds, PlaceInv, QueueInv
  <2>13. SparesFollowers /\ KeepsFollowers
    BY <1>1, <1>3, <2>1, <2>4, <2>5 DEF SparesFollowers, KeepsFollowers, Following, Kinds, PlaceInv,
       MutexInv, Holding, QueueInv
  <2>14. FollowInv' /\ ObservedInv'
    BY <2>13, SparedFollowers
  <2>15. QED
    BY <2>6, <2>7, <2>8, <2>9, <2>10, <2>11, <2>12, <2>14
<1>6. CASE adapter = "codex" /\ Stop(t, p, "abort") /\ UNCHANGED session
  <2>1. UNCHANGED session
    BY <1>1, <1>2, <1>3, <1>6 DEF Stop, Finished
  <2>2. [work[t] EXCEPT !.pc = "abort", !.process = p] \in WorkRecords
    BY <1>2, <2>1 DEF WorkRecords, Labels
  <2>3. work' = [work EXCEPT ![t] = [work[t] EXCEPT !.pc = "abort", !.process = p]]
    BY <1>1, <1>2, <1>3, <1>6, <2>1 DEF Stop, WorkRecords
  <2>4. work' \in [Threads -> WorkRecords]
    BY <1>2, <2>2, <2>3
  <2>5. /\ \A y \in Threads \ {t} : work'[y] = work[y]
        /\ work'[t].pc = "abort" /\ work'[t].process = p
        /\ work'[t].session = work[t].session /\ work'[t].target = work[t].target
        /\ work'[t].scope = work[t].scope /\ work'[t].failed = work[t].failed
        /\ work'[t].turn = work[t].turn
    BY <1>1, <1>2, <2>1, <2>3 DEF WorkRecords
  <2>6. process' = Finished(p)
    BY <1>1, <1>2, <1>3, <1>6, <2>1 DEF Stop
  <2>7. process' = Finished(p)
    BY <1>1, <1>2, <2>1, <2>6 DEF Stop
  <2>8. Halted(p)
    BY <1>1, <1>2, <2>1, <2>7, FinishedIsHalted
  <2>9. TypeOK'
    BY <1>1, <1>3, <2>1, <2>4, <2>5, <2>8 DEF TypeOK, Halted
  <2>10. PlaceInv' /\ MutexInv'
    BY <1>1, <1>3, <2>1, <2>4, <2>5, <2>8 DEF Kinds, PlaceInv, MutexInv, Holding, Halted
  <2>11. RpcInv'
    BY <1>1, <1>3, <2>1, <2>4, <2>5, <2>8 DEF Kinds, RpcInv, LaunchInv, Halted
  <2>12. LaunchInv' /\ CallInv'
    BY <1>1, <1>3, <2>1, <2>4, <2>5, <2>8 DEF Kinds, PlaceInv, MutexInv, Holding, Running, RpcInv,
       LaunchInv, CallInv, Halted
  <2>13. ActiveInv'
    BY <1>1, <1>3, <2>1, <2>4, <2>5, <2>8 DEF Kinds, PlaceInv, MutexInv, Holding, Following,
       LaunchInv, CallInv, ActiveInv, Halted
  <2>14. SteerInv'
    BY <1>1, <1>3, <2>1, <2>4, <2>5, <2>8 DEF Kinds, PlaceInv, Running, RpcInv, LaunchInv, CallInv,
       ActiveInv, QueueInv, SteerInv, Halted
  <2>15. QueueInv'
    BY <1>1, <1>3, <2>1, <2>4, <2>5, <2>8 DEF Kinds, PlaceInv, QueueInv, Halted
  <2>16. SparesFollowers /\ KeepsFollowers
    BY <1>1, <1>3, <2>1, <2>4, <2>5, <2>8 DEF SparesFollowers, KeepsFollowers, Following, Kinds,
       PlaceInv, MutexInv, Holding, QueueInv, Halted
  <2>17. FollowInv' /\ ObservedInv'
    BY <2>16, SparedFollowers
  <2>18. QED
    BY <2>9, <2>10, <2>11, <2>12, <2>13, <2>14, <2>15, <2>17
<1>7. CASE adapter = "pi" /\ Fails(t) /\ UNCHANGED <<session, process>>
  <2>1. UNCHANGED <<session, process>>
    BY <1>1, <1>2, <1>3, <1>7 DEF Fails, End
  <2>2. [work[t] EXCEPT !.pc = "end", !.process = None, !.failed = (adapter = "pi")] \in WorkRecords
    BY <1>2, <2>1 DEF WorkRecords, Labels
  <2>3. work' = [work EXCEPT ![t] = [work[t] EXCEPT !.pc = "end", !.process = None, !.failed = (adapter = "pi")]]
    BY <1>1, <1>2, <1>3, <1>7, <2>1 DEF Fails, End, WorkRecords
  <2>4. work' \in [Threads -> WorkRecords]
    BY <1>2, <2>2, <2>3
  <2>5. /\ \A y \in Threads \ {t} : work'[y] = work[y]
        /\ work'[t].pc = "end" /\ work'[t].process = None
        /\ work'[t].failed = (adapter = "pi")
        /\ work'[t].session = work[t].session /\ work'[t].target = work[t].target
        /\ work'[t].scope = work[t].scope /\ work'[t].turn = work[t].turn
    BY <1>1, <1>2, <2>1, <2>3 DEF WorkRecords
  <2>6. TypeOK'
    BY <1>1, <1>3, <2>1, <2>4, <2>5 DEF TypeOK
  <2>7. PlaceInv' /\ MutexInv'
    BY <1>1, <1>3, <2>1, <2>4, <2>5 DEF Kinds, PlaceInv, MutexInv, Holding
  <2>8. RpcInv'
    BY <1>1, <1>3, <2>1, <2>4, <2>5 DEF Kinds, RpcInv, LaunchInv
  <2>9. LaunchInv' /\ CallInv'
    BY <1>1, <1>3, <2>1, <2>4, <2>5 DEF Kinds, PlaceInv, MutexInv, Holding, Running, RpcInv,
       LaunchInv, CallInv
  <2>10. ActiveInv'
    BY <1>1, <1>3, <2>1, <2>4, <2>5 DEF Kinds, PlaceInv, MutexInv, Holding, Following, LaunchInv,
       CallInv, ActiveInv
  <2>11. SteerInv'
    BY <1>1, <1>3, <2>1, <2>4, <2>5 DEF Kinds, PlaceInv, Running, RpcInv, LaunchInv, CallInv,
       ActiveInv, QueueInv, SteerInv
  <2>12. QueueInv'
    BY <1>1, <1>3, <2>1, <2>4, <2>5 DEF Kinds, PlaceInv, QueueInv
  <2>13. SparesFollowers /\ KeepsFollowers
    BY <1>1, <1>3, <2>1, <2>4, <2>5 DEF SparesFollowers, KeepsFollowers, Following, Kinds, PlaceInv,
       MutexInv, Holding, QueueInv
  <2>14. FollowInv' /\ ObservedInv'
    BY <2>13, SparedFollowers
  <2>15. QED
    BY <2>6, <2>7, <2>8, <2>9, <2>10, <2>11, <2>12, <2>14
<1>8. QED
  BY <1>1, <1>4, <1>5, <1>6, <1>7 DEF Start

LEMMA TurnCompletedKeeps ==
    ASSUME IInv, NEW t \in Calls, TurnCompleted(t)
    PROVE  IInv'
<1> USE RpcAssumption DEF IInv, Threads, Sending, Written, Known, Accepted
<1> DEFINE s == work[t].session
           p == work[t].process
           steers == session[s].steers \ (IF Followed(t) THEN process[p].items ELSE {})
<1>1. Kinds /\ work[t].pc = "follow" /\ s \in Sessions /\ p \in Procs
      /\ (~process[p].busy \/ ~Followed(t))
  BY KindsHold DEF Kinds, PlaceInv, Holding, TurnCompleted, At
<1>2. /\ work \in [Threads -> WorkRecords]
      /\ session \in [Sessions -> SessionRecords] /\ process \in [Procs -> ProcessRecords]
      /\ work[t] \in WorkRecords /\ work[t].session \in Sessions /\ work[t].process \in Procs /\ session[s] \in SessionRecords /\ process[p] \in ProcessRecords
  BY <1>1 DEF TypeOK
<1>3. UNCHANGED <<adapter, registry, process, counts>>
  BY DEF TurnCompleted, TypeOK, At
<1>4. CASE /\ Result(t) = "completed" /\ steers # {} /\ Step(t, "followup")
           /\ session' = [session EXCEPT ![s].steers = steers]
  <2>1. /\ work' \in [Threads -> WorkRecords]
        /\ \A y \in Threads \ {t} : work'[y] = work[y]
        /\ work'[t].pc = "followup"
        /\ work'[t].session = work[t].session /\ work'[t].target = work[t].target
        /\ work'[t].process = work[t].process /\ work'[t].scope = work[t].scope
        /\ work'[t].failed = work[t].failed /\ work'[t].turn = work[t].turn
    BY <1>1, <1>2, <1>3, <1>4 DEF Step, WorkRecords, Labels
  <2>2. /\ session' \in [Sessions -> SessionRecords]
        /\ \A o \in Sessions \ {s} : session'[o] = session[o]
        /\ session'[s].steers = steers
        /\ session'[s].turn = session[s].turn /\ session'[s].rpc = session[s].rpc
        /\ session'[s].scope = session[s].scope /\ session'[s].timer = session[s].timer
        /\ session'[s].active = session[s].active
    BY <1>1, <1>2, <1>3, <1>4 DEF SessionRecords
  <2>3. TypeOK'
    BY <1>1, <1>3, <2>1, <2>2 DEF TypeOK
  <2>4. PlaceInv' /\ MutexInv'
    BY <1>1, <1>3, <2>1, <2>2 DEF Kinds, PlaceInv, MutexInv, Holding
  <2>5. RpcInv'
    BY <1>1, <1>3, <2>1, <2>2 DEF Kinds, RpcInv, LaunchInv
  <2>6. LaunchInv' /\ CallInv'
    BY SMTT(30), <1>1, <1>3, <2>1, <2>2 DEF Kinds, PlaceInv, MutexInv, Holding, Running, RpcInv, LaunchInv,
       CallInv
  <2>7. ActiveInv'
    BY <1>1, <1>3, <2>1, <2>2 DEF Kinds, PlaceInv, MutexInv, Holding, Following, LaunchInv, CallInv,
       ActiveInv
  <2>8. SteerInv'
    BY <1>1, <1>3, <2>1, <2>2 DEF Kinds, PlaceInv, Running, RpcInv, LaunchInv, CallInv, ActiveInv,
       QueueInv, SteerInv
  <2>9. QueueInv'
    BY <1>1, <1>3, <2>1, <2>2 DEF Kinds, PlaceInv, QueueInv
  <2>10. \A q \in Procs : (Lost(q) => LostThen(q)) /\ (LostBefore(q) => LostBeforeThen(q))
    <3>1. \A d \in Senders : work'[d] = work[d]
      BY <2>1
    <3>2. \A q \in Procs : process'[q].turns \in Nat /\ process[q].turns <= process'[q].turns
      BY <1>1, <1>3 DEF Kinds
    <3>3. QED
      BY <1>1, <3>1, <3>2, LossIsKept
  <2>11. FollowInv' /\ ObservedInv'
    <3>1. ASSUME adapter' = "codex", NEW u \in Calls, work'[u].pc \in Following PROVE FollowsThen(u)
      <4>1. CASE u = t
        <5>1. /\ process[p].state = "running" => process[p].queued \subseteq session[s].steers \/ Lost(p)
              /\ process[p].turns # session[s].active =>
                    (\E d \in session[s].steers : work[d].pc \in Accepted) \/ LostBefore(p)
              /\ session[s].steers \subseteq Senders /\ process[p].queued \cap process[p].items = {}
          BY <1>1, <1>3, <3>1, FollowNow DEF Following, QueueInv
        <5> HIDE DEF IInv
        <5>2. /\ session'[s].steers = session[s].steers \ (IF Followed(t) THEN process[p].items ELSE {})
              /\ Followed(t) <=> process[p].turns = session[s].active
          BY <2>2 DEF Followed
        <5>3. QED
          BY <1>1, <1>3, <2>1, <2>2, <2>10, <4>1, <5>1, <5>2 DEF FollowsThen
      <4>2. CASE u # t
        <5>1. work[u].pc \in Following /\ work'[u] = work[u] /\ work[u].session \in Sessions \ {s} /\ work[u].process \in Procs
          BY <1>1, <1>3, <2>1, <3>1, <4>2, FollowersDiffer, FollowNow
        <5>2. QED
          BY <1>3, <2>1, <2>2, <3>1, <5>1, OtherFollows
      <4>3. QED
        BY <4>1, <4>2
    <3>2. ASSUME adapter' = "codex", NEW q \in Procs, process'[q].state = "running" PROVE ObservedThen(q)
      BY <1>1, <1>3, <2>1, <2>10, <3>2, ObservedNow DEF ObservedThen, Following
    <3>3. QED
      BY <3>1, <3>2, FollowNext, ObservedNext
  <2>12. QED
    BY <2>3, <2>4, <2>5, <2>6, <2>7, <2>8, <2>9, <2>10, <2>11
<1>5. CASE /\ Result(t) = "completed" /\ steers = {} /\ End(t, FALSE)
           /\ session' = [session EXCEPT ![s].steers = steers]
  <2>1. steers = {}
    BY <1>1, <1>2, <1>3, <1>5 DEF End
  <2>2. [work[t] EXCEPT !.pc = "end", !.process = None, !.failed = FALSE] \in WorkRecords
    BY <1>2, <2>1 DEF WorkRecords, Labels
  <2>3. work' = [work EXCEPT ![t] = [work[t] EXCEPT !.pc = "end", !.process = None, !.failed = FALSE]]
    BY <1>1, <1>2, <1>3, <1>5, <2>1 DEF End, WorkRecords
  <2>4. work' \in [Threads -> WorkRecords]
    BY <1>2, <2>2, <2>3
  <2>5. /\ \A y \in Threads \ {t} : work'[y] = work[y]
        /\ work'[t].pc = "end" /\ work'[t].process = None /\ work'[t].failed = FALSE
        /\ work'[t].session = work[t].session /\ work'[t].target = work[t].target
        /\ work'[t].scope = work[t].scope /\ work'[t].turn = work[t].turn
    BY <1>1, <1>2, <2>1, <2>3 DEF WorkRecords
  <2>6. /\ session' \in [Sessions -> SessionRecords]
        /\ \A o \in Sessions \ {s} : session'[o] = session[o]
        /\ session'[s].steers = {}
        /\ session'[s].turn = session[s].turn /\ session'[s].rpc = session[s].rpc
        /\ session'[s].scope = session[s].scope /\ session'[s].timer = session[s].timer
        /\ session'[s].active = session[s].active
    BY <1>1, <1>2, <1>3, <1>5, <2>1 DEF SessionRecords
  <2>7. TypeOK'
    BY <1>1, <1>3, <2>1, <2>4, <2>5, <2>6 DEF TypeOK
  <2>8. PlaceInv' /\ MutexInv'
    BY <1>1, <1>3, <2>1, <2>4, <2>5, <2>6 DEF Kinds, PlaceInv, MutexInv, Holding
  <2>9. RpcInv'
    BY <1>1, <1>3, <2>1, <2>4, <2>5, <2>6 DEF Kinds, RpcInv, LaunchInv
  <2>10. LaunchInv' /\ CallInv'
    BY SMTT(30), <1>1, <1>3, <2>1, <2>4, <2>5, <2>6 DEF Kinds, PlaceInv, MutexInv, Holding, Running, RpcInv,
       LaunchInv, CallInv
  <2>11. ActiveInv'
    BY <1>1, <1>3, <2>1, <2>4, <2>5, <2>6 DEF Kinds, PlaceInv, MutexInv, Holding, Following,
       LaunchInv, CallInv, ActiveInv
  <2>12. SteerInv'
    BY <1>1, <1>3, <2>1, <2>4, <2>5, <2>6 DEF Kinds, PlaceInv, Running, RpcInv, LaunchInv, CallInv,
       ActiveInv, QueueInv, SteerInv
  <2>13. QueueInv'
    BY <1>1, <1>3, <2>1, <2>4, <2>5, <2>6 DEF Kinds, PlaceInv, QueueInv
  <2>14. SparesFollowers
    BY <1>1, <1>3, <2>1, <2>4, <2>5, <2>6 DEF SparesFollowers, Following, Kinds, PlaceInv, MutexInv,
       Holding, QueueInv
  <2>15. FollowInv'
    BY <2>14, SparedFollowers
  <2>16. \A q \in Procs : (Lost(q) => LostThen(q)) /\ (LostBefore(q) => LostBeforeThen(q))
    <3>1. \A d \in Senders : work'[d] = work[d]
      BY <2>5
    <3>2. \A q \in Procs : process'[q].turns \in Nat /\ process[q].turns <= process'[q].turns
      BY <1>1, <1>3 DEF Kinds
    <3>3. QED
      BY <1>1, <3>1, <3>2, LossIsKept
  <2>17. ObservedInv'
    <3> SUFFICES ASSUME adapter' = "codex", NEW q \in Procs, process'[q].state = "running"
                 PROVE  ObservedThen(q)
      BY ObservedNext
    <3>1. process[q].state = "running" /\ adapter = "codex"
      BY <1>3
    <3>2. CASE q = p
      <4>1. /\ process[p].queued \subseteq session[s].steers \/ Lost(p)
            /\ process[p].turns # session[s].active =>
                  (\E d \in session[s].steers : work[d].pc \in Accepted) \/ LostBefore(p)
            /\ process[p].queued \cap process[p].items = {}
        BY <1>1, <3>1, <3>2, FollowNow DEF Following, QueueInv
      <4> HIDE DEF IInv
      <4>2. CASE Followed(t)
        BY <1>1, <1>3, <2>1, <2>16, <3>2, <4>1, <4>2 DEF ObservedThen
      <4>3. CASE ~Followed(t)
        BY <1>1, <1>3, <2>1, <2>16, <3>2, <4>1, <4>3 DEF ObservedThen, Followed
      <4>4. QED
        BY <4>2, <4>3
    <3>3. CASE q # p
      BY <1>1, <1>3, <2>5, <2>16, <3>1, <3>3, ObservedNow DEF ObservedThen, Following
    <3>4. QED
      BY <3>2, <3>3
  <2>18. QED
    BY <2>7, <2>8, <2>9, <2>10, <2>11, <2>12, <2>13, <2>15, <2>17
<1>6. CASE \E f \in BOOLEAN :
           /\ Result(t) = "failed" /\ work' = [work EXCEPT ![t].pc = "end", ![t].process = None, ![t].failed = f]
           /\ session' = [session EXCEPT ![s].steers = steers]
  <2>1. PICK f \in BOOLEAN :
           /\ Result(t) = "failed" /\ work' = [work EXCEPT ![t].pc = "end", ![t].process = None, ![t].failed = f]
           /\ session' = [session EXCEPT ![s].steers = steers]
    BY <1>1, <1>2, <1>3, <1>6
  <2>2. Followed(t) /\ process[p].result = "failed"
    BY <1>1, <1>2, <1>3, <1>6, <2>1 DEF Result
  <2>3. [work[t] EXCEPT !.pc = "end", !.process = None, !.failed = f] \in WorkRecords
    BY <1>2, <2>2 DEF WorkRecords, Labels
  <2>4. work' = [work EXCEPT ![t] = [work[t] EXCEPT !.pc = "end", !.process = None, !.failed = f]]
    BY <1>1, <1>2, <1>3, <2>1, <2>2 DEF WorkRecords
  <2>5. work' \in [Threads -> WorkRecords]
    BY <1>2, <2>3, <2>4
  <2>6. /\ \A y \in Threads \ {t} : work'[y] = work[y]
        /\ work'[t].pc = "end" /\ work'[t].process = None /\ work'[t].failed = f
        /\ work'[t].session = work[t].session /\ work'[t].target = work[t].target
        /\ work'[t].scope = work[t].scope /\ work'[t].turn = work[t].turn
    BY <1>1, <1>2, <2>2, <2>4 DEF WorkRecords
  <2>7. /\ session' \in [Sessions -> SessionRecords]
        /\ \A o \in Sessions \ {s} : session'[o] = session[o]
        /\ session'[s].steers = steers
        /\ session'[s].turn = session[s].turn /\ session'[s].rpc = session[s].rpc
        /\ session'[s].scope = session[s].scope /\ session'[s].timer = session[s].timer
        /\ session'[s].active = session[s].active
    BY <1>1, <1>2, <1>3, <2>1, <2>2 DEF SessionRecords
  <2>8. TypeOK'
    BY <1>1, <1>3, <2>2, <2>5, <2>6, <2>7 DEF TypeOK
  <2>9. PlaceInv' /\ MutexInv'
    BY <1>1, <1>3, <2>2, <2>5, <2>6, <2>7 DEF Kinds, PlaceInv, MutexInv, Holding
  <2>10. RpcInv'
    BY <1>1, <1>3, <2>2, <2>5, <2>6, <2>7 DEF Kinds, RpcInv, LaunchInv
  <2>11. LaunchInv' /\ CallInv'
    BY SMTT(30), <1>1, <1>3, <2>2, <2>5, <2>6, <2>7 DEF Kinds, PlaceInv, MutexInv, Holding, Running, RpcInv,
       LaunchInv, CallInv
  <2>12. ActiveInv'
    BY <1>1, <1>3, <2>2, <2>5, <2>6, <2>7 DEF Kinds, PlaceInv, MutexInv, Holding, Following,
       LaunchInv, CallInv, ActiveInv
  <2>13. SteerInv'
    BY <1>1, <1>3, <2>2, <2>5, <2>6, <2>7 DEF Kinds, PlaceInv, Running, RpcInv, LaunchInv, CallInv,
       ActiveInv, QueueInv, SteerInv
  <2>14. QueueInv'
    BY <1>1, <1>3, <2>2, <2>5, <2>6, <2>7 DEF Kinds, PlaceInv, QueueInv
  <2>15. SparesFollowers
    BY <1>1, <1>3, <2>2, <2>5, <2>6, <2>7 DEF SparesFollowers, Following, Kinds, PlaceInv, MutexInv,
       Holding, QueueInv
  <2>16. FollowInv'
    BY <2>15, SparedFollowers
  <2>17. \A q \in Procs : (Lost(q) => LostThen(q)) /\ (LostBefore(q) => LostBeforeThen(q))
    <3>1. \A d \in Senders : work'[d] = work[d]
      BY <2>6
    <3>2. \A q \in Procs : process'[q].turns \in Nat /\ process[q].turns <= process'[q].turns
      BY <1>1, <1>3 DEF Kinds
    <3>3. QED
      BY <1>1, <3>1, <3>2, LossIsKept
  <2>18. ObservedInv'
    <3> SUFFICES ASSUME adapter' = "codex", NEW q \in Procs, process'[q].state = "running"
                 PROVE  ObservedThen(q)
      BY ObservedNext
    <3>1. process[q].state = "running" /\ adapter = "codex"
      BY <1>3
    <3>2. CASE q = p
      BY <1>1, <1>3, <2>2, <3>2 DEF ObservedThen, QueueInv
    <3>3. CASE q # p
      BY <1>1, <1>3, <2>6, <2>17, <3>1, <3>3, ObservedNow DEF ObservedThen, Following
    <3>4. QED
      BY <3>2, <3>3
  <2>19. QED
    BY <2>8, <2>9, <2>10, <2>11, <2>12, <2>13, <2>14, <2>16, <2>18
<1>7. QED
  BY <1>1, <1>4, <1>5, <1>6 DEF TurnCompleted, Fails, End

LEMMA FollowUpKeeps ==
    ASSUME IInv, NEW t \in Calls, FollowUp(t)
    PROVE  IInv'
<1> USE RpcAssumption DEF IInv, Threads, Sending, Written, Known, Accepted
<1> DEFINE s == work[t].session
           p == work[t].process
<1>1. Kinds /\ work[t].pc = "followup" /\ s \in Sessions /\ p \in Procs
  BY KindsHold DEF Kinds, PlaceInv, Holding, FollowUp, At
<1>2. /\ work \in [Threads -> WorkRecords]
      /\ session \in [Sessions -> SessionRecords] /\ process \in [Procs -> ProcessRecords]
      /\ work[t] \in WorkRecords /\ work[t].session \in Sessions /\ work[t].process \in Procs /\ session[s] \in SessionRecords /\ process[p] \in ProcessRecords
  BY <1>1 DEF TypeOK
<1>3. UNCHANGED <<adapter, registry, process, counts>>
  BY DEF FollowUp, TypeOK, At
<1>4. CASE /\ ~Followed(t) /\ Step(t, "follow")
           /\ session' = [session EXCEPT ![s].active = process[p].turns]
  <2>1. ~Followed(t) /\ process[p].turns \in 0..MaxTurns
    BY <1>1, <1>2, <1>3, <1>4 DEF Step, Kinds
  <2>2. /\ work' \in [Threads -> WorkRecords]
        /\ \A y \in Threads \ {t} : work'[y] = work[y]
        /\ work'[t].pc = "follow"
        /\ work'[t].session = work[t].session /\ work'[t].target = work[t].target
        /\ work'[t].process = work[t].process /\ work'[t].scope = work[t].scope
        /\ work'[t].failed = work[t].failed /\ work'[t].turn = work[t].turn
    BY <1>1, <1>2, <1>3, <1>4, <2>1 DEF Step, WorkRecords, Labels
  <2>3. [session[s] EXCEPT !.active = process[p].turns] \in SessionRecords
    BY <1>2, <2>1, <1>1 DEF SessionRecords
  <2>4. session' = [session EXCEPT ![s] = [session[s] EXCEPT !.active = process[p].turns]]
    BY <1>1, <1>2, <1>3, <1>4, <2>1 DEF SessionRecords
  <2>5. session' \in [Sessions -> SessionRecords]
    BY <1>2, <2>3, <2>4
  <2>6. /\ \A o \in Sessions \ {s} : session'[o] = session[o]
        /\ session'[s].active = process[p].turns
        /\ session'[s].turn = session[s].turn /\ session'[s].rpc = session[s].rpc
        /\ session'[s].scope = session[s].scope /\ session'[s].timer = session[s].timer
        /\ session'[s].steers = session[s].steers
    BY <1>1, <1>2, <2>1, <2>4 DEF SessionRecords
  <2>7. TypeOK'
    BY <1>1, <1>3, <2>1, <2>2, <2>5, <2>6 DEF TypeOK
  <2>8. PlaceInv' /\ MutexInv'
    BY <1>1, <1>3, <2>1, <2>2, <2>5, <2>6 DEF Kinds, PlaceInv, MutexInv, Holding
  <2>9. RpcInv'
    BY <1>1, <1>3, <2>1, <2>2, <2>5, <2>6 DEF Kinds, RpcInv, LaunchInv
  <2>10. LaunchInv' /\ CallInv'
    BY SMTT(30), <1>1, <1>3, <2>1, <2>2, <2>5, <2>6 DEF Kinds, PlaceInv, MutexInv, Holding, Running, RpcInv,
       LaunchInv, CallInv
  <2>11. ActiveInv'
    BY <1>1, <1>3, <2>1, <2>2, <2>5, <2>6 DEF Kinds, PlaceInv, MutexInv, Holding, Following,
       LaunchInv, CallInv, ActiveInv
  <2>12. SteerInv'
    <3>1. session[s].rpc = p /\ session[s].active # 0
      BY <1>1 DEF CallInv, ActiveInv, Following
    <3>2. \A d \in session[s].steers : work[d].process = p /\ work[d].turn <= process[p].turns
      BY <1>1, <3>1 DEF SteerInv, Known, Written, Kinds
    <3>3. SteerInv
      OBVIOUS
    <3>4. \A d \in Senders : work[d].pc = "steer" => work[d].target # None
      BY DEF PlaceInv
    <3>5. \A d \in Senders : d # t /\ work'[d] = work[d]
      BY <2>2
    <3> HIDE DEF IInv
    <3>6. ASSUME NEW d \in Senders
          PROVE  /\ work'[d].pc \in Written => work'[d].turn <= process'[work'[d].process].turns
                 /\ work'[d].pc = "steer" /\ process'[work'[d].process].state = "running" =>
                       /\ session'[work'[d].target].rpc = work'[d].process
                       /\ d \in session'[work'[d].target].steers \/ work'[d].turn < process'[work'[d].process].turns
      <4>1. \A o \in Sessions : session'[o].rpc = session[o].rpc /\ session'[o].steers = session[o].steers
        BY <2>6
      <4>2. work[d].pc = "steer" => work[d].target \in Sessions
        BY <1>1, <3>4 DEF Kinds
      <4>3. QED
        BY <1>3, <3>3, <3>5, <4>1, <4>2 DEF SteerInv, Running
    <3>7. ASSUME NEW o \in Sessions, NEW d \in Senders, d \in session'[o].steers
          PROVE  /\ work'[d].pc \in Known /\ (work'[d].pc # "sent" => work'[d].target = o)
                 /\ session'[o].active # 0 => work'[d].process = session'[o].rpc /\ work'[d].turn <= session'[o].active
      <4>1. CASE o = s
        BY <2>6, <3>1, <3>2, <3>3, <3>5, <3>7, <4>1 DEF SteerInv
      <4>2. CASE o # s
        BY <2>6, <3>3, <3>5, <3>7, <4>2 DEF SteerInv
      <4>3. QED
        BY <4>1, <4>2
    <3>8. QED
      BY <3>6, <3>7 DEF SteerInv, Running
  <2>13. QueueInv'
    BY <1>1, <1>3, <2>1, <2>2, <2>5, <2>6 DEF Kinds, PlaceInv, QueueInv
  <2>14. \A q \in Procs : (Lost(q) => LostThen(q)) /\ (LostBefore(q) => LostBeforeThen(q))
    <3>1. \A d \in Senders : work'[d] = work[d]
      BY <2>2
    <3>2. \A q \in Procs : process'[q].turns \in Nat /\ process[q].turns <= process'[q].turns
      BY <1>1, <1>3 DEF Kinds
    <3>3. QED
      BY <1>1, <3>1, <3>2, LossIsKept
  <2>15. FollowInv' /\ ObservedInv'
    <3>1. ASSUME adapter' = "codex", NEW u \in Calls, work'[u].pc \in Following PROVE FollowsThen(u)
      <4>1. CASE u = t
        <5>1. process[p].state = "running" => process[p].queued \subseteq session[s].steers \/ Lost(p)
          BY <1>1, <1>3, <3>1, FollowNow DEF Following
        <5>2. QED
          BY <1>1, <1>3, <2>2, <2>6, <2>14, <4>1, <5>1 DEF FollowsThen
      <4>2. CASE u # t
        <5>1. work[u].pc \in Following /\ work'[u] = work[u] /\ work[u].session \in Sessions \ {s} /\ work[u].process \in Procs
          BY <1>1, <1>3, <2>2, <3>1, <4>2, FollowersDiffer, FollowNow
        <5>2. QED
          BY <1>3, <2>2, <2>6, <3>1, <5>1, OtherFollows
      <4>3. QED
        BY <4>1, <4>2
    <3>2. ASSUME adapter' = "codex", NEW q \in Procs, process'[q].state = "running" PROVE ObservedThen(q)
      BY <1>1, <1>3, <2>2, <2>14, <3>2, ObservedNow DEF ObservedThen, Following
    <3>3. QED
      BY <3>1, <3>2, FollowNext, ObservedNext
  <2>16. QED
    BY <2>7, <2>8, <2>9, <2>10, <2>11, <2>12, <2>13, <2>15
<1>5. CASE /\ process[p].queued = {} /\ Followed(t)
           /\ End(t, FALSE) /\ UNCHANGED session
  <2>1. UNCHANGED session /\ process[p].queued = {} /\ Followed(t)
    BY <1>1, <1>2, <1>3, <1>5 DEF End
  <2>2. [work[t] EXCEPT !.pc = "end", !.process = None, !.failed = FALSE] \in WorkRecords
    BY <1>2, <2>1 DEF WorkRecords, Labels
  <2>3. work' = [work EXCEPT ![t] = [work[t] EXCEPT !.pc = "end", !.process = None, !.failed = FALSE]]
    BY <1>1, <1>2, <1>3, <1>5, <2>1 DEF End, WorkRecords
  <2>4. work' \in [Threads -> WorkRecords]
    BY <1>2, <2>2, <2>3
  <2>5. /\ \A y \in Threads \ {t} : work'[y] = work[y]
        /\ work'[t].pc = "end" /\ work'[t].process = None /\ work'[t].failed = FALSE
        /\ work'[t].session = work[t].session /\ work'[t].target = work[t].target
        /\ work'[t].scope = work[t].scope /\ work'[t].turn = work[t].turn
    BY <1>1, <1>2, <2>1, <2>3 DEF WorkRecords
  <2>6. TypeOK'
    BY <1>1, <1>3, <2>1, <2>4, <2>5 DEF TypeOK
  <2>7. PlaceInv' /\ MutexInv'
    BY <1>1, <1>3, <2>1, <2>4, <2>5 DEF Kinds, PlaceInv, MutexInv, Holding
  <2>8. RpcInv'
    BY <1>1, <1>3, <2>1, <2>4, <2>5 DEF Kinds, RpcInv, LaunchInv
  <2>9. LaunchInv' /\ CallInv'
    BY <1>1, <1>3, <2>1, <2>4, <2>5 DEF Kinds, PlaceInv, MutexInv, Holding, Running, RpcInv,
       LaunchInv, CallInv
  <2>10. ActiveInv'
    BY <1>1, <1>3, <2>1, <2>4, <2>5 DEF Kinds, PlaceInv, MutexInv, Holding, Following, LaunchInv,
       CallInv, ActiveInv
  <2>11. SteerInv'
    BY <1>1, <1>3, <2>1, <2>4, <2>5 DEF Kinds, PlaceInv, Running, RpcInv, LaunchInv, CallInv,
       ActiveInv, QueueInv, SteerInv
  <2>12. QueueInv'
    BY <1>1, <1>3, <2>1, <2>4, <2>5 DEF Kinds, PlaceInv, QueueInv
  <2>13. SparesFollowers
    BY <1>1, <1>3, <2>1, <2>4, <2>5 DEF SparesFollowers, Following, Kinds, PlaceInv, MutexInv,
       Holding, QueueInv
  <2>14. FollowInv'
    BY <2>13, SparedFollowers
  <2>15. \A q \in Procs : (Lost(q) => LostThen(q)) /\ (LostBefore(q) => LostBeforeThen(q))
    <3>1. \A d \in Senders : work'[d] = work[d]
      BY <2>5
    <3>2. \A q \in Procs : process'[q].turns \in Nat /\ process[q].turns <= process'[q].turns
      BY <1>1, <1>3 DEF Kinds
    <3>3. QED
      BY <1>1, <3>1, <3>2, LossIsKept
  <2>16. ObservedInv'
    <3> SUFFICES ASSUME adapter' = "codex", NEW q \in Procs, process'[q].state = "running"
                 PROVE  ObservedThen(q)
      BY ObservedNext
    <3>1. process[q].state = "running" /\ adapter = "codex"
      BY <1>3
    <3>2. CASE q = p
      <4>1. ~process[p].busy
        BY <1>1, <2>1, <3>1, FollowNow DEF Following, Followed
      <4>2. QED
        BY <1>3, <2>1, <3>2, <4>1 DEF ObservedThen
    <3>3. CASE q # p
      BY <1>1, <1>3, <2>5, <2>15, <3>1, <3>3, ObservedNow DEF ObservedThen, Following
    <3>4. QED
      BY <3>2, <3>3
  <2>17. QED
    BY <2>6, <2>7, <2>8, <2>9, <2>10, <2>11, <2>12, <2>14, <2>16
<1>6. QED
  BY <1>1, <1>4, <1>5 DEF FollowUp

LEMMA InterruptedKeeps ==
    ASSUME IInv, NEW t \in Calls, Interrupted(t)
    PROVE  IInv'
<1> USE RpcAssumption DEF IInv, Threads, Sending, Written, Known, Accepted
<1> DEFINE s == work[t].session
           p == work[t].process
<1>1. Kinds /\ work[t].pc \in {"follow", "followup"} /\ s \in Sessions /\ p \in Procs /\ process[p].state # "unborn"
  BY KindsHold DEF Kinds, PlaceInv, Holding, Interrupted, At, Following
<1>2. /\ work \in [Threads -> WorkRecords]
      /\ session \in [Sessions -> SessionRecords] /\ process \in [Procs -> ProcessRecords]
      /\ work[t] \in WorkRecords /\ work[t].session \in Sessions /\ work[t].process \in Procs /\ session[s] \in SessionRecords /\ process[p] \in ProcessRecords
  BY <1>1 DEF TypeOK
<1>3. UNCHANGED <<adapter, registry, session, counts>>
  BY DEF Interrupted, TypeOK, At
<1>4. CASE Stop(t, p, "abort")
  <2>1. [work[t] EXCEPT !.pc = "abort", !.process = p] \in WorkRecords
    BY <1>2, <1>1 DEF WorkRecords, Labels
  <2>2. work' = [work EXCEPT ![t] = [work[t] EXCEPT !.pc = "abort", !.process = p]]
    BY <1>1, <1>2, <1>3, <1>4 DEF Stop, WorkRecords
  <2>3. work' \in [Threads -> WorkRecords]
    BY <1>2, <2>1, <2>2
  <2>4. /\ \A y \in Threads \ {t} : work'[y] = work[y]
        /\ work'[t].pc = "abort" /\ work'[t].process = p
        /\ work'[t].session = work[t].session /\ work'[t].target = work[t].target
        /\ work'[t].scope = work[t].scope /\ work'[t].failed = work[t].failed
        /\ work'[t].turn = work[t].turn
    BY <1>1, <1>2, <2>2 DEF WorkRecords
  <2>5. process' = Finished(p)
    BY <1>1, <1>2, <1>3, <1>4 DEF Stop
  <2>6. process' = Finished(p)
    BY <1>1, <1>2, <2>5 DEF Stop
  <2>7. Halted(p)
    BY <1>1, <1>2, <2>6, FinishedIsHalted
  <2>8. TypeOK'
    BY <1>1, <1>3, <2>3, <2>4, <2>7 DEF TypeOK, Halted
  <2>9. PlaceInv' /\ MutexInv'
    BY <1>1, <1>3, <2>3, <2>4, <2>7 DEF Kinds, PlaceInv, MutexInv, Holding, Halted
  <2>10. RpcInv'
    BY <1>1, <1>3, <2>3, <2>4, <2>7 DEF Kinds, RpcInv, LaunchInv, Halted
  <2>11. LaunchInv' /\ CallInv'
    BY <1>1, <1>3, <2>3, <2>4, <2>7 DEF Kinds, PlaceInv, MutexInv, Holding, Running, RpcInv,
       LaunchInv, CallInv, Halted
  <2>12. ActiveInv'
    BY <1>1, <1>3, <2>3, <2>4, <2>7 DEF Kinds, PlaceInv, MutexInv, Holding, Following, LaunchInv,
       CallInv, ActiveInv, Halted
  <2>13. SteerInv'
    BY <1>1, <1>3, <2>3, <2>4, <2>7 DEF Kinds, PlaceInv, Running, RpcInv, LaunchInv, CallInv,
       ActiveInv, QueueInv, SteerInv, Halted
  <2>14. QueueInv'
    BY <1>1, <1>3, <2>3, <2>4, <2>7 DEF Kinds, PlaceInv, QueueInv, Halted
  <2>15. SparesFollowers
    BY <1>1, <1>3, <2>3, <2>4, <2>7 DEF SparesFollowers, Following, Kinds, PlaceInv, MutexInv,
       Holding, QueueInv, Halted
  <2>16. FollowInv'
    BY <2>15, SparedFollowers
  <2>17. \A q \in Procs : (Lost(q) => LostThen(q)) /\ (LostBefore(q) => LostBeforeThen(q))
    <3>1. \A d \in Senders : work'[d] = work[d]
      BY <2>4
    <3>2. \A q \in Procs : process'[q].turns \in Nat /\ process[q].turns <= process'[q].turns
      BY <1>1, <2>7 DEF Kinds, Halted
    <3>3. QED
      BY <1>1, <3>1, <3>2, LossIsKept
  <2>18. ObservedInv'
    <3> SUFFICES ASSUME adapter' = "codex", NEW q \in Procs, process'[q].state = "running"
                 PROVE  ObservedThen(q)
      BY ObservedNext
    <3>1. process[q].state = "running" /\ adapter = "codex" /\ q # p
      BY <1>3, <2>7 DEF Halted
    <3>2. QED
      BY <1>1, <2>4, <2>7, <2>17, <3>1, ObservedNow DEF ObservedThen, Following, Halted
  <2>19. QED
    BY <2>8, <2>9, <2>10, <2>11, <2>12, <2>13, <2>14, <2>16, <2>18
<1>5. CASE adapter = "pi" /\ Fails(t) /\ UNCHANGED process
  <2>1. UNCHANGED process /\ adapter = "pi"
    BY <1>1, <1>2, <1>3, <1>5 DEF Fails, End
  <2>2. [work[t] EXCEPT !.pc = "end", !.process = None, !.failed = (adapter = "pi")] \in WorkRecords
    BY <1>2, <2>1 DEF WorkRecords, Labels
  <2>3. work' = [work EXCEPT ![t] = [work[t] EXCEPT !.pc = "end", !.process = None, !.failed = (adapter = "pi")]]
    BY <1>1, <1>2, <1>3, <1>5, <2>1 DEF Fails, End, WorkRecords
  <2>4. work' \in [Threads -> WorkRecords]
    BY <1>2, <2>2, <2>3
  <2>5. /\ \A y \in Threads \ {t} : work'[y] = work[y]
        /\ work'[t].pc = "end" /\ work'[t].process = None
        /\ work'[t].failed = (adapter = "pi")
        /\ work'[t].session = work[t].session /\ work'[t].target = work[t].target
        /\ work'[t].scope = work[t].scope /\ work'[t].turn = work[t].turn
    BY <1>1, <1>2, <2>1, <2>3 DEF WorkRecords
  <2>6. TypeOK'
    BY <1>1, <1>3, <2>1, <2>4, <2>5 DEF TypeOK
  <2>7. PlaceInv' /\ MutexInv'
    BY <1>1, <1>3, <2>1, <2>4, <2>5 DEF Kinds, PlaceInv, MutexInv, Holding
  <2>8. RpcInv'
    BY <1>1, <1>3, <2>1, <2>4, <2>5 DEF Kinds, RpcInv, LaunchInv
  <2>9. LaunchInv' /\ CallInv'
    BY <1>1, <1>3, <2>1, <2>4, <2>5 DEF Kinds, PlaceInv, MutexInv, Holding, Running, RpcInv,
       LaunchInv, CallInv
  <2>10. ActiveInv'
    BY <1>1, <1>3, <2>1, <2>4, <2>5 DEF Kinds, PlaceInv, MutexInv, Holding, Following, LaunchInv,
       CallInv, ActiveInv
  <2>11. SteerInv'
    BY <1>1, <1>3, <2>1, <2>4, <2>5 DEF Kinds, PlaceInv, Running, RpcInv, LaunchInv, CallInv,
       ActiveInv, QueueInv, SteerInv
  <2>12. QueueInv'
    BY <1>1, <1>3, <2>1, <2>4, <2>5 DEF Kinds, PlaceInv, QueueInv
  <2>13. FollowInv'
    BY <1>1, <1>3, <2>1, <2>4, <2>5 DEF Kinds, PlaceInv, MutexInv, Holding, Running, Followed,
       Following, RpcInv, CallInv, ActiveInv, SteerInv, QueueInv, ObservedInv, FollowInv
  <2>14. ObservedInv'
    BY <1>1, <1>3, <2>1, <2>4, <2>5 DEF Kinds, PlaceInv, MutexInv, Holding, Running, Followed,
       Following, RpcInv, CallInv, ActiveInv, QueueInv, FollowInv, ObservedInv
  <2>15. QED
    BY <2>6, <2>7, <2>8, <2>9, <2>10, <2>11, <2>12, <2>13, <2>14
<1>6. QED
  BY <1>1, <1>4, <1>5 DEF Interrupted

LEMMA ExitedKeeps ==
    ASSUME IInv, NEW t \in Calls, Exited(t)
    PROVE  IInv'
<1> USE RpcAssumption DEF IInv, Threads, Exited, HasExited, At, End, Fails
<1>1. work[t].session \in Sessions /\ work[t].process \in Procs
  BY DEF TypeOK, SessionRecords, ProcessRecords, WorkRecords, PlaceInv, Holding
<1>2. TypeOK'
  BY <1>1 DEF TypeOK, SessionRecords, ProcessRecords, WorkRecords, Labels
<1>3. PlaceInv'
  BY <1>1 DEF TypeOK, SessionRecords, ProcessRecords, WorkRecords, PlaceInv, Holding
<1>4. MutexInv'
  BY <1>1 DEF TypeOK, SessionRecords, ProcessRecords, WorkRecords, PlaceInv, Holding, MutexInv
<1>5. RpcInv'
  BY <1>1 DEF TypeOK, SessionRecords, ProcessRecords, WorkRecords, PlaceInv, Holding, RpcInv,
     LaunchInv
<1>6. LaunchInv'
  BY <1>1 DEF TypeOK, SessionRecords, ProcessRecords, WorkRecords, PlaceInv, Holding, MutexInv,
     Running, RpcInv, LaunchInv, CallInv
<1>7. CallInv'
  BY <1>1 DEF TypeOK, SessionRecords, ProcessRecords, WorkRecords, PlaceInv, Holding, MutexInv,
     RpcInv, LaunchInv, CallInv
<1>8. ActiveInv'
  BY <1>1 DEF TypeOK, SessionRecords, ProcessRecords, WorkRecords, PlaceInv, Holding, MutexInv,
     Following, LaunchInv, CallInv, ActiveInv
<1>9. SteerInv'
  BY <1>1 DEF TypeOK, SessionRecords, ProcessRecords, WorkRecords, PlaceInv, Holding, MutexInv,
     Running, RpcInv, LaunchInv, CallInv, ActiveInv, QueueInv, SteerInv
<1>10. QueueInv'
  BY <1>1 DEF TypeOK, SessionRecords, ProcessRecords, WorkRecords, PlaceInv, Holding, QueueInv
<1>11. FollowInv'
  BY <1>1 DEF TypeOK, SessionRecords, ProcessRecords, WorkRecords, PlaceInv, Holding, MutexInv,
     Running, Followed, Following, RpcInv, CallInv, ActiveInv, SteerInv, QueueInv, ObservedInv,
     FollowInv
<1>12. ObservedInv'
  BY <1>1 DEF TypeOK, SessionRecords, ProcessRecords, WorkRecords, PlaceInv, Holding, MutexInv,
     Running, Followed, Following, RpcInv, CallInv, ActiveInv, QueueInv, FollowInv, ObservedInv
<1>13. QED
  BY <1>2, <1>3, <1>4, <1>5, <1>6, <1>7, <1>8, <1>9, <1>10, <1>11, <1>12

LEMMA EndCallKeeps ==
    ASSUME IInv, NEW t \in Calls, EndCall(t)
    PROVE  IInv'
<1> USE RpcAssumption DEF IInv, Threads, Sending, Written, Known, Accepted
<1> DEFINE s == work[t].session
<1>1. Kinds /\ work[t].pc = "end" /\ s \in Sessions /\ session[s].turn = t
  BY KindsHold DEF Kinds, PlaceInv, Holding, EndCall, At, MutexInv
<1>2. /\ work \in [Threads -> WorkRecords]
      /\ session \in [Sessions -> SessionRecords] /\ process \in [Procs -> ProcessRecords]
      /\ work[t] \in WorkRecords /\ work[t].session \in Sessions /\ session[s] \in SessionRecords
  BY <1>1 DEF TypeOK
<1>3. UNCHANGED <<adapter, process, counts>>
  BY DEF EndCall, TypeOK, At
<1>4. CASE /\ session' = [session EXCEPT ![s].timer = TRUE, ![s].turn = None, ![s].active = 0]
           /\ Return(t) /\ UNCHANGED registry
  <2>1. UNCHANGED registry
    BY <1>1, <1>2, <1>3, <1>4 DEF Return, Idle
  <2>2. /\ work' \in [Threads -> WorkRecords]
        /\ \A y \in Threads \ {t} : work'[y] = work[y]
        /\ work'[t].pc = "idle" /\ work'[t].session = None /\ work'[t].target = None
        /\ work'[t].process = None /\ work'[t].scope = None /\ work'[t].failed = FALSE
        /\ work'[t].turn = 0
    BY <1>1, <1>2, <1>3, <1>4, <2>1 DEF Return, Idle, WorkRecords, Labels
  <2>3. /\ session' \in [Sessions -> SessionRecords]
        /\ \A o \in Sessions \ {s} : session'[o] = session[o]
        /\ session'[s].turn = None /\ session'[s].timer = TRUE /\ session'[s].active = 0
        /\ session'[s].rpc = session[s].rpc /\ session'[s].scope = session[s].scope
        /\ session'[s].steers = session[s].steers
    BY <1>1, <1>2, <1>3, <1>4, <2>1 DEF SessionRecords
  <2>4. TypeOK'
    BY <1>1, <1>3, <2>1, <2>2, <2>3 DEF TypeOK
  <2>5. PlaceInv' /\ MutexInv'
    BY <1>1, <1>3, <2>1, <2>2, <2>3 DEF Kinds, PlaceInv, MutexInv, Holding
  <2>6. RpcInv'
    BY <1>1, <1>3, <2>1, <2>2, <2>3 DEF Kinds, RpcInv, LaunchInv
  <2>7. LaunchInv' /\ CallInv'
    BY <1>1, <1>3, <2>1, <2>2, <2>3 DEF Kinds, PlaceInv, MutexInv, Holding, Running, RpcInv,
       LaunchInv, CallInv
  <2>8. ActiveInv'
    BY <1>1, <1>3, <2>1, <2>2, <2>3 DEF Kinds, PlaceInv, MutexInv, Holding, Following, LaunchInv,
       CallInv, ActiveInv
  <2>9. SteerInv'
    BY <1>1, <1>3, <2>1, <2>2, <2>3 DEF Kinds, PlaceInv, Running, RpcInv, LaunchInv, CallInv,
       ActiveInv, QueueInv, SteerInv
  <2>10. QueueInv'
    BY <1>1, <1>3, <2>1, <2>2, <2>3 DEF Kinds, PlaceInv, QueueInv
  <2>11. SparesFollowers /\ KeepsFollowers
    BY <1>1, <1>3, <2>1, <2>2, <2>3 DEF SparesFollowers, KeepsFollowers, Following, Kinds, PlaceInv,
       MutexInv, Holding, QueueInv
  <2>12. FollowInv' /\ ObservedInv'
    BY <2>11, SparedFollowers
  <2>13. QED
    BY <2>4, <2>5, <2>6, <2>7, <2>8, <2>9, <2>10, <2>12
<1>5. CASE /\ registry # None /\ registry' = None /\ session' = [session EXCEPT ![s].active = 0]
           /\ work' = [work EXCEPT ![t].pc = "take", ![t].target = registry]
  <2>1. registry' = None /\ registry \in Sessions
    BY <1>1, <1>2, <1>3, <1>5 DEF Kinds
  <2>2. [work[t] EXCEPT !.pc = "take", !.target = registry] \in WorkRecords
    BY <1>2, <2>1 DEF WorkRecords, Labels
  <2>3. work' = [work EXCEPT ![t] = [work[t] EXCEPT !.pc = "take", !.target = registry]]
    BY <1>1, <1>2, <1>3, <1>5, <2>1 DEF WorkRecords
  <2>4. work' \in [Threads -> WorkRecords]
    BY <1>2, <2>2, <2>3
  <2>5. /\ \A y \in Threads \ {t} : work'[y] = work[y]
        /\ work'[t].pc = "take" /\ work'[t].target = registry
        /\ work'[t].session = work[t].session /\ work'[t].process = work[t].process
        /\ work'[t].scope = work[t].scope /\ work'[t].failed = work[t].failed
        /\ work'[t].turn = work[t].turn
    BY <1>1, <1>2, <2>1, <2>3 DEF WorkRecords
  <2>6. /\ session' \in [Sessions -> SessionRecords]
        /\ \A o \in Sessions \ {s} : session'[o] = session[o]
        /\ session'[s].active = 0
        /\ session'[s].turn = session[s].turn /\ session'[s].rpc = session[s].rpc
        /\ session'[s].scope = session[s].scope /\ session'[s].timer = session[s].timer
        /\ session'[s].steers = session[s].steers
    BY <1>1, <1>2, <1>3, <1>5, <2>1 DEF SessionRecords
  <2>7. TypeOK'
    BY <1>1, <1>3, <2>1, <2>4, <2>5, <2>6 DEF TypeOK
  <2>8. PlaceInv' /\ MutexInv'
    BY <1>1, <1>3, <2>1, <2>4, <2>5, <2>6 DEF Kinds, PlaceInv, MutexInv, Holding
  <2>9. RpcInv'
    BY <1>1, <1>3, <2>1, <2>4, <2>5, <2>6 DEF Kinds, RpcInv, LaunchInv
  <2>10. LaunchInv' /\ CallInv'
    BY <1>1, <1>3, <2>1, <2>4, <2>5, <2>6 DEF Kinds, PlaceInv, MutexInv, Holding, Running, RpcInv,
       LaunchInv, CallInv
  <2>11. ActiveInv'
    BY <1>1, <1>3, <2>1, <2>4, <2>5, <2>6 DEF Kinds, PlaceInv, MutexInv, Holding, Following,
       LaunchInv, CallInv, ActiveInv
  <2>12. SteerInv'
    BY <1>1, <1>3, <2>1, <2>4, <2>5, <2>6 DEF Kinds, PlaceInv, Running, RpcInv, LaunchInv, CallInv,
       ActiveInv, QueueInv, SteerInv
  <2>13. QueueInv'
    BY <1>1, <1>3, <2>1, <2>4, <2>5, <2>6 DEF Kinds, PlaceInv, QueueInv
  <2>14. SparesFollowers /\ KeepsFollowers
    BY <1>1, <1>3, <2>1, <2>4, <2>5, <2>6 DEF SparesFollowers, KeepsFollowers, Following, Kinds,
       PlaceInv, MutexInv, Holding, QueueInv
  <2>15. FollowInv' /\ ObservedInv'
    BY <2>14, SparedFollowers
  <2>16. QED
    BY <2>7, <2>8, <2>9, <2>10, <2>11, <2>12, <2>13, <2>15
<1>6. CASE /\ registry' = None /\ session' = [session EXCEPT ![s].turn = None, ![s].active = 0]
           /\ Return(t)
  <2>1. registry' = None
    BY <1>1, <1>2, <1>3, <1>6 DEF Return, Idle
  <2>2. /\ work' \in [Threads -> WorkRecords]
        /\ \A y \in Threads \ {t} : work'[y] = work[y]
        /\ work'[t].pc = "idle" /\ work'[t].session = None /\ work'[t].target = None
        /\ work'[t].process = None /\ work'[t].scope = None /\ work'[t].failed = FALSE
        /\ work'[t].turn = 0
    BY <1>1, <1>2, <1>3, <1>6, <2>1 DEF Return, Idle, WorkRecords, Labels
  <2>3. /\ session' \in [Sessions -> SessionRecords]
        /\ \A o \in Sessions \ {s} : session'[o] = session[o]
        /\ session'[s].turn = None /\ session'[s].active = 0
        /\ session'[s].rpc = session[s].rpc /\ session'[s].scope = session[s].scope
        /\ session'[s].timer = session[s].timer /\ session'[s].steers = session[s].steers
    BY <1>1, <1>2, <1>3, <1>6, <2>1 DEF SessionRecords
  <2>4. TypeOK'
    BY <1>1, <1>3, <2>1, <2>2, <2>3 DEF TypeOK
  <2>5. PlaceInv' /\ MutexInv'
    BY <1>1, <1>3, <2>1, <2>2, <2>3 DEF Kinds, PlaceInv, MutexInv, Holding
  <2>6. RpcInv'
    BY <1>1, <1>3, <2>1, <2>2, <2>3 DEF Kinds, RpcInv, LaunchInv
  <2>7. LaunchInv' /\ CallInv'
    BY <1>1, <1>3, <2>1, <2>2, <2>3 DEF Kinds, PlaceInv, MutexInv, Holding, Running, RpcInv,
       LaunchInv, CallInv
  <2>8. ActiveInv'
    BY <1>1, <1>3, <2>1, <2>2, <2>3 DEF Kinds, PlaceInv, MutexInv, Holding, Following, LaunchInv,
       CallInv, ActiveInv
  <2>9. SteerInv'
    BY <1>1, <1>3, <2>1, <2>2, <2>3 DEF Kinds, PlaceInv, Running, RpcInv, LaunchInv, CallInv,
       ActiveInv, QueueInv, SteerInv
  <2>10. QueueInv'
    BY <1>1, <1>3, <2>1, <2>2, <2>3 DEF Kinds, PlaceInv, QueueInv
  <2>11. SparesFollowers /\ KeepsFollowers
    BY <1>1, <1>3, <2>1, <2>2, <2>3 DEF SparesFollowers, KeepsFollowers, Following, Kinds, PlaceInv,
       MutexInv, Holding, QueueInv
  <2>12. FollowInv' /\ ObservedInv'
    BY <2>11, SparedFollowers
  <2>13. QED
    BY <2>4, <2>5, <2>6, <2>7, <2>8, <2>9, <2>10, <2>12
<1>7. QED
  BY <1>1, <1>4, <1>5, <1>6 DEF EndCall

LEMMA CloseKeeps ==
    ASSUME IInv, NEW c \in Closers, Close(c)
    PROVE  IInv'
<1> USE RpcAssumption DEF IInv, Threads, Sending, Written, Known, Accepted
<1>1. Kinds /\ work[c].pc = "idle" /\ registry \in Sessions
  BY KindsHold DEF Kinds, PlaceInv, Holding, Close, At
<1>2. /\ work \in [Threads -> WorkRecords]
      /\ session \in [Sessions -> SessionRecords] /\ process \in [Procs -> ProcessRecords]
      /\ work[c] \in WorkRecords
  BY <1>1 DEF TypeOK
<1>3. /\ UNCHANGED <<adapter, session, process>> /\ registry' = None
      /\ counts' \in [calls : 0..MaxCalls, closes : 0..MaxCloses]
  BY <1>1 DEF Close, TypeOK, At
<1>4. [work[c] EXCEPT !.pc = "take", !.target = registry] \in WorkRecords
  BY <1>2, <1>1 DEF WorkRecords, Labels
<1>5. work' = [work EXCEPT ![c] = [work[c] EXCEPT !.pc = "take", !.target = registry]]
  BY <1>1, <1>2, <1>3 DEF Close, WorkRecords
<1>6. work' \in [Threads -> WorkRecords]
  BY <1>2, <1>4, <1>5
<1>7. /\ \A y \in Threads \ {c} : work'[y] = work[y]
      /\ work'[c].pc = "take" /\ work'[c].target = registry
      /\ work'[c].session = work[c].session /\ work'[c].process = work[c].process
      /\ work'[c].scope = work[c].scope /\ work'[c].failed = work[c].failed
      /\ work'[c].turn = work[c].turn
  BY <1>1, <1>2, <1>5 DEF WorkRecords
<1>8. TypeOK'
  BY <1>1, <1>3, <1>6, <1>7 DEF TypeOK
<1>9. PlaceInv' /\ MutexInv'
  BY <1>1, <1>3, <1>6, <1>7 DEF Kinds, PlaceInv, MutexInv, Holding
<1>10. RpcInv'
  BY <1>1, <1>3, <1>6, <1>7 DEF Kinds, RpcInv, LaunchInv
<1>11. LaunchInv' /\ CallInv'
  BY <1>1, <1>3, <1>6, <1>7 DEF Kinds, PlaceInv, MutexInv, Holding, Running, RpcInv, LaunchInv,
     CallInv
<1>12. ActiveInv'
  BY <1>1, <1>3, <1>6, <1>7 DEF Kinds, PlaceInv, MutexInv, Holding, Following, LaunchInv, CallInv,
     ActiveInv
<1>13. SteerInv'
  BY <1>1, <1>3, <1>6, <1>7 DEF Kinds, PlaceInv, Running, RpcInv, LaunchInv, CallInv, ActiveInv,
     QueueInv, SteerInv
<1>14. QueueInv'
  BY <1>1, <1>3, <1>6, <1>7 DEF Kinds, PlaceInv, QueueInv
<1>15. SparesFollowers /\ KeepsFollowers
  BY <1>1, <1>3, <1>6, <1>7 DEF SparesFollowers, KeepsFollowers, Following, Kinds, PlaceInv,
     MutexInv, Holding, QueueInv
<1>16. FollowInv' /\ ObservedInv'
  BY <1>15, SparedFollowers
<1>17. QED
  BY <1>8, <1>9, <1>10, <1>11, <1>12, <1>13, <1>14, <1>16

LEMMA TakeKeeps ==
    ASSUME IInv, NEW x \in Calls \cup Closers, Take(x)
    PROVE  IInv'
<1> USE RpcAssumption DEF IInv, Threads, Sending, Written, Known, Accepted
<1> DEFINE s == work[x].target
           p == session[s].rpc
<1>1. Kinds /\ work[x].pc = "take" /\ s \in Sessions
      /\ (p # None => p \in Procs /\ process[p].state # "unborn") /\ work[x].session \in Sessions \cup {None}
  BY KindsHold DEF Kinds, PlaceInv, Holding, Take, At, RpcInv
<1>2. /\ work \in [Threads -> WorkRecords]
      /\ session \in [Sessions -> SessionRecords] /\ process \in [Procs -> ProcessRecords]
      /\ work[x] \in WorkRecords /\ session[s] \in SessionRecords
  BY <1>1 DEF TypeOK
<1>3. UNCHANGED <<adapter, registry, counts>>
  BY DEF Take, TypeOK, At
<1>4. CASE /\ session' = Unlock(x, [session EXCEPT ![s].timer = FALSE])
           /\ Return(x) /\ UNCHANGED process
  <2>1. UNCHANGED process
    BY <1>1, <1>2, <1>3, <1>4 DEF Unlock, Return, Idle
  <2>2. /\ work' \in [Threads -> WorkRecords]
        /\ \A y \in Threads \ {x} : work'[y] = work[y]
        /\ work'[x].pc = "idle" /\ work'[x].session = None /\ work'[x].target = None
        /\ work'[x].process = None /\ work'[x].scope = None /\ work'[x].failed = FALSE
        /\ work'[x].turn = 0
    BY <1>1, <1>2, <1>3, <1>4, <2>1 DEF Return, Idle, WorkRecords, Labels
  <2>3. /\ session' \in [Sessions -> SessionRecords]
        /\ \A o \in Sessions :
            /\ session'[o].rpc = session[o].rpc /\ session'[o].scope = session[o].scope
            /\ session'[o].active = session[o].active /\ session'[o].steers = session[o].steers
            /\ session'[o].turn = IF o = work[x].session THEN None ELSE session[o].turn
    <3> HIDE DEF IInv
    <3> DEFINE ss == [session EXCEPT ![s].timer = FALSE]
    <3>1. /\ ss \in [Sessions -> SessionRecords]
          /\ \A o \in Sessions :
              /\ ss[o].rpc = session[o].rpc /\ ss[o].scope = session[o].scope
              /\ ss[o].active = session[o].active /\ ss[o].steers = session[o].steers
              /\ ss[o].turn = session[o].turn
      BY <1>1, <1>2 DEF SessionRecords
    <3>2. session' = Unlock(x, ss)
      BY <1>4
    <3> HIDE DEF ss
    <3>3. CASE work[x].session = None
      BY <1>1, <3>1, <3>2, <3>3, RpcAssumption DEF Unlock
    <3>4. CASE work[x].session # None
      <4> DEFINE r == work[x].session
      <4>1. r \in Sessions /\ ss[r] \in SessionRecords /\ session' = [ss EXCEPT ![r] = [ss[r] EXCEPT !.turn = None]]
        BY <1>1, <3>1, <3>2, <3>4 DEF Unlock, SessionRecords
      <4>2. [ss[r] EXCEPT !.turn = None] \in SessionRecords
        BY <4>1 DEF SessionRecords
      <4>3. QED
        BY <3>1, <4>1, <4>2 DEF SessionRecords
    <3>5. QED
      BY <3>3, <3>4
  <2>4. TypeOK'
    BY <1>1, <1>3, <2>1, <2>2, <2>3 DEF TypeOK
  <2>5. PlaceInv' /\ MutexInv'
    BY <1>1, <1>3, <2>1, <2>2, <2>3 DEF Kinds, PlaceInv, MutexInv, Holding
  <2>6. RpcInv'
    BY <1>1, <1>3, <2>1, <2>2, <2>3 DEF Kinds, RpcInv, LaunchInv
  <2>7. LaunchInv' /\ CallInv'
    BY <1>1, <1>3, <2>1, <2>2, <2>3 DEF Kinds, PlaceInv, MutexInv, Holding, Running, RpcInv,
       LaunchInv, CallInv
  <2>8. ActiveInv'
    BY <1>1, <1>3, <2>1, <2>2, <2>3 DEF Kinds, PlaceInv, MutexInv, Holding, Following, LaunchInv,
       CallInv, ActiveInv
  <2>9. SteerInv'
    BY <1>1, <1>3, <2>1, <2>2, <2>3 DEF Kinds, PlaceInv, Running, RpcInv, LaunchInv, CallInv,
       ActiveInv, QueueInv, SteerInv
  <2>10. QueueInv'
    BY <1>1, <1>3, <2>1, <2>2, <2>3 DEF Kinds, PlaceInv, QueueInv
  <2>11. SparesFollowers /\ KeepsFollowers
    BY <1>1, <1>3, <2>1, <2>2, <2>3 DEF SparesFollowers, KeepsFollowers, Following, Kinds, PlaceInv,
       MutexInv, Holding, QueueInv
  <2>12. FollowInv' /\ ObservedInv'
    BY <2>11, SparedFollowers
  <2>13. QED
    BY <2>4, <2>5, <2>6, <2>7, <2>8, <2>9, <2>10, <2>12
<1>5. CASE /\ p # None /\ session' = [session EXCEPT ![s].timer = FALSE]
           /\ Stop(x, p, "closing")
  <2>1. p \in Procs
    BY <1>1, <1>2, <1>3, <1>5 DEF Stop, Finished
  <2>2. [work[x] EXCEPT !.pc = "closing", !.process = p] \in WorkRecords
    BY <1>2, <2>1 DEF WorkRecords, Labels
  <2>3. work' = [work EXCEPT ![x] = [work[x] EXCEPT !.pc = "closing", !.process = p]]
    BY <1>1, <1>2, <1>3, <1>5, <2>1 DEF Stop, WorkRecords
  <2>4. work' \in [Threads -> WorkRecords]
    BY <1>2, <2>2, <2>3
  <2>5. /\ \A y \in Threads \ {x} : work'[y] = work[y]
        /\ work'[x].pc = "closing" /\ work'[x].process = p
        /\ work'[x].session = work[x].session /\ work'[x].target = work[x].target
        /\ work'[x].scope = work[x].scope /\ work'[x].failed = work[x].failed
        /\ work'[x].turn = work[x].turn
    BY <1>1, <1>2, <2>1, <2>3 DEF WorkRecords
  <2>6. /\ session' \in [Sessions -> SessionRecords]
        /\ \A o \in Sessions \ {s} : session'[o] = session[o]
        /\ session'[s].timer = FALSE
        /\ session'[s].turn = session[s].turn /\ session'[s].rpc = session[s].rpc
        /\ session'[s].scope = session[s].scope /\ session'[s].active = session[s].active
        /\ session'[s].steers = session[s].steers
    BY <1>1, <1>2, <1>3, <1>5, <2>1 DEF SessionRecords
  <2>7. process' = Finished(p)
    BY <1>1, <1>2, <1>3, <1>5, <2>1 DEF Stop
  <2>8. process' = Finished(p)
    BY <1>1, <1>2, <2>1, <2>7 DEF Stop
  <2>9. Halted(p)
    BY <1>1, <1>2, <2>1, <2>8, FinishedIsHalted
  <2>10. TypeOK'
    BY <1>1, <1>3, <2>1, <2>4, <2>5, <2>6, <2>9 DEF TypeOK, Halted
  <2>11. PlaceInv' /\ MutexInv'
    BY <1>1, <1>3, <2>1, <2>4, <2>5, <2>6, <2>9 DEF Kinds, PlaceInv, MutexInv, Holding, Halted
  <2>12. RpcInv'
    BY <1>1, <1>3, <2>1, <2>4, <2>5, <2>6, <2>9 DEF Kinds, RpcInv, LaunchInv, Halted
  <2>13. LaunchInv' /\ CallInv'
    BY SMTT(30), <1>1, <1>3, <2>1, <2>4, <2>5, <2>6, <2>9 DEF Kinds, PlaceInv, MutexInv, Holding, Running,
       RpcInv, LaunchInv, CallInv, Halted
  <2>14. ActiveInv'
    BY <1>1, <1>3, <2>1, <2>4, <2>5, <2>6, <2>9 DEF Kinds, PlaceInv, MutexInv, Holding, Following,
       LaunchInv, CallInv, ActiveInv, Halted
  <2>15. SteerInv'
    BY SMTT(30), <1>1, <1>3, <2>1, <2>4, <2>5, <2>6, <2>9 DEF Kinds, PlaceInv, Running, RpcInv, LaunchInv,
       CallInv, ActiveInv, QueueInv, SteerInv, Halted
  <2>16. QueueInv'
    BY <1>1, <1>3, <2>1, <2>4, <2>5, <2>6, <2>9 DEF Kinds, PlaceInv, QueueInv, Halted
  <2>17. SparesFollowers /\ KeepsFollowers
    BY <1>1, <1>3, <2>1, <2>4, <2>5, <2>6, <2>9 DEF SparesFollowers, KeepsFollowers, Following,
       Kinds, PlaceInv, MutexInv, Holding, QueueInv, Halted
  <2>18. FollowInv' /\ ObservedInv'
    BY <2>17, SparedFollowers
  <2>19. QED
    BY <2>10, <2>11, <2>12, <2>13, <2>14, <2>15, <2>16, <2>18
<1>6. QED
  BY <1>1, <1>4, <1>5 DEF Take

LEMMA ClosedKeeps ==
    ASSUME IInv, NEW x \in Calls \cup Closers \cup Callbacks, Closed(x)
    PROVE  IInv'
<1> USE RpcAssumption DEF IInv, Threads, Closed, HasExited, At, Return, Idle, Unlock
<1>1. work[x].process \in Procs
  BY DEF TypeOK, SessionRecords, ProcessRecords, WorkRecords, PlaceInv, Holding
<1>2. TypeOK'
  BY SMTT(30), <1>1 DEF TypeOK, SessionRecords, ProcessRecords, WorkRecords, Labels
<1>3. PlaceInv'
  BY <1>1 DEF Sending, Written, TypeOK, SessionRecords, ProcessRecords, WorkRecords, PlaceInv, Holding
<1>4. MutexInv'
  BY <1>1 DEF TypeOK, SessionRecords, ProcessRecords, WorkRecords, PlaceInv, Holding, MutexInv
<1>5. RpcInv'
  BY <1>1 DEF TypeOK, SessionRecords, ProcessRecords, WorkRecords, PlaceInv, Holding, RpcInv,
     LaunchInv
<1>6. LaunchInv'
  BY <1>1 DEF TypeOK, SessionRecords, ProcessRecords, WorkRecords, PlaceInv, Holding, MutexInv,
     Running, RpcInv, LaunchInv, CallInv
<1>7. CallInv'
  BY <1>1 DEF TypeOK, SessionRecords, ProcessRecords, WorkRecords, PlaceInv, Holding, MutexInv,
     RpcInv, LaunchInv, CallInv
<1>8. ActiveInv'
  BY <1>1 DEF TypeOK, SessionRecords, ProcessRecords, WorkRecords, PlaceInv, Holding, MutexInv,
     Following, LaunchInv, CallInv, ActiveInv
<1>9. SteerInv'
  BY <1>1 DEF TypeOK, SessionRecords, ProcessRecords, WorkRecords, PlaceInv, Holding, MutexInv,
     Running, RpcInv, LaunchInv, CallInv, ActiveInv, QueueInv, SteerInv
<1>10. QueueInv'
  BY <1>1 DEF TypeOK, SessionRecords, ProcessRecords, WorkRecords, PlaceInv, Holding, QueueInv
<1>11. SparesFollowers /\ KeepsFollowers
  BY <1>1 DEF TypeOK, SessionRecords, WorkRecords, SparesFollowers, KeepsFollowers, Following, PlaceInv
<1>12. FollowInv' /\ ObservedInv'
  BY <1>11, SparedFollowers
<1>13. QED
  BY <1>2, <1>3, <1>4, <1>5, <1>6, <1>7, <1>8, <1>9, <1>10, <1>12

LEMMA TimerFiresKeeps ==
    ASSUME IInv, NEW s \in Sessions, NEW k \in Callbacks, TimerFires(s, k)
    PROVE  IInv'
<1> USE RpcAssumption DEF IInv, Threads, Sending, Written, Known, Accepted
<1>1. Kinds /\ work[k].pc = "idle"
  BY KindsHold DEF Kinds, PlaceInv, Holding, TimerFires, At
<1>2. /\ work \in [Threads -> WorkRecords]
      /\ session \in [Sessions -> SessionRecords] /\ process \in [Procs -> ProcessRecords]
      /\ work[k] \in WorkRecords
  BY <1>1 DEF TypeOK
<1>3. UNCHANGED <<adapter, registry, process, counts>>
  BY DEF TimerFires, At, TypeOK, At
<1>4. [work[k] EXCEPT !.pc = "fired", !.session = s] \in WorkRecords
  BY <1>2, <1>1 DEF WorkRecords, Labels
<1>5. work' = [work EXCEPT ![k] = [work[k] EXCEPT !.pc = "fired", !.session = s]]
  BY <1>1, <1>2, <1>3 DEF TimerFires, At, WorkRecords
<1>6. work' \in [Threads -> WorkRecords]
  BY <1>2, <1>4, <1>5
<1>7. /\ \A y \in Threads \ {k} : work'[y] = work[y]
      /\ work'[k].pc = "fired" /\ work'[k].session = s
      /\ work'[k].target = work[k].target /\ work'[k].process = work[k].process
      /\ work'[k].scope = work[k].scope /\ work'[k].failed = work[k].failed
      /\ work'[k].turn = work[k].turn
  BY <1>1, <1>2, <1>5 DEF WorkRecords
<1>8. /\ session' \in [Sessions -> SessionRecords]
      /\ \A o \in Sessions \ {s} : session'[o] = session[o]
      /\ session'[s].timer = FALSE
      /\ session'[s].turn = session[s].turn /\ session'[s].rpc = session[s].rpc
      /\ session'[s].scope = session[s].scope /\ session'[s].active = session[s].active
      /\ session'[s].steers = session[s].steers
  <2> HIDE DEF IInv
  <2>1. session[s] \in SessionRecords
    BY <1>2
  <2>2. session' = [session EXCEPT ![s] = [session[s] EXCEPT !.timer = FALSE]]
    BY <1>2 DEF TimerFires, SessionRecords
  <2>3. [session[s] EXCEPT !.timer = FALSE] \in SessionRecords
    BY <2>1 DEF SessionRecords
  <2>4. /\ session' \in [Sessions -> SessionRecords] /\ session'[s] = [session[s] EXCEPT !.timer = FALSE]
        /\ \A o \in Sessions \ {s} : session'[o] = session[o]
    BY <1>2, <2>2, <2>3
  <2>5. QED
    BY <2>1, <2>4 DEF SessionRecords
<1>9. TypeOK'
  BY <1>1, <1>3, <1>6, <1>7, <1>8 DEF TypeOK
<1>10. PlaceInv' /\ MutexInv'
  BY <1>1, <1>3, <1>6, <1>7, <1>8 DEF Kinds, PlaceInv, MutexInv, Holding
<1>11. RpcInv'
  BY <1>1, <1>3, <1>6, <1>7, <1>8 DEF Kinds, RpcInv, LaunchInv
<1>12. LaunchInv' /\ CallInv'
  BY <1>1, <1>3, <1>6, <1>7, <1>8 DEF Kinds, PlaceInv, MutexInv, Holding, Running, RpcInv,
     LaunchInv, CallInv
<1>13. ActiveInv'
  BY <1>1, <1>3, <1>6, <1>7, <1>8 DEF Kinds, PlaceInv, MutexInv, Holding, Following, LaunchInv,
     CallInv, ActiveInv
<1>14. SteerInv'
  BY <1>1, <1>3, <1>6, <1>7, <1>8 DEF Kinds, PlaceInv, Running, RpcInv, LaunchInv, CallInv,
     ActiveInv, QueueInv, SteerInv
<1>15. QueueInv'
  BY <1>1, <1>3, <1>6, <1>7, <1>8 DEF Kinds, PlaceInv, QueueInv
<1>16. SparesFollowers /\ KeepsFollowers
  BY <1>1, <1>3, <1>6, <1>7, <1>8 DEF SparesFollowers, KeepsFollowers, Following, Kinds, PlaceInv,
     MutexInv, Holding, QueueInv
<1>17. FollowInv' /\ ObservedInv'
  BY <1>16, SparedFollowers
<1>18. QED
  BY <1>9, <1>10, <1>11, <1>12, <1>13, <1>14, <1>15, <1>17

LEMMA ExpireLocksKeeps ==
    ASSUME IInv, NEW k \in Callbacks, ExpireLocks(k)
    PROVE  IInv'
<1> USE RpcAssumption DEF IInv, Threads, Sending, Written, Known, Accepted
<1> DEFINE s == work[k].session
<1>1. Kinds /\ work[k].pc = "fired" /\ s \in Sessions
  BY KindsHold DEF Kinds, PlaceInv, Holding, ExpireLocks, At
<1>2. /\ work \in [Threads -> WorkRecords]
      /\ session \in [Sessions -> SessionRecords] /\ process \in [Procs -> ProcessRecords]
      /\ work[k] \in WorkRecords /\ work[k].session \in Sessions /\ session[s] \in SessionRecords
  BY <1>1 DEF TypeOK
<1>3. UNCHANGED <<adapter, registry, process, counts>>
  BY DEF ExpireLocks, TypeOK, At
<1>4. CASE Return(k) /\ UNCHANGED session
  <2>1. UNCHANGED session
    BY <1>1, <1>2, <1>3, <1>4 DEF Return, Idle
  <2>2. /\ work' \in [Threads -> WorkRecords]
        /\ \A y \in Threads \ {k} : work'[y] = work[y]
        /\ work'[k].pc = "idle" /\ work'[k].session = None /\ work'[k].target = None
        /\ work'[k].process = None /\ work'[k].scope = None /\ work'[k].failed = FALSE
        /\ work'[k].turn = 0
    BY <1>1, <1>2, <1>3, <1>4, <2>1 DEF Return, Idle, WorkRecords, Labels
  <2>3. TypeOK'
    BY <1>1, <1>3, <2>1, <2>2 DEF TypeOK
  <2>4. PlaceInv' /\ MutexInv'
    BY <1>1, <1>3, <2>1, <2>2 DEF Kinds, PlaceInv, MutexInv, Holding
  <2>5. RpcInv'
    BY <1>1, <1>3, <2>1, <2>2 DEF Kinds, RpcInv, LaunchInv
  <2>6. LaunchInv' /\ CallInv'
    BY <1>1, <1>3, <2>1, <2>2 DEF Kinds, PlaceInv, MutexInv, Holding, Running, RpcInv, LaunchInv,
       CallInv
  <2>7. ActiveInv'
    BY <1>1, <1>3, <2>1, <2>2 DEF Kinds, PlaceInv, MutexInv, Holding, Following, LaunchInv, CallInv,
       ActiveInv
  <2>8. SteerInv'
    BY <1>1, <1>3, <2>1, <2>2 DEF Kinds, PlaceInv, Running, RpcInv, LaunchInv, CallInv, ActiveInv,
       QueueInv, SteerInv
  <2>9. QueueInv'
    BY <1>1, <1>3, <2>1, <2>2 DEF Kinds, PlaceInv, QueueInv
  <2>10. SparesFollowers /\ KeepsFollowers
    BY <1>1, <1>3, <2>1, <2>2 DEF SparesFollowers, KeepsFollowers, Following, Kinds, PlaceInv,
       MutexInv, Holding, QueueInv
  <2>11. FollowInv' /\ ObservedInv'
    BY <2>10, SparedFollowers
  <2>12. QED
    BY <2>3, <2>4, <2>5, <2>6, <2>7, <2>8, <2>9, <2>11
<1>5. CASE /\ session[s].turn = None /\ session' = [session EXCEPT ![s].turn = k]
           /\ Step(k, "expire")
  <2>1. session[s].turn = None
    BY <1>1, <1>2, <1>3, <1>5 DEF Step
  <2>2. /\ work' \in [Threads -> WorkRecords]
        /\ \A y \in Threads \ {k} : work'[y] = work[y]
        /\ work'[k].pc = "expire"
        /\ work'[k].session = work[k].session /\ work'[k].target = work[k].target
        /\ work'[k].process = work[k].process /\ work'[k].scope = work[k].scope
        /\ work'[k].failed = work[k].failed /\ work'[k].turn = work[k].turn
    BY <1>1, <1>2, <1>3, <1>5, <2>1 DEF Step, WorkRecords, Labels
  <2>3. /\ session' \in [Sessions -> SessionRecords]
        /\ \A o \in Sessions \ {s} : session'[o] = session[o]
        /\ session'[s].turn = k
        /\ session'[s].rpc = session[s].rpc /\ session'[s].scope = session[s].scope
        /\ session'[s].timer = session[s].timer /\ session'[s].active = session[s].active
        /\ session'[s].steers = session[s].steers
    BY <1>1, <1>2, <1>3, <1>5, <2>1 DEF SessionRecords
  <2>4. TypeOK'
    BY <1>1, <1>3, <2>1, <2>2, <2>3 DEF TypeOK
  <2>5. PlaceInv' /\ MutexInv'
    BY <1>1, <1>3, <2>1, <2>2, <2>3 DEF Kinds, PlaceInv, MutexInv, Holding
  <2>6. RpcInv'
    BY <1>1, <1>3, <2>1, <2>2, <2>3 DEF Kinds, RpcInv, LaunchInv
  <2>7. LaunchInv' /\ CallInv'
    BY <1>1, <1>3, <2>1, <2>2, <2>3 DEF Kinds, PlaceInv, MutexInv, Holding, Running, RpcInv,
       LaunchInv, CallInv
  <2>8. ActiveInv'
    BY <1>1, <1>3, <2>1, <2>2, <2>3 DEF Kinds, PlaceInv, MutexInv, Holding, Following, LaunchInv,
       CallInv, ActiveInv
  <2>9. SteerInv'
    BY <1>1, <1>3, <2>1, <2>2, <2>3 DEF Kinds, PlaceInv, Running, RpcInv, LaunchInv, CallInv,
       ActiveInv, QueueInv, SteerInv
  <2>10. QueueInv'
    BY <1>1, <1>3, <2>1, <2>2, <2>3 DEF Kinds, PlaceInv, QueueInv
  <2>11. SparesFollowers /\ KeepsFollowers
    BY <1>1, <1>3, <2>1, <2>2, <2>3 DEF SparesFollowers, KeepsFollowers, Following, Kinds, PlaceInv,
       MutexInv, Holding, QueueInv
  <2>12. FollowInv' /\ ObservedInv'
    BY <2>11, SparedFollowers
  <2>13. QED
    BY <2>4, <2>5, <2>6, <2>7, <2>8, <2>9, <2>10, <2>12
<1>6. QED
  BY <1>1, <1>4, <1>5 DEF ExpireLocks

LEMMA ExpireKeeps ==
    ASSUME IInv, NEW k \in Callbacks, Expire(k)
    PROVE  IInv'
<1> USE RpcAssumption DEF IInv, Threads, Sending, Written, Known, Accepted
<1> DEFINE s == work[k].session
           p == session[s].rpc
<1>1. Kinds /\ work[k].pc = "expire" /\ s \in Sessions /\ session[s].turn = k
      /\ (p # None => process[p].state # "unborn")
  BY KindsHold DEF Kinds, PlaceInv, Holding, Expire, At, MutexInv, RpcInv
<1>2. /\ work \in [Threads -> WorkRecords]
      /\ session \in [Sessions -> SessionRecords] /\ process \in [Procs -> ProcessRecords]
      /\ work[k] \in WorkRecords /\ work[k].session \in Sessions /\ session[s] \in SessionRecords
  BY <1>1 DEF TypeOK
<1>3. /\ UNCHANGED <<adapter, counts>>
      /\ registry' \in Sessions \cup {None}
  BY <1>1 DEF Expire, TypeOK, At
<1>4. CASE p \in Procs /\ Stop(k, p, "closing") /\ UNCHANGED session
  <2>1. UNCHANGED session /\ p \in Procs
    BY <1>1, <1>2, <1>3, <1>4 DEF Stop, Finished
  <2>2. [work[k] EXCEPT !.pc = "closing", !.process = p] \in WorkRecords
    BY <1>2, <2>1 DEF WorkRecords, Labels
  <2>3. work' = [work EXCEPT ![k] = [work[k] EXCEPT !.pc = "closing", !.process = p]]
    BY <1>1, <1>2, <1>3, <1>4, <2>1 DEF Stop, WorkRecords
  <2>4. work' \in [Threads -> WorkRecords]
    BY <1>2, <2>2, <2>3
  <2>5. /\ \A y \in Threads \ {k} : work'[y] = work[y]
        /\ work'[k].pc = "closing" /\ work'[k].process = p
        /\ work'[k].session = work[k].session /\ work'[k].target = work[k].target
        /\ work'[k].scope = work[k].scope /\ work'[k].failed = work[k].failed
        /\ work'[k].turn = work[k].turn
    BY <1>1, <1>2, <2>1, <2>3 DEF WorkRecords
  <2>6. process' = Finished(p)
    BY <1>1, <1>2, <1>3, <1>4, <2>1 DEF Stop
  <2>7. process' = Finished(p)
    BY <1>1, <1>2, <2>1, <2>6 DEF Stop
  <2>8. Halted(p)
    BY <1>1, <1>2, <2>1, <2>7, FinishedIsHalted
  <2>9. TypeOK'
    BY <1>1, <1>3, <2>1, <2>4, <2>5, <2>8 DEF TypeOK, Halted
  <2>10. PlaceInv' /\ MutexInv'
    BY <1>1, <1>3, <2>1, <2>4, <2>5, <2>8 DEF Kinds, PlaceInv, MutexInv, Holding, Halted
  <2>11. RpcInv'
    BY <1>1, <1>3, <2>1, <2>4, <2>5, <2>8 DEF Kinds, RpcInv, LaunchInv, Halted
  <2>12. LaunchInv' /\ CallInv'
    BY <1>1, <1>3, <2>1, <2>4, <2>5, <2>8 DEF Kinds, PlaceInv, MutexInv, Holding, Running, RpcInv,
       LaunchInv, CallInv, Halted
  <2>13. ActiveInv'
    BY <1>1, <1>3, <2>1, <2>4, <2>5, <2>8 DEF Kinds, PlaceInv, MutexInv, Holding, Following,
       LaunchInv, CallInv, ActiveInv, Halted
  <2>14. SteerInv'
    BY <1>1, <1>3, <2>1, <2>4, <2>5, <2>8 DEF Kinds, PlaceInv, Running, RpcInv, LaunchInv, CallInv,
       ActiveInv, QueueInv, SteerInv, Halted
  <2>15. QueueInv'
    BY <1>1, <1>3, <2>1, <2>4, <2>5, <2>8 DEF Kinds, PlaceInv, QueueInv, Halted
  <2>16. SparesFollowers /\ KeepsFollowers
    BY <1>1, <1>3, <2>1, <2>4, <2>5, <2>8 DEF SparesFollowers, KeepsFollowers, Following, Kinds,
       PlaceInv, MutexInv, Holding, QueueInv, Halted
  <2>17. FollowInv' /\ ObservedInv'
    BY <2>16, SparedFollowers
  <2>18. QED
    BY <2>9, <2>10, <2>11, <2>12, <2>13, <2>14, <2>15, <2>17
<1>5. CASE session' = Unlock(k, session) /\ Return(k) /\ UNCHANGED process
  <2>1. UNCHANGED process
    BY <1>1, <1>2, <1>3, <1>5 DEF Unlock, Return, Idle
  <2>2. /\ work' \in [Threads -> WorkRecords]
        /\ \A y \in Threads \ {k} : work'[y] = work[y]
        /\ work'[k].pc = "idle" /\ work'[k].session = None /\ work'[k].target = None
        /\ work'[k].process = None /\ work'[k].scope = None /\ work'[k].failed = FALSE
        /\ work'[k].turn = 0
    BY <1>1, <1>2, <1>3, <1>5, <2>1 DEF Return, Idle, WorkRecords, Labels
  <2>3. /\ session' \in [Sessions -> SessionRecords]
        /\ \A o \in Sessions \ {s} : session'[o] = session[o]
        /\ session'[s].turn = None
        /\ session'[s].rpc = session[s].rpc /\ session'[s].scope = session[s].scope
        /\ session'[s].timer = session[s].timer /\ session'[s].active = session[s].active
        /\ session'[s].steers = session[s].steers
    BY <1>1, <1>2, <1>3, <1>5, <2>1 DEF Unlock, SessionRecords
  <2>4. TypeOK'
    BY <1>1, <1>3, <2>1, <2>2, <2>3 DEF TypeOK
  <2>5. PlaceInv' /\ MutexInv'
    BY <1>1, <1>3, <2>1, <2>2, <2>3 DEF Kinds, PlaceInv, MutexInv, Holding
  <2>6. RpcInv'
    BY <1>1, <1>3, <2>1, <2>2, <2>3 DEF Kinds, RpcInv, LaunchInv
  <2>7. LaunchInv' /\ CallInv'
    BY <1>1, <1>3, <2>1, <2>2, <2>3 DEF Kinds, PlaceInv, MutexInv, Holding, Running, RpcInv,
       LaunchInv, CallInv
  <2>8. ActiveInv'
    BY <1>1, <1>3, <2>1, <2>2, <2>3 DEF Kinds, PlaceInv, MutexInv, Holding, Following, LaunchInv,
       CallInv, ActiveInv
  <2>9. SteerInv'
    BY <1>1, <1>3, <2>1, <2>2, <2>3 DEF Kinds, PlaceInv, Running, RpcInv, LaunchInv, CallInv,
       ActiveInv, QueueInv, SteerInv
  <2>10. QueueInv'
    BY <1>1, <1>3, <2>1, <2>2, <2>3 DEF Kinds, PlaceInv, QueueInv
  <2>11. SparesFollowers /\ KeepsFollowers
    BY <1>1, <1>3, <2>1, <2>2, <2>3 DEF SparesFollowers, KeepsFollowers, Following, Kinds, PlaceInv,
       MutexInv, Holding, QueueInv
  <2>12. FollowInv' /\ ObservedInv'
    BY <2>11, SparedFollowers
  <2>13. QED
    BY <2>4, <2>5, <2>6, <2>7, <2>8, <2>9, <2>10, <2>12
<1>6. QED
  BY <1>1, <1>4, <1>5 DEF Expire, Kinds

LEMMA FindKeeps ==
    ASSUME IInv, NEW d \in Senders, Find(d)
    PROVE  IInv'
<1> USE RpcAssumption DEF IInv, Threads, Sending, Written, Known, Accepted
<1>1. Kinds /\ work[d].pc = "idle" /\ registry \in Sessions
  BY KindsHold DEF Kinds, PlaceInv, Holding, Find, At
<1>2. /\ work \in [Threads -> WorkRecords]
      /\ session \in [Sessions -> SessionRecords] /\ process \in [Procs -> ProcessRecords]
      /\ work[d] \in WorkRecords
  BY <1>1 DEF TypeOK
<1>3. UNCHANGED <<adapter, registry, session, process, counts>>
  BY DEF Find, At, TypeOK, At
<1>4. [work[d] EXCEPT !.pc = "read", !.target = registry] \in WorkRecords
  BY <1>2, <1>1 DEF WorkRecords, Labels
<1>5. work' = [work EXCEPT ![d] = [work[d] EXCEPT !.pc = "read", !.target = registry]]
  BY <1>1, <1>2, <1>3 DEF Find, At, WorkRecords
<1>6. work' \in [Threads -> WorkRecords]
  BY <1>2, <1>4, <1>5
<1>7. /\ \A y \in Threads \ {d} : work'[y] = work[y]
      /\ work'[d].pc = "read" /\ work'[d].target = registry
      /\ work'[d].session = work[d].session /\ work'[d].process = work[d].process
      /\ work'[d].scope = work[d].scope /\ work'[d].failed = work[d].failed
      /\ work'[d].turn = work[d].turn
  BY <1>1, <1>2, <1>5 DEF WorkRecords
<1>8. TypeOK'
  BY <1>1, <1>3, <1>6, <1>7 DEF TypeOK
<1>9. PlaceInv' /\ MutexInv'
  BY <1>1, <1>3, <1>6, <1>7 DEF Kinds, PlaceInv, MutexInv, Holding
<1>10. RpcInv'
  BY <1>1, <1>3, <1>6, <1>7 DEF Kinds, RpcInv, LaunchInv
<1>11. LaunchInv' /\ CallInv'
  BY <1>1, <1>3, <1>6, <1>7 DEF Kinds, PlaceInv, MutexInv, Holding, Running, RpcInv, LaunchInv,
     CallInv
<1>12. ActiveInv'
  BY <1>1, <1>3, <1>6, <1>7 DEF Kinds, PlaceInv, MutexInv, Holding, Following, LaunchInv, CallInv,
     ActiveInv
<1>13. SteerInv'
  BY <1>1, <1>3, <1>6, <1>7 DEF Kinds, PlaceInv, Running, RpcInv, LaunchInv, CallInv, ActiveInv,
     QueueInv, SteerInv
<1>14. QueueInv'
  BY <1>1, <1>3, <1>6, <1>7 DEF Kinds, PlaceInv, QueueInv
<1>15. SparesFollowers /\ KeepsFollowers
  BY <1>1, <1>3, <1>6, <1>7 DEF SparesFollowers, KeepsFollowers, Following, Kinds, PlaceInv,
     MutexInv, Holding, QueueInv
<1>16. FollowInv' /\ ObservedInv'
  BY <1>15, SparedFollowers
<1>17. QED
  BY <1>8, <1>9, <1>10, <1>11, <1>12, <1>13, <1>14, <1>16

LEMMA RegisterKeeps ==
    ASSUME IInv, NEW d \in Senders, Register(d)
    PROVE  IInv'
<1> USE RpcAssumption DEF IInv, Threads, Sending, Written, Known, Accepted
<1> DEFINE s == work[d].target
<1>1. Kinds /\ work[d].pc = "read" /\ s \in Sessions
  BY KindsHold DEF Kinds, PlaceInv, Holding, Register, At
<1>2. /\ work \in [Threads -> WorkRecords]
      /\ session \in [Sessions -> SessionRecords] /\ process \in [Procs -> ProcessRecords]
      /\ work[d] \in WorkRecords /\ session[s] \in SessionRecords
  BY <1>1 DEF TypeOK
<1>3. UNCHANGED <<adapter, registry, process, counts>>
  BY DEF Register, TypeOK, At
<1>4. CASE /\ session[s].rpc # None /\ session[s].active # 0
           /\ session' = [session EXCEPT ![s].steers = @ \cup {d}]
           /\ work' = [work EXCEPT ![d].pc = "steer", ![d].process = session[s].rpc, ![d].turn = session[s].active]
  <2>1. /\ session[s].rpc \in Procs /\ process[session[s].rpc].state # "unborn"
        /\ session[s].active # 0 /\ session[s].active \in 0..MaxTurns
    BY <1>1, <1>2, <1>3, <1>4 DEF Kinds, RpcInv
  <2>2. [work[d] EXCEPT !.pc = "steer", !.process = session[s].rpc, !.turn = session[s].active] \in WorkRecords
    BY <1>2, <2>1 DEF WorkRecords, Labels
  <2>3. work' = [work EXCEPT ![d] = [work[d] EXCEPT !.pc = "steer", !.process = session[s].rpc, !.turn = session[s].active]]
    BY <1>1, <1>2, <1>3, <1>4, <2>1 DEF WorkRecords
  <2>4. work' \in [Threads -> WorkRecords]
    BY <1>2, <2>2, <2>3
  <2>5. /\ \A y \in Threads \ {d} : work'[y] = work[y]
        /\ work'[d].pc = "steer" /\ work'[d].process = session[s].rpc
        /\ work'[d].turn = session[s].active
        /\ work'[d].session = work[d].session /\ work'[d].target = work[d].target
        /\ work'[d].scope = work[d].scope /\ work'[d].failed = work[d].failed
    BY <1>1, <1>2, <2>1, <2>3 DEF WorkRecords
  <2>6. /\ session' \in [Sessions -> SessionRecords]
        /\ \A o \in Sessions \ {s} : session'[o] = session[o]
        /\ session'[s].steers = session[s].steers \cup {d}
        /\ session'[s].turn = session[s].turn /\ session'[s].rpc = session[s].rpc
        /\ session'[s].scope = session[s].scope /\ session'[s].timer = session[s].timer
        /\ session'[s].active = session[s].active
    BY <1>1, <1>2, <1>3, <1>4, <2>1 DEF SessionRecords
  <2>7. TypeOK'
    BY <1>1, <1>3, <2>1, <2>4, <2>5, <2>6 DEF TypeOK
  <2>8. PlaceInv' /\ MutexInv'
    BY <1>1, <1>3, <2>1, <2>4, <2>5, <2>6 DEF Kinds, PlaceInv, MutexInv, Holding
  <2>9. RpcInv'
    BY <1>1, <1>3, <2>1, <2>4, <2>5, <2>6 DEF Kinds, RpcInv, LaunchInv
  <2>10. LaunchInv' /\ CallInv'
    BY SMTT(30), <1>1, <1>3, <2>1, <2>4, <2>5, <2>6 DEF Kinds, PlaceInv, MutexInv, Holding, Running, RpcInv,
       LaunchInv, CallInv
  <2>11. ActiveInv'
    BY <1>1, <1>3, <2>1, <2>4, <2>5, <2>6 DEF Kinds, PlaceInv, MutexInv, Holding, Following,
       LaunchInv, CallInv, ActiveInv
  <2>12. SteerInv'
    BY SMTT(30), <1>1, <1>3, <2>1, <2>4, <2>5, <2>6 DEF Kinds, PlaceInv, Running, RpcInv, LaunchInv, CallInv,
       ActiveInv, QueueInv, SteerInv
  <2>13. QueueInv'
    BY <1>1, <1>3, <2>1, <2>4, <2>5, <2>6 DEF Kinds, PlaceInv, QueueInv
  <2>14. SparesFollowers /\ KeepsFollowers
    BY <1>1, <1>3, <2>1, <2>4, <2>5, <2>6 DEF SparesFollowers, KeepsFollowers, Following, Kinds,
       PlaceInv, MutexInv, Holding, QueueInv
  <2>15. FollowInv' /\ ObservedInv'
    BY <2>14, SparedFollowers
  <2>16. QED
    BY <2>7, <2>8, <2>9, <2>10, <2>11, <2>12, <2>13, <2>15
<1>5. CASE Return(d) /\ UNCHANGED session
  <2>1. UNCHANGED session
    BY <1>1, <1>2, <1>3, <1>5 DEF Return, Idle
  <2>2. /\ work' \in [Threads -> WorkRecords]
        /\ \A y \in Threads \ {d} : work'[y] = work[y]
        /\ work'[d].pc = "idle" /\ work'[d].session = None /\ work'[d].target = None
        /\ work'[d].process = None /\ work'[d].scope = None /\ work'[d].failed = FALSE
        /\ work'[d].turn = 0
    BY <1>1, <1>2, <1>3, <1>5, <2>1 DEF Return, Idle, WorkRecords, Labels
  <2>3. TypeOK'
    BY <1>1, <1>3, <2>1, <2>2 DEF TypeOK
  <2>4. PlaceInv' /\ MutexInv'
    BY <1>1, <1>3, <2>1, <2>2 DEF Kinds, PlaceInv, MutexInv, Holding
  <2>5. RpcInv'
    BY <1>1, <1>3, <2>1, <2>2 DEF Kinds, RpcInv, LaunchInv
  <2>6. LaunchInv' /\ CallInv'
    BY <1>1, <1>3, <2>1, <2>2 DEF Kinds, PlaceInv, MutexInv, Holding, Running, RpcInv, LaunchInv,
       CallInv
  <2>7. ActiveInv'
    BY <1>1, <1>3, <2>1, <2>2 DEF Kinds, PlaceInv, MutexInv, Holding, Following, LaunchInv, CallInv,
       ActiveInv
  <2>8. SteerInv'
    BY <1>1, <1>3, <2>1, <2>2 DEF Kinds, PlaceInv, Running, RpcInv, LaunchInv, CallInv, ActiveInv,
       QueueInv, SteerInv
  <2>9. QueueInv'
    BY <1>1, <1>3, <2>1, <2>2 DEF Kinds, PlaceInv, QueueInv
  <2>10. SparesFollowers /\ KeepsFollowers
    BY <1>1, <1>3, <2>1, <2>2 DEF SparesFollowers, KeepsFollowers, Following, Kinds, PlaceInv,
       MutexInv, Holding, QueueInv
  <2>11. FollowInv' /\ ObservedInv'
    BY <2>10, SparedFollowers
  <2>12. QED
    BY <2>3, <2>4, <2>5, <2>6, <2>7, <2>8, <2>9, <2>11
<1>6. QED
  BY <1>1, <1>4, <1>5 DEF Register

LEMMA SteerKeeps ==
    ASSUME IInv, NEW d \in Senders, Steer(d)
    PROVE  IInv'
<1> USE RpcAssumption DEF IInv, Threads, Sending, Written, Known, Accepted
<1> DEFINE p == work[d].process
<1>1. Kinds /\ work[d].pc \in {"steer", "late"} /\ p \in Procs /\ process[p].state = "running"
  BY KindsHold DEF Kinds, PlaceInv, Holding, Steer, Running
<1>2. /\ work \in [Threads -> WorkRecords]
      /\ session \in [Sessions -> SessionRecords] /\ process \in [Procs -> ProcessRecords]
      /\ work[d] \in WorkRecords /\ work[d].process \in Procs /\ process[p] \in ProcessRecords
  BY <1>1 DEF TypeOK
<1>3. UNCHANGED <<adapter, registry, session, counts>>
  BY DEF Steer
<1>4. ASSUME process[p].busy, process[p].turns = work[d].turn,
             process' = [process EXCEPT ![p].queued = @ \cup {d}],
             NEW label \in {"taken", "lost"}, label = IF work[d].pc = "steer" THEN "taken" ELSE "lost",
             Step(d, label)
      PROVE  IInv'
  <2>1. \A q \in Procs : d \notin process[q].queued \cup process[q].items
    BY <1>1 DEF QueueInv
  <2>2. [work[d] EXCEPT !.pc = label] \in WorkRecords
    BY <1>2 DEF WorkRecords, Labels
  <2>3. work' = [work EXCEPT ![d] = [work[d] EXCEPT !.pc = label]]
    BY <1>2, <1>4 DEF Step, WorkRecords
  <2>4. work' \in [Threads -> WorkRecords]
    BY <1>2, <2>2, <2>3
  <2>5. /\ \A y \in Threads \ {d} : work'[y] = work[y]
        /\ work'[d].pc = label
        /\ work'[d].session = work[d].session /\ work'[d].process = work[d].process
        /\ work'[d].target = work[d].target
        /\ work'[d].scope = work[d].scope /\ work'[d].failed = work[d].failed
        /\ work'[d].turn = work[d].turn
    BY <1>1, <1>2, <2>3 DEF WorkRecords
  <2>6. /\ process' \in [Procs -> ProcessRecords]
        /\ \A q \in Procs \ {p} : process'[q] = process[q]
        /\ process'[p].queued = process[p].queued \cup {d}
        /\ process'[p].state = process[p].state /\ process'[p].scope = process[p].scope
        /\ process'[p].busy = process[p].busy /\ process'[p].turns = process[p].turns
        /\ process'[p].result = process[p].result /\ process'[p].items = process[p].items
    <3> HIDE DEF IInv
    <3>1. process' = [process EXCEPT ![p] = [process[p] EXCEPT !.queued = @ \cup {d}]]
      BY <1>2, <1>4 DEF ProcessRecords
    <3>2. [process[p] EXCEPT !.queued = @ \cup {d}] \in ProcessRecords
      BY <1>2 DEF ProcessRecords
    <3>3. QED
      BY <1>1, <1>2, <3>1, <3>2 DEF ProcessRecords
  <2>7. TypeOK'
    BY <1>1, <1>3, <1>4, <2>1, <2>4, <2>5, <2>6 DEF TypeOK
  <2>8. PlaceInv' /\ MutexInv'
    BY <1>1, <1>3, <1>4, <2>1, <2>4, <2>5, <2>6 DEF Kinds, PlaceInv, MutexInv, Holding
  <2>9. RpcInv'
    BY <1>1, <1>3, <1>4, <2>1, <2>4, <2>5, <2>6 DEF Kinds, RpcInv, LaunchInv
  <2>10. LaunchInv' /\ CallInv'
    BY SMTT(30), <1>1, <1>3, <1>4, <2>1, <2>4, <2>5, <2>6 DEF Kinds, PlaceInv, MutexInv, Holding, Running, RpcInv,
       LaunchInv, CallInv
  <2>11. ActiveInv'
    BY <1>1, <1>3, <1>4, <2>1, <2>4, <2>5, <2>6 DEF Kinds, PlaceInv, MutexInv, Holding, Following,
       LaunchInv, CallInv, ActiveInv
  <2>12. SteerInv'
    BY SMTT(30), <1>1, <1>3, <1>4, <2>1, <2>4, <2>5, <2>6 DEF Kinds, PlaceInv, Running, RpcInv, LaunchInv, CallInv,
       ActiveInv, QueueInv, SteerInv
  <2>13. QueueInv'
    <3> SUFFICES ASSUME NEW q \in Procs
                 PROVE  /\ \A e \in process'[q].queued \cup process'[q].items :
                             work'[e].pc \in Accepted \cup {"lost"} /\ work'[e].process = q
                        /\ process'[q].queued \cap process'[q].items = {}
                        /\ ~process'[q].busy /\ process'[q].result = "failed" => process'[q].queued = {}
                        /\ process'[q].state = "unborn" => ~process'[q].busy /\ process'[q].queued = {}
      BY DEF QueueInv
    <3>1. /\ \A e \in process[q].queued \cup process[q].items :
               e \in Senders /\ e # d /\ work[e].pc \in Accepted \cup {"lost"} /\ work[e].process = q
          /\ process[q].queued \cap process[q].items = {}
          /\ ~process[q].busy /\ process[q].result = "failed" => process[q].queued = {}
          /\ process[q].state = "unborn" => ~process[q].busy /\ process[q].queued = {}
      BY <1>1, <2>1 DEF Kinds, QueueInv
    <3>2. CASE q = p
      <4> HIDE DEF IInv
      <4>1. \A e \in process'[p].queued \cup process'[p].items : e = d \/ e \in process[p].queued \cup process[p].items
        BY <2>6
      <4>2. \A e \in process'[p].queued \cup process'[p].items : work'[e].pc \in Accepted \cup {"lost"} /\ work'[e].process = p
        BY <1>4, <2>5, <3>1, <3>2, <4>1
      <4>3. process'[p].queued \cap process'[p].items = {}
        BY <2>1, <2>6, <3>1, <3>2
      <4>4. process'[p].busy /\ process'[p].state = "running"
        BY <1>1, <1>4, <2>6
      <4>5. QED
        BY <3>2, <4>2, <4>3, <4>4
    <3>3. CASE q # p
      BY <2>5, <2>6, <3>1, <3>3
    <3>4. QED
      BY <3>2, <3>3
  <2>14. \A q \in Procs : (Lost(q) => LostThen(q)) /\ (LostBefore(q) => LostBeforeThen(q))
    <3>1. \A e \in Senders : work[e].pc = "lost" => work'[e] = work[e]
      BY <1>1, <2>5
    <3>2. \A q \in Procs : process'[q].turns \in Nat /\ process[q].turns <= process'[q].turns
      BY <1>1, <2>6 DEF Kinds
    <3>3. QED
      BY <1>1, <3>1, <3>2, LossIsKept
  <2>15. FollowInv'
    <3> SUFFICES ASSUME adapter' = "codex", NEW u \in Calls, work'[u].pc \in Following
                 PROVE  FollowsThen(u)
      BY FollowNext
    <3> DEFINE q == work[u].process
               s == work[u].session
    <3>1. work'[u] = work[u] /\ adapter = "codex" /\ work[u].pc \in Following
      BY <1>3, <2>5
    <3>2. /\ q \in Procs /\ s \in Sessions /\ session[s].steers \subseteq Senders /\ session[s].rpc = q
          /\ process[q].state = "running" => process[q].queued \subseteq session[s].steers \/ Lost(q)
          /\ process[q].turns # session[s].active =>
                (\E e \in session[s].steers : work[e].pc \in Accepted) \/ LostBefore(q)
          /\ work[u].pc = "followup" /\ process[q].turns = session[s].active => ~process[q].busy
      BY <3>1, FollowNow
    <3>3. q = p => d \in session[s].steers \/ LostThen(q)
      <4>1. CASE work[d].pc = "steer"
        BY <1>1, <1>4, <3>2, <4>1 DEF SteerInv, RpcInv, Running, PlaceInv, Kinds
      <4>2. CASE work[d].pc = "late"
        BY <1>4, <2>5, <4>2 DEF LostThen
      <4>3. QED
        BY <1>1, <4>1, <4>2
    <3> HIDE DEF IInv
    <3>4. \A e \in Senders : work[e].pc \in Accepted => work'[e].pc \in Accepted
      BY <1>1, <1>4, <2>5
    <3>5. process'[q].state = "running" => process'[q].queued \subseteq session[s].steers \/ LostThen(q)
      BY <2>6, <2>14, <3>2, <3>3
    <3>6. process'[q].turns = process[q].turns /\ process'[q].busy = process[q].busy
      BY <2>6, <3>2
    <3>7. QED
      BY <1>3, <2>14, <3>1, <3>2, <3>4, <3>5, <3>6 DEF FollowsThen
  <2>16. ObservedInv'
    <3> SUFFICES ASSUME adapter' = "codex", NEW q \in Procs, process'[q].state = "running"
                 PROVE  ObservedThen(q)
      BY ObservedNext
    <3>1. \/ \E t \in Calls : work[t].process = q /\ work[t].pc \in Following
          \/ LostBefore(q)
          \/ ~process[q].busy /\ (process[q].queued = {} \/ Lost(q))
      BY <1>3, <2>6, ObservedNow
    <3> HIDE DEF IInv
    <3>2. QED
      BY <1>4, <2>5, <2>6, <2>14, <3>1 DEF ObservedThen
  <2>17. QED
    BY <2>7, <2>8, <2>9, <2>10, <2>11, <2>12, <2>13, <2>15, <2>16
<1>5. ASSUME NEW label \in {"refused", "rejected"}, label = IF work[d].pc = "steer" THEN "refused" ELSE "rejected",
             ~(process[p].busy /\ process[p].turns = work[d].turn), Step(d, label), UNCHANGED process
      PROVE  IInv'
  <2>1. [work[d] EXCEPT !.pc = label] \in WorkRecords
    BY <1>2 DEF WorkRecords, Labels
  <2>2. work' = [work EXCEPT ![d] = [work[d] EXCEPT !.pc = label]]
    BY <1>2, <1>5 DEF Step, WorkRecords
  <2>3. work' \in [Threads -> WorkRecords]
    BY <1>2, <2>1, <2>2
  <2>4. /\ \A y \in Threads \ {d} : work'[y] = work[y]
        /\ work'[d].pc = label
        /\ work'[d].session = work[d].session /\ work'[d].process = work[d].process
        /\ work'[d].target = work[d].target
        /\ work'[d].scope = work[d].scope /\ work'[d].failed = work[d].failed
        /\ work'[d].turn = work[d].turn
    BY <1>1, <1>2, <2>2 DEF WorkRecords
  <2>5. TypeOK'
    BY <1>1, <1>3, <1>5, <2>3, <2>4 DEF TypeOK
  <2>6. PlaceInv' /\ MutexInv'
    BY <1>1, <1>3, <1>5, <2>3, <2>4 DEF Kinds, PlaceInv, MutexInv, Holding
  <2>7. RpcInv' /\ LaunchInv' /\ CallInv'
    BY SMTT(30), <1>1, <1>3, <1>5, <2>3, <2>4 DEF Kinds, PlaceInv, MutexInv, Holding, Running, RpcInv, LaunchInv, CallInv
  <2>8. ActiveInv'
    BY <1>1, <1>3, <1>5, <2>3, <2>4 DEF Kinds, PlaceInv, MutexInv, Holding, Following, CallInv, ActiveInv
  <2>9. SteerInv'
    BY SMTT(30), <1>1, <1>3, <1>5, <2>3, <2>4 DEF Kinds, PlaceInv, Running, SteerInv
  <2>10. QueueInv'
    BY <1>1, <1>3, <1>5, <2>3, <2>4 DEF Kinds, PlaceInv, QueueInv
  <2>11. SparesFollowers /\ KeepsFollowers
    BY <1>1, <1>3, <1>5, <2>3, <2>4 DEF SparesFollowers, KeepsFollowers, Following, Kinds, PlaceInv
  <2>12. FollowInv' /\ ObservedInv'
    BY <2>11, SparedFollowers
  <2>13. QED
    BY <2>5, <2>6, <2>7, <2>8, <2>9, <2>10, <2>12
<1>6. QED
  <2>1. \/ /\ process[p].busy /\ process[p].turns = work[d].turn
           /\ process' = [process EXCEPT ![p].queued = @ \cup {d}]
           /\ Step(d, IF work[d].pc = "steer" THEN "taken" ELSE "lost")
        \/ /\ ~(process[p].busy /\ process[p].turns = work[d].turn)
           /\ Step(d, IF work[d].pc = "steer" THEN "refused" ELSE "rejected")
           /\ UNCHANGED process
    BY DEF Steer, At
  <2>2. QED
    BY <1>4, <1>5, <2>1

(* A sender that hears its input was taken is as before to all others.     *)
Hears(d) == /\ work' = [work EXCEPT ![d].pc = "sent", ![d].target = None]
            /\ UNCHANGED <<adapter, registry, session, process, counts>>

LEMMA SentKeeps ==
    ASSUME IInv, NEW d \in Senders, At(d, "taken"), Hears(d)
    PROVE  IInv'
<1> USE RpcAssumption DEF IInv, Threads, Sending, Written, Known, Accepted
<1>1. /\ Kinds /\ work[d].pc = "taken"
      /\ adapter' = adapter /\ registry' = registry /\ session' = session /\ process' = process /\ counts' = counts
  BY KindsHold DEF At, Hears
<1>2. work \in [Threads -> WorkRecords] /\ work[d] \in WorkRecords
  BY DEF TypeOK
<1>3. [work[d] EXCEPT !.pc = "sent", !.target = None] \in WorkRecords
  BY <1>2 DEF WorkRecords, Labels
<1>4. work' = [work EXCEPT ![d] = [work[d] EXCEPT !.pc = "sent", !.target = None]]
  BY <1>2 DEF Hears, WorkRecords
<1>5. work' \in [Threads -> WorkRecords]
  BY <1>2, <1>3, <1>4
<1>6. /\ \A y \in Threads \ {d} : work'[y] = work[y]
      /\ work'[d].pc = "sent" /\ work'[d].target = None
      /\ work'[d].session = work[d].session /\ work'[d].process = work[d].process
      /\ work'[d].scope = work[d].scope /\ work'[d].failed = work[d].failed
      /\ work'[d].turn = work[d].turn
  BY <1>1, <1>2, <1>4 DEF WorkRecords
<1>7. TypeOK'
  BY <1>1, <1>5 DEF TypeOK
<1>8. PlaceInv' /\ MutexInv'
  BY <1>1, <1>6 DEF Kinds, PlaceInv, MutexInv, Holding
<1>9. RpcInv' /\ LaunchInv' /\ CallInv'
  BY SMTT(30), <1>1, <1>6 DEF Kinds, PlaceInv, MutexInv, Holding, Running, RpcInv, LaunchInv, CallInv
<1>10. ActiveInv'
  BY <1>1, <1>6 DEF Kinds, PlaceInv, MutexInv, Holding, Following, CallInv, ActiveInv
<1>11. SteerInv'
  BY SMTT(30), <1>1, <1>6 DEF Kinds, PlaceInv, Running, SteerInv
<1>12. QueueInv'
  BY <1>1, <1>6 DEF Kinds, PlaceInv, QueueInv
<1>13. SparesFollowers /\ KeepsFollowers
  BY <1>1, <1>6 DEF SparesFollowers, KeepsFollowers, Following, Kinds, PlaceInv
<1>14. FollowInv' /\ ObservedInv'
  BY <1>13, SparedFollowers
<1>15. QED
  BY <1>7, <1>8, <1>9, <1>10, <1>11, <1>12, <1>14

(* A steer that is forgotten was not taken, or its sender gave up on it.   *)
LEMMA ForgetKeeps ==
    ASSUME IInv, NEW d \in Senders, NEW label \in {"late", "lost", "rejected"},
           \/ At(d, "steer") /\ label = "late"
           \/ At(d, "taken") /\ label = "lost"
           \/ At(d, "refused") /\ label = "rejected",
           Forget(d, label), UNCHANGED <<adapter, registry, process, counts>>
    PROVE  IInv'
<1> USE RpcAssumption DEF IInv, Threads, Sending, Written, Known, Accepted
<1> DEFINE s == work[d].target
<1>1. /\ Kinds /\ s \in Sessions
      /\ \/ work[d].pc = "steer" /\ label = "late"
         \/ work[d].pc = "taken" /\ label = "lost"
         \/ work[d].pc = "refused" /\ label = "rejected"
  BY KindsHold DEF Kinds, PlaceInv, At
<1>2. /\ work \in [Threads -> WorkRecords] /\ work[d] \in WorkRecords
      /\ session \in [Sessions -> SessionRecords] /\ session[s] \in SessionRecords
  BY <1>1 DEF TypeOK
<1>3. [work[d] EXCEPT !.pc = label, !.target = None] \in WorkRecords
  BY <1>2 DEF WorkRecords, Labels
<1>4. work' = [work EXCEPT ![d] = [work[d] EXCEPT !.pc = label, !.target = None]]
  BY <1>2 DEF Forget, WorkRecords
<1>5. work' \in [Threads -> WorkRecords]
  BY <1>2, <1>3, <1>4
<1>6. /\ \A y \in Threads \ {d} : work'[y] = work[y]
      /\ work'[d].pc = label /\ work'[d].target = None
      /\ work'[d].session = work[d].session /\ work'[d].process = work[d].process
      /\ work'[d].scope = work[d].scope /\ work'[d].failed = work[d].failed
      /\ work'[d].turn = work[d].turn
  BY <1>1, <1>2, <1>4 DEF WorkRecords
<1>7. /\ session' \in [Sessions -> SessionRecords]
      /\ \A o \in Sessions \ {s} : session'[o] = session[o]
      /\ session'[s].steers = session[s].steers \ {d}
      /\ session'[s].turn = session[s].turn /\ session'[s].rpc = session[s].rpc
      /\ session'[s].scope = session[s].scope /\ session'[s].timer = session[s].timer
      /\ session'[s].active = session[s].active
  BY <1>1, <1>2 DEF Forget, SessionRecords
<1>8. TypeOK'
  BY <1>5, <1>7 DEF TypeOK
<1>9. PlaceInv' /\ MutexInv'
  BY <1>1, <1>6, <1>7 DEF Kinds, PlaceInv, MutexInv, Holding
<1>10. RpcInv' /\ LaunchInv' /\ CallInv'
  BY SMTT(30), <1>1, <1>6, <1>7 DEF Kinds, PlaceInv, MutexInv, Holding, Running, RpcInv, LaunchInv, CallInv
<1>11. ActiveInv'
  BY SMTT(30), <1>1, <1>6, <1>7 DEF Kinds, PlaceInv, MutexInv, Holding, Following, CallInv, ActiveInv
<1>12. SteerInv'
  BY SMTT(30), <1>1, <1>6, <1>7 DEF Kinds, PlaceInv, Running, SteerInv
<1>13. QueueInv'
  BY <1>1, <1>6, <1>7 DEF Kinds, PlaceInv, QueueInv
<1>14. \A q \in Procs : (Lost(q) => LostThen(q)) /\ (LostBefore(q) => LostBeforeThen(q))
  <2>1. \A e \in Senders : work[e].pc = "lost" => work'[e] = work[e]
    BY <1>1, <1>6
  <2>2. \A q \in Procs : process'[q].turns \in Nat /\ process[q].turns <= process'[q].turns
    BY <1>1 DEF Kinds
  <2>3. QED
    BY <1>1, <2>1, <2>2, LossIsKept
<1>15. FollowInv'
  <2> SUFFICES ASSUME adapter' = "codex", NEW u \in Calls, work'[u].pc \in Following
               PROVE  FollowsThen(u)
    BY FollowNext
  <2> DEFINE q == work[u].process
             o == work[u].session
  <2>1. work'[u] = work[u] /\ adapter = "codex" /\ work[u].pc \in Following
    BY <1>6
  <2>2. /\ q \in Procs /\ o \in Sessions /\ session[o].steers \subseteq Senders /\ session[o].rpc = q
        /\ process[q].state = "running" => process[q].queued \subseteq session[o].steers \/ Lost(q)
        /\ process[q].turns # session[o].active =>
              (\E e \in session[o].steers : work[e].pc \in Accepted) \/ LostBefore(q)
        /\ work[u].pc = "followup" /\ process[q].turns = session[o].active => ~process[q].busy
    BY <2>1, FollowNow
  <2>3. /\ session[o].active # 0 /\ session[o].active <= process[q].turns
        /\ process[q].turns \in Nat /\ session[o].active \in Nat /\ work[d].turn \in Nat
    BY <1>1, <2>1, <2>2 DEF Kinds, ActiveInv
  <2>4. d \in process[q].queued => LostThen(q)
    BY <1>1, <1>6, <2>2 DEF QueueInv, LostThen
  <2>5. d \in session[o].steers /\ work[d].pc \in Accepted /\ process[q].turns # session[o].active => LostBeforeThen(q)
    <3>1. d \in session[o].steers => work[d].process = q /\ work[d].turn <= session[o].active
      BY <2>2, <2>3 DEF SteerInv
    <3> HIDE DEF IInv
    <3>2. QED
      BY <1>1, <1>6, <2>2, <2>3, <3>1 DEF LostBeforeThen
  <2> HIDE DEF IInv
  <2>6. session[o].steers \ {d} \subseteq session'[o].steers
    BY <1>1, <1>7, <2>2
  <2>7. process[q].state = "running" => process[q].queued \subseteq session'[o].steers \/ LostThen(q)
    BY <1>14, <2>2, <2>4, <2>6
  <2>8. ASSUME process[q].turns # session[o].active
        PROVE  (\E e \in session'[o].steers : work'[e].pc \in Accepted) \/ LostBeforeThen(q)
    <3>1. CASE \E e \in session[o].steers : e # d /\ work[e].pc \in Accepted
      BY <1>6, <2>2, <2>6, <3>1
    <3>2. CASE d \in session[o].steers /\ work[d].pc \in Accepted
      BY <2>5, <2>8, <3>2
    <3>3. CASE LostBefore(q)
      BY <1>14, <2>2, <3>3
    <3>4. QED
      BY <2>2, <2>8, <3>1, <3>2, <3>3
  <2>9. session'[o].active = session[o].active
    BY <1>7, <2>2
  <2>10. QED
    BY <2>1, <2>2, <2>7, <2>8, <2>9 DEF FollowsThen
<1>16. ObservedInv'
  <2> SUFFICES ASSUME adapter' = "codex", NEW q \in Procs, process'[q].state = "running"
               PROVE  ObservedThen(q)
    BY ObservedNext
  <2>1. QED
    BY <1>6, <1>14, ObservedNow DEF ObservedThen
<1>17. QED
  BY <1>8, <1>9, <1>10, <1>11, <1>12, <1>13, <1>15, <1>16

LEMMA AnsweredKeeps ==
    ASSUME IInv, NEW d \in Senders, SteerAnswered(d)
    PROVE  IInv'
  BY SentKeeps, ForgetKeeps DEF SteerAnswered, Hears

LEMMA GiveUpKeeps ==
    ASSUME IInv, NEW d \in Senders, GiveUp(d)
    PROVE  IInv'
  BY ForgetKeeps DEF GiveUp

LEMMA ConsumeKeeps ==
    ASSUME IInv, NEW p \in Procs, Consume(p)
    PROVE  IInv'
<1> USE RpcAssumption DEF IInv, Threads, Sending, Written, Known, Accepted
<1>1. Kinds /\ process[p].busy /\ Running(p)
  BY KindsHold DEF Kinds, PlaceInv, Holding, Consume
<1>2. /\ work \in [Threads -> WorkRecords]
      /\ session \in [Sessions -> SessionRecords] /\ process \in [Procs -> ProcessRecords]
      /\ process[p] \in ProcessRecords
  BY DEF TypeOK
<1>3. UNCHANGED <<adapter, registry, session, work, counts>>
  BY DEF Consume, TypeOK, At
<1>4. PICK d \in process[p].queued :
           process' = [process EXCEPT ![p].queued = @ \ {d}, ![p].items = @ \cup {d}]
  BY <1>1, <1>2, <1>3 DEF Consume
<1>5. d \in Senders
  BY <1>1, <1>2, <1>3, <1>4 DEF Kinds
<1>6. [process[p] EXCEPT !.queued = process[p].queued \ {d}, !.items = process[p].items \cup {d}] \in ProcessRecords
  BY <1>2, <1>5, <1>1 DEF ProcessRecords
<1>7. process' = [process EXCEPT ![p] = [process[p] EXCEPT !.queued = process[p].queued \ {d}, !.items = process[p].items \cup {d}]]
  BY <1>1, <1>2, <1>3, <1>4, <1>5 DEF Consume, ProcessRecords
<1>8. process' \in [Procs -> ProcessRecords]
  BY <1>2, <1>6, <1>7
<1>9. /\ \A q \in Procs \ {p} : process'[q] = process[q]
      /\ process'[p].queued = process[p].queued \ {d}
      /\ process'[p].items = process[p].items \cup {d}
      /\ process'[p].state = process[p].state /\ process'[p].scope = process[p].scope
      /\ process'[p].busy = process[p].busy /\ process'[p].turns = process[p].turns
      /\ process'[p].result = process[p].result
  BY <1>1, <1>2, <1>5, <1>7 DEF ProcessRecords
<1>10. TypeOK'
  BY <1>1, <1>3, <1>4, <1>5, <1>8, <1>9 DEF TypeOK
<1>11. PlaceInv' /\ MutexInv'
  BY <1>1, <1>3, <1>4, <1>5, <1>8, <1>9 DEF Kinds, PlaceInv, MutexInv, Holding
<1>12. RpcInv'
  BY <1>1, <1>3, <1>4, <1>5, <1>8, <1>9 DEF Kinds, RpcInv, LaunchInv
<1>13. LaunchInv' /\ CallInv'
  BY <1>1, <1>3, <1>4, <1>5, <1>8, <1>9 DEF Kinds, PlaceInv, MutexInv, Holding, Running, RpcInv,
     LaunchInv, CallInv
<1>14. ActiveInv'
  BY <1>1, <1>3, <1>4, <1>5, <1>8, <1>9 DEF Kinds, PlaceInv, MutexInv, Holding, Following,
     LaunchInv, CallInv, ActiveInv
<1>15. SteerInv'
  BY <1>1, <1>3, <1>4, <1>5, <1>8, <1>9 DEF Kinds, PlaceInv, Running, RpcInv, LaunchInv, CallInv,
     ActiveInv, QueueInv, SteerInv
<1>16. QueueInv'
  BY <1>1, <1>3, <1>4, <1>5, <1>8, <1>9 DEF Kinds, PlaceInv, QueueInv
<1>17. \A q \in Procs : (Lost(q) => LostThen(q)) /\ (LostBefore(q) => LostBeforeThen(q))
  <2>1. \A q \in Procs : process'[q].turns \in Nat /\ process[q].turns <= process'[q].turns
    BY <1>1, <1>9 DEF Kinds
  <2>2. QED
    BY <1>1, <1>3, <2>1, LossIsKept
<1>18. FollowInv' /\ ObservedInv'
  <2>1. ASSUME adapter' = "codex", NEW u \in Calls, work'[u].pc \in Following PROVE FollowsThen(u)
    BY <1>3, <1>9, <1>17, <2>1, FollowNow DEF FollowsThen
  <2>2. ASSUME adapter' = "codex", NEW q \in Procs, process'[q].state = "running" PROVE ObservedThen(q)
    BY <1>3, <1>9, <1>17, <2>2, ObservedNow DEF ObservedThen
  <2>3. QED
    BY <2>1, <2>2, FollowNext, ObservedNext
<1>19. QED
  BY <1>10, <1>11, <1>12, <1>13, <1>14, <1>15, <1>16, <1>18

LEMMA NativeTurnEndsKeeps ==
    ASSUME IInv, NEW p \in Procs, NativeTurnEnds(p)
    PROVE  IInv'
<1> USE RpcAssumption DEF IInv, Threads, Sending, Written, Known, Accepted
<1>1. Kinds /\ process[p].busy /\ Running(p)
  BY KindsHold DEF Kinds, PlaceInv, Holding, NativeTurnEnds
<1>2. /\ work \in [Threads -> WorkRecords]
      /\ session \in [Sessions -> SessionRecords] /\ process \in [Procs -> ProcessRecords]
      /\ process[p] \in ProcessRecords
  BY DEF TypeOK
<1>3. UNCHANGED <<adapter, registry, session, work, counts>>
  BY DEF NativeTurnEnds, TypeOK, At
<1>4. CASE process' = [process EXCEPT ![p].busy = FALSE, ![p].result = "completed"]
  <2>1. [process[p] EXCEPT !.busy = FALSE, !.result = "completed"] \in ProcessRecords
    BY <1>2, <1>1 DEF ProcessRecords
  <2>2. process' = [process EXCEPT ![p] = [process[p] EXCEPT !.busy = FALSE, !.result = "completed"]]
    BY <1>1, <1>2, <1>3, <1>4 DEF ProcessRecords
  <2>3. process' \in [Procs -> ProcessRecords]
    BY <1>2, <2>1, <2>2
  <2>4. /\ \A q \in Procs \ {p} : process'[q] = process[q]
        /\ process'[p].busy = FALSE /\ process'[p].result = "completed"
        /\ process'[p].state = process[p].state /\ process'[p].scope = process[p].scope
        /\ process'[p].turns = process[p].turns /\ process'[p].queued = process[p].queued
        /\ process'[p].items = process[p].items
    BY <1>1, <1>2, <2>2 DEF ProcessRecords
  <2>5. TypeOK'
    BY <1>1, <1>3, <2>3, <2>4 DEF TypeOK
  <2>6. PlaceInv' /\ MutexInv'
    BY <1>1, <1>3, <2>3, <2>4 DEF Kinds, PlaceInv, MutexInv, Holding
  <2>7. RpcInv'
    BY <1>1, <1>3, <2>3, <2>4 DEF Kinds, RpcInv, LaunchInv
  <2>8. LaunchInv' /\ CallInv'
    BY <1>1, <1>3, <2>3, <2>4 DEF Kinds, PlaceInv, MutexInv, Holding, Running, RpcInv, LaunchInv,
       CallInv
  <2>9. ActiveInv'
    BY <1>1, <1>3, <2>3, <2>4 DEF Kinds, PlaceInv, MutexInv, Holding, Following, LaunchInv, CallInv,
       ActiveInv
  <2>10. SteerInv'
    BY <1>1, <1>3, <2>3, <2>4 DEF Kinds, PlaceInv, Running, RpcInv, LaunchInv, CallInv, ActiveInv,
       QueueInv, SteerInv
  <2>11. QueueInv'
    BY <1>1, <1>3, <2>3, <2>4 DEF Kinds, PlaceInv, QueueInv
  <2>12. \A q \in Procs : (Lost(q) => LostThen(q)) /\ (LostBefore(q) => LostBeforeThen(q))
    <3>1. \A q \in Procs : process'[q].turns \in Nat /\ process[q].turns <= process'[q].turns
      BY <1>1, <2>4 DEF Kinds
    <3>2. QED
      BY <1>1, <1>3, <3>1, LossIsKept
  <2>13. FollowInv' /\ ObservedInv'
    <3>1. ASSUME adapter' = "codex", NEW u \in Calls, work'[u].pc \in Following PROVE FollowsThen(u)
      BY <1>1, <1>3, <2>4, <2>12, <3>1, FollowNow DEF FollowsThen
    <3>2. ASSUME adapter' = "codex", NEW q \in Procs, process'[q].state = "running" PROVE ObservedThen(q)
      BY <1>1, <1>3, <2>4, <2>12, <3>2, ObservedNow, LossBeforeIsLoss DEF ObservedThen
    <3>3. QED
      BY <3>1, <3>2, FollowNext, ObservedNext
  <2>14. QED
    BY <2>5, <2>6, <2>7, <2>8, <2>9, <2>10, <2>11, <2>13
<1>5. CASE process' = [process EXCEPT ![p].busy = FALSE, ![p].result = "failed", ![p].queued = {}]
  <2>1. [process[p] EXCEPT !.busy = FALSE, !.result = "failed", !.queued = {}] \in ProcessRecords
    BY <1>2, <1>1 DEF ProcessRecords
  <2>2. process' = [process EXCEPT ![p] = [process[p] EXCEPT !.busy = FALSE, !.result = "failed", !.queued = {}]]
    BY <1>1, <1>2, <1>3, <1>5 DEF ProcessRecords
  <2>3. process' \in [Procs -> ProcessRecords]
    BY <1>2, <2>1, <2>2
  <2>4. /\ \A q \in Procs \ {p} : process'[q] = process[q]
        /\ process'[p].busy = FALSE /\ process'[p].result = "failed"
        /\ process'[p].queued = {}
        /\ process'[p].state = process[p].state /\ process'[p].scope = process[p].scope
        /\ process'[p].turns = process[p].turns /\ process'[p].items = process[p].items
    BY <1>1, <1>2, <2>2 DEF ProcessRecords
  <2>5. TypeOK'
    BY <1>1, <1>3, <2>3, <2>4 DEF TypeOK
  <2>6. PlaceInv' /\ MutexInv'
    BY <1>1, <1>3, <2>3, <2>4 DEF Kinds, PlaceInv, MutexInv, Holding
  <2>7. RpcInv'
    BY <1>1, <1>3, <2>3, <2>4 DEF Kinds, RpcInv, LaunchInv
  <2>8. LaunchInv' /\ CallInv'
    BY <1>1, <1>3, <2>3, <2>4 DEF Kinds, PlaceInv, MutexInv, Holding, Running, RpcInv, LaunchInv,
       CallInv
  <2>9. ActiveInv'
    BY <1>1, <1>3, <2>3, <2>4 DEF Kinds, PlaceInv, MutexInv, Holding, Following, LaunchInv, CallInv,
       ActiveInv
  <2>10. SteerInv'
    BY <1>1, <1>3, <2>3, <2>4 DEF Kinds, PlaceInv, Running, RpcInv, LaunchInv, CallInv, ActiveInv,
       QueueInv, SteerInv
  <2>11. QueueInv'
    BY <1>1, <1>3, <2>3, <2>4 DEF Kinds, PlaceInv, QueueInv
  <2>12. \A q \in Procs : (Lost(q) => LostThen(q)) /\ (LostBefore(q) => LostBeforeThen(q))
    <3>1. \A q \in Procs : process'[q].turns \in Nat /\ process[q].turns <= process'[q].turns
      BY <1>1, <2>4 DEF Kinds
    <3>2. QED
      BY <1>1, <1>3, <3>1, LossIsKept
  <2>13. FollowInv' /\ ObservedInv'
    <3>1. ASSUME adapter' = "codex", NEW u \in Calls, work'[u].pc \in Following PROVE FollowsThen(u)
      BY <1>1, <1>3, <2>4, <2>12, <3>1, FollowNow DEF FollowsThen
    <3>2. ASSUME adapter' = "codex", NEW q \in Procs, process'[q].state = "running" PROVE ObservedThen(q)
      BY <1>1, <1>3, <2>4, <2>12, <3>2, ObservedNow, LossBeforeIsLoss DEF ObservedThen
    <3>3. QED
      BY <3>1, <3>2, FollowNext, ObservedNext
  <2>14. QED
    BY <2>5, <2>6, <2>7, <2>8, <2>9, <2>10, <2>11, <2>13
<1>6. QED
  BY <1>1, <1>4, <1>5 DEF NativeTurnEnds

LEMMA NativeFollowUpKeeps ==
    ASSUME IInv, NEW p \in Procs, NativeFollowUp(p)
    PROVE  IInv'
<1> USE RpcAssumption DEF IInv, Threads, NativeFollowUp, Running
<1>1. TypeOK'
  BY DEF TypeOK, SessionRecords, ProcessRecords, WorkRecords, Labels
<1>2. PlaceInv'
  BY DEF TypeOK, SessionRecords, ProcessRecords, WorkRecords, PlaceInv, Holding
<1>3. MutexInv'
  BY DEF TypeOK, SessionRecords, ProcessRecords, WorkRecords, PlaceInv, Holding, MutexInv
<1>4. RpcInv'
  BY DEF TypeOK, SessionRecords, ProcessRecords, WorkRecords, PlaceInv, Holding, RpcInv, LaunchInv
<1>5. LaunchInv'
  BY DEF TypeOK, SessionRecords, ProcessRecords, WorkRecords, PlaceInv, Holding, MutexInv, RpcInv,
     LaunchInv, CallInv
<1>6. CallInv'
  BY DEF TypeOK, SessionRecords, ProcessRecords, WorkRecords, PlaceInv, Holding, MutexInv, RpcInv,
     LaunchInv, CallInv
<1>7. ActiveInv'
  BY DEF TypeOK, SessionRecords, ProcessRecords, WorkRecords, PlaceInv, Holding, MutexInv,
     Following, LaunchInv, CallInv, ActiveInv
<1>8. SteerInv'
  BY DEF TypeOK, SessionRecords, ProcessRecords, WorkRecords, PlaceInv, Holding, MutexInv, RpcInv,
     LaunchInv, CallInv, ActiveInv, QueueInv, SteerInv
<1>9. QueueInv'
  BY DEF TypeOK, SessionRecords, ProcessRecords, WorkRecords, PlaceInv, Holding, QueueInv
<1>10. /\ Kinds /\ process[p].queued # {} /\ ~process[p].busy
       /\ process'[p].turns = process[p].turns + 1 /\ process'[p].queued = process[p].queued
       /\ \A q \in Procs \ {p} : process'[q] = process[q]
  BY KindsHold DEF TypeOK, ProcessRecords
<1>11. \A q \in Procs : (Lost(q) => LostThen(q)) /\ (LostBefore(q) => LostBeforeThen(q))
  <2>1. \A q \in Procs : process'[q].turns \in Nat /\ process[q].turns <= process'[q].turns
    <3> HIDE DEF IInv, NativeFollowUp
    <3>1. process[p].turns \in Nat /\ p \in Procs
      BY <1>10 DEF Kinds
    <3>2. process'[p].turns \in Nat /\ process[p].turns <= process'[p].turns
      BY <1>10, <3>1
    <3>3. QED
      BY <1>10, <3>2 DEF Kinds
  <2>2. QED
    BY <1>10, <2>1, LossIsKept
<1>12. Lost(p) => LostBeforeThen(p)
  BY <1>10, LossComesBefore
<1>13. FollowInv'
  <2> SUFFICES ASSUME adapter' = "codex", NEW u \in Calls, work'[u].pc \in Following
               PROVE  FollowsThen(u)
    BY FollowNext
  <2> DEFINE s == work[u].session
  <2>1. work[u].pc \in Following /\ adapter = "codex"
    OBVIOUS
  <2>2. CASE work[u].process = p
    <3>1. /\ s \in Sessions /\ session[s].rpc = p /\ session[s].steers \subseteq Senders
          /\ process[p].queued \subseteq session[s].steers \/ Lost(p)
      BY <2>1, <2>2, FollowNow
    <3>2. session[s].active \in Nat /\ session[s].active <= process[p].turns /\ process[p].turns \in Nat
      BY <1>10, <2>1, <3>1 DEF Kinds, ActiveInv
    <3>3. (\E d \in session[s].steers : work[d].pc \in Accepted) \/ LostBeforeThen(p)
      <4>1. CASE process[p].queued \subseteq session[s].steers
        <5>1. PICK d \in process[p].queued : d \in session[s].steers
          BY <1>10, <4>1
        <5>2. work[d].pc \in Accepted \cup {"lost"} /\ work[d].pc \in Known
          BY <3>1, <5>1 DEF QueueInv, SteerInv
        <5>3. QED
          BY <5>1, <5>2 DEF Known
      <4>2. CASE Lost(p)
        BY <1>12, <4>2
      <4>3. QED
        BY <3>1, <4>1, <4>2
    <3>4. process'[p].turns # session[s].active
      BY <1>10, <3>2
    <3>5. QED
      BY <1>10, <1>11, <2>2, <3>1, <3>3, <3>4 DEF FollowsThen
  <2>3. CASE work[u].process # p
    BY <1>10, <2>1, <2>3, FollowNow, OtherFollows
  <2>4. QED
    BY <2>2, <2>3
<1>14. ObservedInv'
  <2> SUFFICES ASSUME adapter' = "codex", NEW q \in Procs, process'[q].state = "running"
               PROVE  ObservedThen(q)
    BY ObservedNext
  <2>1. CASE q = p
    BY <1>10, <1>11, <1>12, <2>1, ObservedNow DEF ObservedThen
  <2>2. CASE q # p
    BY <1>10, <1>11, <2>2, ObservedNow DEF ObservedThen
  <2>3. QED
    BY <2>1, <2>2
<1>15. QED
  BY <1>1, <1>2, <1>3, <1>4, <1>5, <1>6, <1>7, <1>8, <1>9, <1>13, <1>14

LEMMA CrashKeeps ==
    ASSUME IInv, NEW p \in Procs, Crash(p)
    PROVE  IInv'
<1> USE RpcAssumption DEF IInv, Threads, Crash, Running, Finished
<1>1. TypeOK'
  BY DEF TypeOK, SessionRecords, ProcessRecords, WorkRecords, Labels
<1>2. PlaceInv'
  BY DEF TypeOK, SessionRecords, ProcessRecords, WorkRecords, PlaceInv, Holding
<1>3. MutexInv'
  BY DEF TypeOK, SessionRecords, ProcessRecords, WorkRecords, PlaceInv, Holding, MutexInv
<1>4. RpcInv'
  BY DEF TypeOK, SessionRecords, ProcessRecords, WorkRecords, PlaceInv, Holding, RpcInv, LaunchInv
<1>5. LaunchInv'
  BY DEF TypeOK, SessionRecords, ProcessRecords, WorkRecords, PlaceInv, Holding, MutexInv, RpcInv,
     LaunchInv, CallInv
<1>6. CallInv'
  BY DEF TypeOK, SessionRecords, ProcessRecords, WorkRecords, PlaceInv, Holding, MutexInv, RpcInv,
     LaunchInv, CallInv
<1>7. ActiveInv'
  BY DEF TypeOK, SessionRecords, ProcessRecords, WorkRecords, PlaceInv, Holding, MutexInv,
     Following, LaunchInv, CallInv, ActiveInv
<1>8. SteerInv'
  BY DEF TypeOK, SessionRecords, ProcessRecords, WorkRecords, PlaceInv, Holding, MutexInv, RpcInv,
     LaunchInv, CallInv, ActiveInv, QueueInv, SteerInv
<1>9. QueueInv'
  BY DEF TypeOK, SessionRecords, ProcessRecords, WorkRecords, PlaceInv, Holding, QueueInv
<1>10. SparesFollowers /\ KeepsFollowers
  BY DEF TypeOK, ProcessRecords, SparesFollowers, KeepsFollowers
<1>11. FollowInv' /\ ObservedInv'
  BY <1>10, SparedFollowers
<1>12. QED
  BY <1>1, <1>2, <1>3, <1>4, <1>5, <1>6, <1>7, <1>8, <1>9, <1>11

LEMMA ExitKeeps ==
    ASSUME IInv, NEW p \in Procs, Exit(p)
    PROVE  IInv'
<1> USE RpcAssumption DEF IInv, Threads, Exit
<1>1. TypeOK'
  BY DEF TypeOK, SessionRecords, ProcessRecords, WorkRecords, Labels
<1>2. PlaceInv'
  BY DEF TypeOK, SessionRecords, ProcessRecords, WorkRecords, PlaceInv, Holding
<1>3. MutexInv'
  BY DEF TypeOK, SessionRecords, ProcessRecords, WorkRecords, PlaceInv, Holding, MutexInv
<1>4. RpcInv'
  BY DEF TypeOK, SessionRecords, ProcessRecords, WorkRecords, PlaceInv, Holding, RpcInv, LaunchInv
<1>5. LaunchInv'
  BY DEF TypeOK, SessionRecords, ProcessRecords, WorkRecords, PlaceInv, Holding, MutexInv, Running,
     RpcInv, LaunchInv, CallInv
<1>6. CallInv'
  BY DEF TypeOK, SessionRecords, ProcessRecords, WorkRecords, PlaceInv, Holding, MutexInv, RpcInv,
     LaunchInv, CallInv
<1>7. ActiveInv'
  BY DEF TypeOK, SessionRecords, ProcessRecords, WorkRecords, PlaceInv, Holding, MutexInv,
     Following, LaunchInv, CallInv, ActiveInv
<1>8. SteerInv'
  BY DEF TypeOK, SessionRecords, ProcessRecords, WorkRecords, PlaceInv, Holding, MutexInv, Running,
     RpcInv, LaunchInv, CallInv, ActiveInv, QueueInv, SteerInv
<1>9. QueueInv'
  BY DEF TypeOK, SessionRecords, ProcessRecords, WorkRecords, PlaceInv, Holding, QueueInv
<1>10. SparesFollowers /\ KeepsFollowers
  BY DEF TypeOK, ProcessRecords, SparesFollowers, KeepsFollowers
<1>11. FollowInv' /\ ObservedInv'
  BY <1>10, SparedFollowers
<1>12. QED
  BY <1>1, <1>2, <1>3, <1>4, <1>5, <1>6, <1>7, <1>8, <1>9, <1>11
-----------------------------------------------------------------------------
(* Nothing has been called yet.                                            *)
LEMMA InitHolds == Init => IInv
<1> SUFFICES ASSUME Init PROVE IInv
  OBVIOUS
<1> USE RpcAssumption DEF Threads
<1>1. /\ \A x \in Threads : work[x] = Idle
      /\ \A s \in Sessions : session[s] = NewSession
      /\ \A p \in Procs : process[p] = NewProcess
  BY DEF Init
<1>2. Idle \in WorkRecords /\ NewSession \in SessionRecords /\ NewProcess \in ProcessRecords
  BY DEF Idle, NewSession, NewProcess, WorkRecords, Labels, SessionRecords, ProcessRecords
<1>3. TypeOK
  BY <1>2 DEF Init, TypeOK
<1>4. PlaceInv /\ MutexInv /\ RpcInv /\ LaunchInv /\ CallInv
  BY <1>1 DEF Idle, NewSession, Holding, Sending, Written, PlaceInv, MutexInv, RpcInv, LaunchInv, CallInv
<1>5. ActiveInv /\ SteerInv
  BY <1>1 DEF Idle, NewSession, Following, Written, ActiveInv, SteerInv
<1>6. QueueInv
  BY <1>1 DEF NewProcess, QueueInv
<1>7. FollowInv /\ ObservedInv
  BY <1>1 DEF Idle, NewProcess, Following, Running, FollowInv, ObservedInv
<1>8. QED
  BY <1>3, <1>4, <1>5, <1>6, <1>7 DEF IInv

LEMMA NextKeeps == IInv /\ [Next]_vars => IInv'
<1> SUFFICES ASSUME IInv, [Next]_vars PROVE IInv'
  OBVIOUS
<1>1. ASSUME NEW t \in Calls, Call(t) \/ CallStep(t) \/ Interrupted(t) PROVE IInv'
  BY <1>1, CallKeeps, LockTurnKeeps, ChooseKeeps, LaunchKeeps, AttachKeeps, StartKeeps, TurnCompletedKeeps,
     FollowUpKeeps, InterruptedKeeps, ExitedKeeps, EndCallKeeps, TakeKeeps, ClosedKeeps DEF CallStep
<1>2. ASSUME NEW c \in Closers, Close(c) \/ CloseStep(c) PROVE IInv'
  BY <1>2, CloseKeeps, TakeKeeps, ClosedKeeps DEF CloseStep
<1>3. ASSUME NEW k \in Callbacks, CallbackStep(k) PROVE IInv'
  BY <1>3, ExpireLocksKeeps, ExpireKeeps, ClosedKeeps DEF CallbackStep
<1>4. ASSUME NEW k \in Callbacks, NEW s \in Sessions, TimerFires(s, k) PROVE IInv'
  BY <1>4, TimerFiresKeeps
<1>5. ASSUME NEW d \in Senders, Find(d) \/ SendStep(d) \/ GiveUp(d) PROVE IInv'
  BY <1>5, FindKeeps, RegisterKeeps, SteerKeeps, AnsweredKeeps, GiveUpKeeps DEF SendStep
<1>6. ASSUME NEW p \in Procs, Consume(p) \/ NativeTurnEnds(p) \/ NativeFollowUp(p) \/ Crash(p) \/ Exit(p)
      PROVE  IInv'
  BY <1>6, ConsumeKeeps, NativeTurnEndsKeeps, NativeFollowUpKeeps, CrashKeeps, ExitKeeps
<1>7. CASE UNCHANGED vars
  <2> USE <1>7 DEF vars
  <2>1. TypeOK' /\ PlaceInv' /\ MutexInv' /\ RpcInv' /\ LaunchInv' /\ CallInv'
    BY DEF IInv, TypeOK, PlaceInv, MutexInv, RpcInv, LaunchInv, Running, CallInv
  <2>2. ActiveInv' /\ SteerInv' /\ QueueInv'
    BY DEF IInv, ActiveInv, SteerInv, Running, QueueInv
  <2>3. FollowInv' /\ ObservedInv'
    BY DEF IInv, FollowInv, Followed, Running, ObservedInv, Lost, LostBefore, GaveUp, At
  <2>4. QED
    BY <2>1, <2>2, <2>3 DEF IInv
<1>8. QED
  BY <1>1, <1>2, <1>3, <1>4, <1>5, <1>6, <1>7 DEF Next

(* The inductive invariant of both RPC transports.                         *)
THEOREM RpcInvariant == Spec => []IInv
  BY InitHolds, NextKeeps, PTL DEF Spec

(* Every variable holds a value of its kind.                               *)
THEOREM RpcTypeCorrect == Spec => []TypeOK
<1>1. IInv => TypeOK
  BY DEF IInv
<1>2. QED
  BY <1>1, RpcInvariant, PTL

(* A call only uses a process launched for its own fingerprint: it is the  *)
(* process of its session, which records what it was launched for.         *)
THEOREM TurnUsesItsScopeHolds == Spec => []TurnUsesItsScope
<1>1. IInv => TurnUsesItsScope
  <2> SUFFICES ASSUME IInv, NEW t \in Calls, work[t].pc \in {"start", "follow", "followup"}
               PROVE  process[work[t].process].scope = work[t].scope
    BY DEF TurnUsesItsScope
  <2>1. work[t].session \in Sessions /\ work[t].process # None
    BY KindsHold DEF IInv, Kinds, Threads, PlaceInv
  <2>2. QED
    BY <2>1 DEF IInv, CallInv, RpcInv
<1>2. QED
  BY <1>1, RpcInvariant, PTL

(* Every native turn of a live Codex process has a call that watches it,   *)
(* because what is still queued has one too; or a sender gave up on input  *)
(* the process took during an earlier turn, which no call waits for.       *)
THEOREM NoUnobservedTurnHolds == Spec => []NoUnobservedTurn
<1>1. IInv => NoUnobservedTurn
  BY DEF IInv, ObservedInv, NoUnobservedTurn, Following, Watched, LostBefore
<1>2. QED
  BY <1>1, RpcInvariant, PTL

-----------------------------------------------------------------------------
(* Only Expire takes an idle callback from holding the mutex to the close. *)
LEMMA OnlyExpireCloses ==
    ASSUME IInv, Next, NEW k \in Callbacks, At(k, "expire"), work'[k].pc = "closing"
    PROVE  Expire(k)
<1> USE RpcAssumption DEF At
<1>1. k \in Threads /\ work \in [Threads -> WorkRecords]
  BY DEF IInv, TypeOK, Threads
<1>2. ASSUME NEW t \in Calls, Call(t) \/ CallStep(t) \/ Interrupted(t) PROVE FALSE
  <2>1. work'[k] = work[k]
    <3>1. k # t
      OBVIOUS
    <3>2. CASE Call(t)
      BY <1>1, <3>1, <3>2 DEF Call
    <3>3. CASE LockTurn(t) \/ Choose(t) \/ Launch(t) \/ Attach(t)
      BY <1>1, <3>1, <3>3 DEF LockTurn, Choose, Launch, Attach, Step, Return, End, Fails, Stop
    <3>4. CASE Start(t) \/ TurnCompleted(t) \/ FollowUp(t) \/ Interrupted(t)
      BY <1>1, <3>1, <3>4 DEF Start, TurnCompleted, FollowUp, Interrupted, Step, End, Fails, Stop
    <3>5. CASE Exited(t) \/ EndCall(t) \/ Take(t) \/ Closed(t)
      BY <1>1, <3>1, <3>5 DEF Exited, EndCall, Take, Closed, Return, End, Fails, Stop
    <3>6. QED
      BY <1>2, <3>2, <3>3, <3>4, <3>5 DEF CallStep
  <2>2. QED
    BY <2>1
<1>3. ASSUME NEW c \in Closers, Close(c) \/ CloseStep(c) PROVE FALSE
  BY <1>1, <1>3 DEF Close, CloseStep, Take, Closed, Return, Stop
<1>4. ASSUME NEW j \in Callbacks, CallbackStep(j) PROVE Expire(k)
  <2>1. CASE j = k
    BY <1>4, <2>1 DEF CallbackStep, ExpireLocks, Closed
  <2>2. CASE j # k
    BY <1>1, <1>4, <2>2 DEF CallbackStep, ExpireLocks, Expire, Closed, Step, Return, Stop
  <2>3. QED
    BY <2>1, <2>2
<1>5. ASSUME NEW j \in Callbacks, NEW s \in Sessions, TimerFires(s, j) PROVE FALSE
  BY <1>1, <1>5 DEF TimerFires
<1>6. ASSUME NEW d \in Senders, Find(d) \/ SendStep(d) \/ GiveUp(d) PROVE FALSE
  BY <1>1, <1>6 DEF Find, SendStep, Register, Steer, SteerAnswered, GiveUp, Forget, Step, Return
<1>7. ASSUME NEW p \in Procs, Consume(p) \/ NativeTurnEnds(p) \/ NativeFollowUp(p) \/ Crash(p) \/ Exit(p) PROVE FALSE
  BY <1>7 DEF Consume, NativeTurnEnds, NativeFollowUp, Crash, Exit
<1>8. QED
  BY <1>2, <1>3, <1>4, <1>5, <1>6, <1>7 DEF Next

(* An idle callback never closes a process a call uses: it closes that of  *)
(* the session whose mutex it holds, which is nobody else's.               *)
THEOREM ExpirySparesCallsHolds == Spec => ExpirySparesCalls
<1>1. ASSUME IInv, Next, NEW k \in Callbacks, At(k, "expire"), work'[k].pc = "closing", NEW t \in Calls
      PROVE  ~Uses(t, work'[k].process)
  <2> DEFINE s == work[k].session
             p == session[s].rpc
  <2>1. Expire(k)
    BY <1>1, OnlyExpireCloses
  <2>2. k \in Threads /\ t \in Threads /\ Kinds /\ k # t /\ work[k].pc = "expire"
    BY <1>1, RpcAssumption, KindsHold DEF IInv, Threads, At
  <2>3. s \in Sessions /\ session[s].turn = k /\ work[t].session \in Sessions \cup {None}
    BY <1>1, <2>2 DEF IInv, PlaceInv, MutexInv, Holding, Kinds
  <2>4. p # None /\ work'[k].process = p
    <3>1. work \in [Threads -> WorkRecords]
      BY <1>1 DEF IInv, TypeOK
    <3>2. CASE p # None /\ Stop(k, p, "closing")
      BY <2>2, <3>1, <3>2 DEF Stop, WorkRecords
    <3>3. CASE Return(k)
      BY <1>1, <2>2, <3>1, <3>3 DEF Return, Idle
    <3>4. QED
      BY <2>1, <3>2, <3>3 DEF Expire
  <2>5. SUFFICES ASSUME Uses(t, p) PROVE FALSE
    BY <2>4
  <2>6. CASE work[t].pc = "attach"
    BY <1>1, <2>3, <2>5, <2>6 DEF Uses, IInv, LaunchInv
  <2>7. CASE work[t].pc \in {"start", "follow", "followup"}
    <3>1. work[t].session \in Sessions /\ session[work[t].session].rpc = p
      BY <1>1, <2>3, <2>5, <2>7 DEF Uses, IInv, CallInv, PlaceInv
    <3>2. work[t].session = s
      BY <1>1, <2>3, <2>4, <3>1 DEF IInv, RpcInv
    <3>3. session[s].turn = t
      BY <1>1, <2>3, <2>7, <3>2 DEF IInv, MutexInv, Holding
    <3>4. QED
      BY <2>2, <2>3, <3>3
  <2>8. QED
    BY <2>5, <2>6, <2>7 DEF Uses
<1>2. IInv /\ [Next]_vars => [\A k \in Callbacks : At(k, "expire") /\ work'[k].pc = "closing" =>
                                 \A t \in Calls : ~Uses(t, work'[k].process)]_vars
  BY <1>1
<1>3. QED
  BY <1>2, RpcInvariant, PTL DEF Spec, ExpirySparesCalls

-----------------------------------------------------------------------------
(* A step that hands no process over keeps whoever has one in hand.        *)
KeepsHands ==
    /\ registry' = registry
    /\ \A s \in Sessions : session'[s].rpc = session[s].rpc
    /\ \A x \in Threads : work[x].pc \in {"take", "attach"} => work'[x] = work[x]
    /\ \A p \in Procs : process'[p].state = "running" => process[p].state = "running"

LEMMA HandsKept ==
    ASSUME IInv, KeepsHands
    PROVE  Escaped' \subseteq Escaped
<1> SUFFICES ASSUME NEW p \in Procs, p \notin Escaped PROVE p \notin Escaped'
  BY DEF Escaped
<1> USE DEF Running
<1>1. CASE process[p].state # "running"
  BY <1>1 DEF KeepsHands, Escaped
<1>2. CASE Kept(p)
  BY <1>2 DEF KeepsHands, Escaped, Kept, IInv, TypeOK
<1>3. ASSUME NEW x \in Threads, InHand(x, p) PROVE p \notin Escaped'
  <2>1. work'[x] = work[x]
    BY <1>3 DEF KeepsHands, InHand, At
  <2>2. work[x].pc = "take" => work[x].target \in Sessions
    BY KindsHold DEF IInv, Kinds, PlaceInv
  <2>3. QED
    BY <1>3, <2>1, <2>2 DEF KeepsHands, Escaped, InHand, At
<1>4. QED
  BY <1>1, <1>2, <1>3 DEF Escaped

(* finish starts nothing.                                                  *)
LEMMA FinishedStartsNone ==
    ASSUME process \in [Procs -> ProcessRecords], NEW p, process' = Finished(p)
    PROVE  \A q \in Procs : process'[q].state = "running" => process[q].state = "running"
  BY DEF Finished, ProcessRecords

LEMMA MostStepsKeepHands ==
    ASSUME IInv,
           \/ \E t \in Calls : \/ LockTurn(t) \/ Choose(t) \/ Start(t) \/ TurnCompleted(t) \/ FollowUp(t)
                               \/ Interrupted(t) \/ Exited(t) \/ Closed(t)
           \/ \E c \in Closers : Closed(c)
           \/ \E k \in Callbacks : ExpireLocks(k) \/ Closed(k) \/ \E s \in Sessions : TimerFires(s, k)
           \/ \E d \in Senders : Find(d) \/ SendStep(d) \/ GiveUp(d)
           \/ \E p \in Procs : Consume(p) \/ NativeTurnEnds(p) \/ NativeFollowUp(p) \/ Crash(p) \/ Exit(p)
    PROVE  KeepsHands
<1> USE RpcAssumption DEF At
<1>1. /\ work \in [Threads -> WorkRecords] /\ session \in [Sessions -> SessionRecords]
      /\ process \in [Procs -> ProcessRecords] /\ Kinds
  BY KindsHold DEF IInv, TypeOK
<1>2. ASSUME NEW t \in Calls, LockTurn(t) PROVE KeepsHands
  BY <1>1, <1>2 DEF LockTurn, Step, Return, KeepsHands, SessionRecords
<1>3. ASSUME NEW t \in Calls, Choose(t) PROVE KeepsHands
  <2>1. registry' = registry /\ \A s \in Sessions : session'[s].rpc = session[s].rpc
    BY <1>1, <1>3 DEF Choose
  <2>2. \A x \in Threads : work[x].pc \in {"take", "attach"} => work'[x] = work[x]
    BY <1>1, <1>3 DEF Choose
  <2>3. \A q \in Procs : process'[q].state = "running" => process[q].state = "running"
    BY <1>1, <1>3, FinishedStartsNone DEF Choose
  <2>4. QED
    BY <2>1, <2>2, <2>3 DEF KeepsHands
<1>4. ASSUME NEW t \in Calls, Start(t) PROVE KeepsHands
  <2>1. registry' = registry /\ \A s \in Sessions : session'[s].rpc = session[s].rpc
    <3>1. CASE session' = session
      BY <1>4, <3>1 DEF Start
    <3>2. ASSUME NEW m, NEW S, session' = [session EXCEPT ![work[t].session].active = m, ![work[t].session].steers = S]
          PROVE  \A o \in Sessions : session'[o].rpc = session[o].rpc
      BY <1>1, <3>2 DEF SessionRecords
    <3>3. registry' = registry /\ (session' = session \/ \E m, S : session' = [session EXCEPT ![work[t].session].active = m, ![work[t].session].steers = S])
      BY <1>4 DEF Start
    <3>4. QED
      BY <3>1, <3>2, <3>3
  <2>2. \A x \in Threads : work[x].pc \in {"take", "attach"} => work'[x] = work[x]
    BY <1>1, <1>4 DEF Start, Step, Stop, End, Fails
  <2>3. \A q \in Procs : process'[q].state = "running" => process[q].state = "running"
    BY <1>1, <1>4, FinishedStartsNone DEF Start, Stop, ProcessRecords, Running
  <2>4. QED
    BY <2>1, <2>2, <2>3 DEF KeepsHands
<1>5. ASSUME NEW t \in Calls, TurnCompleted(t) PROVE KeepsHands
  <2>1. registry' = registry /\ \A s \in Sessions : session'[s].rpc = session[s].rpc
    BY ZenonT(30), <1>1, <1>5 DEF TurnCompleted, SessionRecords
  <2>2. \A x \in Threads : work[x].pc \in {"take", "attach"} => work'[x] = work[x]
    BY <1>1, <1>5 DEF TurnCompleted, Step, End, Fails
  <2>3. \A q \in Procs : process'[q].state = "running" => process[q].state = "running"
    BY <1>1, <1>5 DEF TurnCompleted
  <2>4. QED
    BY <2>1, <2>2, <2>3 DEF KeepsHands
<1>6. ASSUME NEW t \in Calls, FollowUp(t) PROVE KeepsHands
  <2>1. registry' = registry /\ \A s \in Sessions : session'[s].rpc = session[s].rpc
    <3>1. CASE session' = session
      BY <1>6, <3>1 DEF FollowUp
    <3>2. ASSUME NEW m, session' = [session EXCEPT ![work[t].session].active = m]
          PROVE  \A o \in Sessions : session'[o].rpc = session[o].rpc
      BY <1>1, <3>2 DEF SessionRecords
    <3>3. registry' = registry /\ (session' = session \/ \E m : session' = [session EXCEPT ![work[t].session].active = m])
      BY <1>6 DEF FollowUp
    <3>4. QED
      BY <3>1, <3>2, <3>3
  <2>2. \A x \in Threads : work[x].pc \in {"take", "attach"} => work'[x] = work[x]
    BY <1>1, <1>6 DEF FollowUp, Step, End
  <2>3. \A q \in Procs : process'[q].state = "running" => process[q].state = "running"
    BY <1>1, <1>6 DEF FollowUp
  <2>4. QED
    BY <2>1, <2>2, <2>3 DEF KeepsHands
<1>7. ASSUME NEW t \in Calls, Interrupted(t) PROVE KeepsHands
  <2>1. registry' = registry /\ \A s \in Sessions : session'[s].rpc = session[s].rpc
    BY <1>1, <1>7 DEF Interrupted
  <2>2. \A x \in Threads : work[x].pc \in {"take", "attach"} => work'[x] = work[x]
    BY <1>1, <1>7 DEF Interrupted, Stop, End, Fails
  <2>3. \A q \in Procs : process'[q].state = "running" => process[q].state = "running"
    BY <1>1, <1>7, FinishedStartsNone DEF Interrupted, Stop
  <2>4. QED
    BY <2>1, <2>2, <2>3 DEF KeepsHands
<1>8. ASSUME NEW t \in Calls, Exited(t) PROVE KeepsHands
  BY <1>1, <1>8 DEF Exited, End, Fails, KeepsHands
<1>9. ASSUME NEW x \in Threads, Closed(x) PROVE KeepsHands
  BY <1>1, <1>9 DEF Closed, Unlock, Return, KeepsHands, SessionRecords
<1>10. ASSUME NEW k \in Callbacks, ExpireLocks(k) PROVE KeepsHands
  BY SMTT(30), <1>1, <1>10 DEF ExpireLocks, Step, Return, KeepsHands, SessionRecords
<1>11. ASSUME NEW k \in Callbacks, NEW s \in Sessions, TimerFires(s, k) PROVE KeepsHands
  BY <1>1, <1>11 DEF TimerFires, KeepsHands, SessionRecords
<1>12. ASSUME NEW d \in Senders, Find(d) PROVE KeepsHands
  BY <1>1, <1>12 DEF Find, KeepsHands
<1>13. ASSUME NEW d \in Senders, SendStep(d) \/ GiveUp(d) PROVE KeepsHands
  <2>1. registry' = registry /\ \A s \in Sessions : session'[s].rpc = session[s].rpc
    <3>1. CASE session' = session
      BY <1>13, <3>1 DEF SendStep, Register, Steer, SteerAnswered, GiveUp, Forget, Step
    <3>2. ASSUME NEW S, session' = [session EXCEPT ![work[d].target].steers = S]
          PROVE  \A o \in Sessions : session'[o].rpc = session[o].rpc
      BY <1>1, <3>2 DEF SessionRecords
    <3>3. registry' = registry /\ (session' = session \/ \E S : session' = [session EXCEPT ![work[d].target].steers = S])
      BY <1>13 DEF SendStep, Register, Steer, SteerAnswered, GiveUp, Forget, Step
    <3>4. QED
      BY <3>1, <3>2, <3>3
  <2>2. \A x \in Threads : work[x].pc \in {"take", "attach"} => work'[x] = work[x]
    BY <1>1, <1>13 DEF SendStep, Register, Steer, SteerAnswered, GiveUp, Forget, Step, Return
  <2>3. \A q \in Procs : process'[q].state = "running" => process[q].state = "running"
    <3>1. CASE process' = process
      BY <1>13, <3>1 DEF SendStep, Register, Steer, SteerAnswered, GiveUp, Forget, Step
    <3>2. ASSUME NEW Q, process' = [process EXCEPT ![work[d].process].queued = Q]
          PROVE  \A q \in Procs : process'[q].state = "running" => process[q].state = "running"
      BY <1>1, <3>2 DEF ProcessRecords
    <3>3. (process' = process \/ \E Q : process' = [process EXCEPT ![work[d].process].queued = Q])
      BY <1>13 DEF SendStep, Register, Steer, SteerAnswered, GiveUp, Forget, Step
    <3>4. QED
      BY <3>1, <3>2, <3>3
  <2>4. QED
    BY <2>1, <2>2, <2>3 DEF KeepsHands
<1>14. ASSUME NEW p \in Procs, Consume(p) \/ NativeTurnEnds(p) \/ NativeFollowUp(p) \/ Crash(p) \/ Exit(p)
       PROVE  KeepsHands
  <2>1. registry' = registry /\ \A s \in Sessions : session'[s].rpc = session[s].rpc
    BY <1>1, <1>14 DEF Consume, NativeTurnEnds, NativeFollowUp, Crash, Exit
  <2>2. \A x \in Threads : work[x].pc \in {"take", "attach"} => work'[x] = work[x]
    BY <1>1, <1>14 DEF Consume, NativeTurnEnds, NativeFollowUp, Crash, Exit
  <2>3. \A q \in Procs : process'[q].state = "running" => process[q].state = "running"
    <3>1. CASE Consume(p)
      <4>1. \E Q, I : process' = [process EXCEPT ![p].queued = Q, ![p].items = I]
        BY <3>1 DEF Consume
      <4>2. QED
        BY <1>1, <4>1 DEF ProcessRecords
    <3>2. CASE NativeTurnEnds(p)
      <4>1. \E b, r, Q : process' = [process EXCEPT ![p].busy = b, ![p].result = r, ![p].queued = Q]
                          \/ process' = [process EXCEPT ![p].busy = b, ![p].result = r]
        BY <3>2 DEF NativeTurnEnds
      <4>2. QED
        BY <1>1, <4>1 DEF ProcessRecords
    <3>3. CASE NativeFollowUp(p)
      BY <1>1, <3>3 DEF NativeFollowUp, ProcessRecords, Running
    <3>4. CASE Crash(p) \/ Exit(p)
      BY <1>1, <3>4, FinishedStartsNone DEF Crash, Exit, ProcessRecords
    <3>5. QED
      BY <1>14, <3>1, <3>2, <3>3, <3>4
  <2>4. QED
    BY <2>1, <2>2, <2>3 DEF KeepsHands
<1>15. QED
  BY <1>2, <1>3, <1>4, <1>5, <1>6, <1>7, <1>8, <1>9, <1>10, <1>11, <1>12, <1>13, <1>14 DEF Threads

(* A new object takes the place of none that is in hand.                   *)
LEMMA CallLetsNoneEscape ==
    ASSUME IInv, NEW t \in Calls, Call(t)
    PROVE  Escaped' \subseteq Escaped
<1> USE RpcAssumption DEF At, Threads
<1>1. work \in [Threads -> WorkRecords] /\ session \in [Sessions -> SessionRecords] /\ Kinds
  BY KindsHold DEF IInv, TypeOK
<1>2. process' = process /\ \A x \in Threads : work[x].pc \in {"take", "attach"} => work'[x] = work[x]
  BY <1>1 DEF Call
<1>3. CASE registry # None
  <2>1. registry' = registry /\ session' = session
    BY <1>3 DEF Call
  <2>2. QED
    BY <1>2, <2>1, HandsKept DEF KeepsHands
<1>4. CASE registry = None
  <2>1. PICK s \in Unreferenced : session' = [session EXCEPT ![s] = NewSession]
    BY <1>4, FreshIsMember DEF Call, Unreferenced
  <2>2. \A x \in Threads : work[x].pc = "take" =>
          work[x].target \in Sessions /\ session'[work[x].target] = session[work[x].target]
    BY <1>1, <2>1 DEF Unreferenced, Kinds, IInv, PlaceInv
  <2>3. QED
    BY <1>2, <1>4, <2>2 DEF Escaped, Running, Kept, InHand
<1>5. QED
  BY <1>3, <1>4

(* A process is launched into the hands of its call.                       *)
LEMMA LaunchLetsNoneEscape ==
    ASSUME IInv, NEW t \in Calls, Launch(t)
    PROVE  Escaped' \subseteq Escaped
<1> USE RpcAssumption DEF At, Threads
<1>1. work \in [Threads -> WorkRecords] /\ process \in [Procs -> ProcessRecords]
  BY DEF IInv, TypeOK
<1>2. registry' = registry /\ session' = session
  BY DEF Launch
<1>3. \A x \in Threads : work[x].pc \in {"take", "attach"} => work'[x] = work[x]
  BY <1>1 DEF Launch, End, Fails
<1>4. CASE process' = process
  BY <1>2, <1>3, <1>4, HandsKept DEF KeepsHands
<1>5. ASSUME NEW p \in Unborn, process' = [process EXCEPT ![p].state = "running", ![p].scope = work[t].scope],
             work' = [work EXCEPT ![t].pc = "attach", ![t].process = p]
      PROVE  Escaped' \subseteq Escaped
  <2>1. \A q \in Procs \ {p} : process'[q] = process[q]
    BY <1>1, <1>5
  <2>2. work'[t].pc = "attach" /\ work'[t].process = p
    BY <1>1, <1>5 DEF WorkRecords
  <2>3. p \notin Escaped'
    BY <2>2 DEF Escaped, InHand
  <2>4. QED
    BY <1>2, <1>3, <2>1, <2>3 DEF Escaped, Running, Kept, InHand
<1>6. QED
  BY <1>4, <1>5, FreshIsMember DEF Launch

(* The session's former process does not run any more; a new one that ends *)
(* up with nobody was launched for a session that is not registered.       *)
LEMMA AttachLetsOnlyLateEscape ==
    ASSUME IInv, NEW t \in Calls, Attach(t), NEW p \in Escaped' \ Escaped
    PROVE  At(t, "attach") /\ work[t].process = p /\ registry # work[t].session
<1> DEFINE s == work[t].session
           q == work[t].process
<1> USE RpcAssumption DEF At, Threads
<1>1. /\ work \in [Threads -> WorkRecords] /\ session \in [Sessions -> SessionRecords]
      /\ process \in [Procs -> ProcessRecords] /\ Kinds /\ p \in Procs
  BY KindsHold DEF IInv, TypeOK, Escaped
<1>2. work[t].pc = "attach" /\ s \in Sessions /\ q \in Procs /\ registry' = registry
  BY <1>1 DEF Attach, IInv, Kinds, PlaceInv
<1>3. \A x \in Threads \ {t} : work'[x] = work[x]
  BY <1>1 DEF Attach, Step, Stop
<1>4. CASE session' = [session EXCEPT ![s].rpc = q, ![s].scope = work[t].scope] /\ process' = process
  <2>1. /\ session'[s].rpc = q /\ \A o \in Sessions \ {s} : session'[o] = session[o]
        /\ session[s].rpc = None \/ process[session[s].rpc].state # "running"
    BY <1>1, <1>2, <1>4 DEF SessionRecords, IInv, LaunchInv, Running
  <2>2. process[p].state = "running"
    BY <1>4 DEF Escaped, Running
  <2>3. session[s].rpc # p
    BY <1>1, <2>1, <2>2
  <2>4. p = q
    <3>1. SUFFICES ASSUME p # q PROVE FALSE
      OBVIOUS
    <3>2. ~Kept(p)
      BY <1>1, <1>2, <2>1, <2>3, <3>1 DEF Kept, Escaped, Kinds
    <3>3. ASSUME NEW x \in Threads, InHand(x, p) PROVE FALSE
      <4>1. x # t
        BY <1>2, <3>1, <3>3 DEF InHand
      <4>2. work'[x] = work[x] /\ (work[x].pc = "take" => work[x].target \in Sessions \ {s})
        BY <1>1, <1>3, <2>3, <3>3, <4>1 DEF InHand, IInv, PlaceInv, Kinds
      <4>3. QED
        BY <2>1, <3>3, <4>2 DEF InHand, Escaped
    <3>4. QED
      BY <1>1, <2>2, <3>2, <3>3 DEF Escaped, Running
  <2>5. registry # s
    BY <1>1, <1>2, <2>1, <2>4 DEF Escaped, Kept
  <2>6. QED
    BY <1>2, <2>4, <2>5
<1>5. CASE Stop(t, q, "abort") /\ session' = session
  <2>1. Halted(q)
    BY <1>1, <1>2, <1>5, FinishedIsHalted DEF Stop
  <2>2. p # q /\ process[p].state = "running"
    BY <1>1, <2>1 DEF Halted, Escaped, Running
  <2>3. ~InHand(t, p)
    BY <1>2, <2>2 DEF InHand
  <2>4. QED
    BY <1>1, <1>2, <1>3, <1>5, <2>2, <2>3 DEF Escaped, Running, Kept, InHand
<1>6. QED
  BY <1>4, <1>5 DEF Attach, Step

(* Whoever takes the session out of the registry has it in hand.           *)
LEMMA UnregisteringLetsNoneEscape ==
    ASSUME IInv, NEW x \in Calls \cup Closers, EndCall(x) \/ Close(x)
    PROVE  Escaped' \subseteq Escaped
<1> USE RpcAssumption DEF At, Threads
<1>1. /\ work \in [Threads -> WorkRecords] /\ session \in [Sessions -> SessionRecords]
      /\ Kinds /\ process' = process
  BY KindsHold DEF IInv, TypeOK, EndCall, Close
<1>2. /\ \A s \in Sessions : session'[s].rpc = session[s].rpc
      /\ \A y \in Threads : work[y].pc \in {"take", "attach"} => work'[y] = work[y]
  BY <1>1 DEF EndCall, Close, Return, SessionRecords
<1>3. CASE registry' = registry
  BY <1>1, <1>2, <1>3, HandsKept DEF KeepsHands
<1>4. CASE registry' = None /\ registry \in Sessions /\ work' = [work EXCEPT ![x].pc = "take", ![x].target = registry]
  <2>1. work'[x].pc = "take" /\ work'[x].target = registry
    BY <1>1, <1>4 DEF WorkRecords
  <2>2. \A p \in Procs : Kept(p) => InHand(x, p)'
    BY <1>2, <1>4, <2>1 DEF Kept, InHand
  <2>3. \A p \in Procs, y \in Threads : InHand(y, p) => InHand(y, p)'
    BY <1>1, <1>2 DEF InHand, IInv, PlaceInv, Kinds
  <2>4. QED
    BY <1>1, <2>2, <2>3 DEF Escaped, Running
<1>5. QED
  BY <1>1, <1>3, <1>4 DEF EndCall, Close, Kinds

(* Whoever takes a session in hand, or finds it expired, closes its process. *)
LEMMA TakeLetsNoneEscape ==
    ASSUME IInv, NEW x \in Calls \cup Closers, Take(x)
    PROVE  Escaped' \subseteq Escaped
<1> DEFINE s == work[x].target
           q == session[s].rpc
<1> USE RpcAssumption DEF At, Threads
<1>1. /\ work \in [Threads -> WorkRecords] /\ session \in [Sessions -> SessionRecords]
      /\ process \in [Procs -> ProcessRecords] /\ Kinds
  BY KindsHold DEF IInv, TypeOK
<1>2. s \in Sessions /\ q \in Procs \cup {None} /\ work[x].pc = "take" /\ registry' = registry
  BY <1>1 DEF Take, IInv, PlaceInv, Kinds
<1>3. \A y \in Threads \ {x} : work'[y] = work[y]
  BY <1>1 DEF Take, Return, Stop
<1>4. \A o \in Sessions : session'[o].rpc = session[o].rpc
  BY <1>1, <1>2 DEF Take, Unlock, SessionRecords
<1>5. CASE q = None /\ process' = process
  <2>1. \A p \in Procs : ~InHand(x, p)
    BY <1>2, <1>5 DEF InHand
  <2>2. \A p \in Procs, y \in Threads : InHand(y, p) => InHand(y, p)'
    BY <1>1, <1>3, <1>4, <2>1 DEF InHand, IInv, PlaceInv, Kinds
  <2>3. \A p \in Procs : Kept(p) => Kept(p)'
    BY <1>1, <1>2, <1>4 DEF Kept, Kinds
  <2>4. QED
    BY <1>5, <2>2, <2>3 DEF Escaped, Running
<1>6. CASE q # None /\ process' = Finished(q)
  <2>1. Halted(q)
    BY <1>1, <1>2, <1>6, FinishedIsHalted
  <2>2. \A p \in Procs \ {q} : ~InHand(x, p)
    BY <1>2 DEF InHand
  <2>3. \A p \in Procs \ {q}, y \in Threads : InHand(y, p) => InHand(y, p)'
    BY <1>1, <1>3, <1>4, <2>2 DEF InHand, IInv, PlaceInv, Kinds
  <2>4. \A p \in Procs : Kept(p) => Kept(p)'
    BY <1>1, <1>2, <1>4 DEF Kept, Kinds
  <2>5. QED
    BY <1>2, <1>6, <2>1, <2>3, <2>4 DEF Escaped, Running, Halted
<1>7. QED
  BY <1>2, <1>5, <1>6 DEF Take, Stop

LEMMA ExpireLetsNoneEscape ==
    ASSUME IInv, NEW k \in Callbacks, Expire(k)
    PROVE  Escaped' \subseteq Escaped
<1> DEFINE s == work[k].session
           q == session[s].rpc
<1> USE RpcAssumption DEF At, Threads
<1>1. /\ work \in [Threads -> WorkRecords] /\ session \in [Sessions -> SessionRecords]
      /\ process \in [Procs -> ProcessRecords] /\ Kinds
  BY KindsHold DEF IInv, TypeOK
<1>2. s \in Sessions /\ q \in Procs \cup {None} /\ work[k].pc = "expire" /\ registry \in Sessions \cup {None}
  BY <1>1 DEF Expire, IInv, PlaceInv, Kinds
<1>3. \A y \in Threads \ {k} : work'[y] = work[y]
  BY <1>1 DEF Expire, Return, Stop
<1>4. \A o \in Sessions : session'[o].rpc = session[o].rpc
  BY <1>1, <1>2 DEF Expire, Unlock, SessionRecords
<1>5. \A p \in Procs, y \in Threads : InHand(y, p) => InHand(y, p)'
  BY <1>1, <1>2, <1>3, <1>4 DEF InHand, IInv, PlaceInv, Kinds
<1>6. CASE registry = s /\ q # None /\ process' = Finished(q)
  <2>1. Halted(q)
    BY <1>1, <1>2, <1>6, FinishedIsHalted
  <2>2. \A p \in Procs \ {q} : ~Kept(p)
    BY <1>6 DEF Kept
  <2>3. QED
    BY <1>2, <1>5, <1>6, <2>1, <2>2 DEF Escaped, Running, Halted
<1>7. CASE ~(registry = s /\ q # None) /\ process' = process
  <2>1. \A p \in Procs : Kept(p) => registry # s
    BY <1>7, <1>2 DEF Kept
  <2>2. \A p \in Procs : Kept(p) => Kept(p)'
    BY <1>2, <1>4, <2>1 DEF Kept, Expire
  <2>3. QED
    BY <1>5, <1>7, <2>2 DEF Escaped, Running
<1>8. QED
  BY <1>6, <1>7 DEF Expire, Stop

(* The one way for a live process to end up with nobody who will close it  *)
(* is a launch that ends after its session was closed.                     *)
THEOREM OnlyLateLaunchesEscapeHolds == Spec => OnlyLateLaunchesEscape
<1> DEFINE Late(p) == \E t \in Calls : At(t, "attach") /\ work[t].process = p /\ registry # work[t].session
<1>1. ASSUME IInv, Next, NEW p \in Escaped' \ Escaped PROVE Late(p)
  <2>1. ASSUME NEW t \in Calls, Attach(t) PROVE Late(p)
    BY <1>1, <2>1, AttachLetsOnlyLateEscape
  <2>2. ASSUME NEW t \in Calls, Call(t) \/ Launch(t) \/ EndCall(t) \/ Take(t) PROVE FALSE
    <3>1. CASE Call(t) \/ Launch(t)
      BY <1>1, <3>1, CallLetsNoneEscape, LaunchLetsNoneEscape
    <3>2. CASE EndCall(t)
      BY <1>1, <3>2, UnregisteringLetsNoneEscape
    <3>3. CASE Take(t)
      BY <1>1, <3>3, TakeLetsNoneEscape
    <3>4. QED
      BY <2>2, <3>1, <3>2, <3>3
  <2>3. ASSUME NEW c \in Closers, Close(c) \/ Take(c) PROVE FALSE
    BY <1>1, <2>3, UnregisteringLetsNoneEscape, TakeLetsNoneEscape
  <2>4. ASSUME NEW k \in Callbacks, Expire(k) PROVE FALSE
    BY <1>1, <2>4, ExpireLetsNoneEscape
  <2>5. ~KeepsHands
    BY <1>1, HandsKept
  <2>6. QED
    BY <1>1, <2>1, <2>2, <2>3, <2>4, <2>5, MostStepsKeepHands DEF Next, CallStep, CloseStep,
       CallbackStep
<1>2. IInv /\ [Next]_vars => [\A p \in Escaped' \ Escaped : Late(p)]_vars
  BY <1>1
<1>3. QED
  BY <1>2, RpcInvariant, PTL DEF Spec, OnlyLateLaunchesEscape
=============================================================================
