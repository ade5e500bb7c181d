---------------------------- MODULE SdkSessionProofs ------------------------
(***************************************************************************)
(* Proofs about SdkSession for any number of sessions and turns and any    *)
(* bounds: the lines of a session have one reader, its end is told once,   *)
(* and nobody closes a session that a turn has taken.                      *)
(***************************************************************************)
EXTENDS SdkSession, TLAPS

(* Where a turn is the one that may use its session, where the drain of    *)
(* that session has stopped for it, where it is to start the drain, and    *)
(* where it knows its session at all.                                      *)
Using   == {"decide", "refuse", "handover", "prompt", "read", "park", "register"}
Reading == {"prompt", "read", "park"}
Parking == {"register", "evict", "closing_drain", "drain"}
Knowing == Using \cup Parking \cup {"check", "closing_return", "wait", "return"}
Taken   == {"handover", "prompt", "read"}

UserOf(t, s)   == turns[t].session = s /\ turns[t].pc \in Using
ReaderOf(t, s) == turns[t].session = s /\ turns[t].pc \in Reading
ParkerOf(t, s) == turns[t].session = s /\ turns[t].pc \in Parking

(* Who is to do something with a session knows it.                         *)
PlaceInv ==
    /\ \A t \in Turns : /\ turns[t].pc \in Knowing => turns[t].session \in Sdks
                        /\ turns[t].pc = "evict" => turns[t].other \in Sdks
    /\ closer.pc = "close" => closer.session \in Sdks

(* A session that was not launched yet is nobody's.                        *)
FreshInv == \A s \in Sdks : bridge[s].state = "none" =>
    /\ kept # s /\ \A t \in Turns : turns[t].session # s
    /\ sdk[s].drain = "off" /\ ~sdk[s].parked

(* One turn uses a session, and then it is not there for others to take;   *)
(* the turn that took it has cleared parked.                               *)
UserInv == \A s \in Sdks, t \in Turns :
    /\ UserOf(t, s) => kept # s /\ \A u \in Turns : UserOf(u, s) => u = t
    /\ HasTaken(t, s) => ~sdk[s].parked

(* The drain of a session is off while a turn reads, and due from the end  *)
(* of the reading until the one turn that parked the session starts it.    *)
DrainInv == \A s \in Sdks, t \in Turns :
    /\ ReaderOf(t, s) => sdk[s].drain = "off"
    /\ ParkerOf(t, s) => sdk[s].drain = "due" /\ \A u \in Turns : ParkerOf(u, s) => u = t

(* closing is set by whoever ends a session, closeIfParked or the waiter,  *)
(* and only the one that set it tells the end.                             *)
Untold(s) == sdk[s].closed = 0
CloseInv == \A s \in Sdks :
    /\ ~sdk[s].closing => sdk[s].close = "open" /\ sdk[s].waiter = "wait"
    /\ sdk[s].waiter = "report" => sdk[s].close = "open" /\ Untold(s)
    /\ sdk[s].close \in {"unregister", "shutdown"} => Untold(s)
    /\ sdk[s].close = "open" /\ sdk[s].waiter # "done" => Untold(s)
    /\ sdk[s].closed <= 1

IInv == SdkTypeOK /\ PlaceInv /\ FreshInv /\ UserInv /\ DrainInv /\ CloseInv

(* What a step does to the owners of a session.  A turn is calm unless it  *)
(* comes to use, to read or to park a session; a session is settled unless *)
(* it is parked or its drain is ordered; it is launched by one action.     *)
Calm(t) ==
    /\ \A S \in {Using, Reading, Parking, Taken, Knowing, {"evict"}} : turns'[t].pc \in S => turns[t].pc \in S
    /\ turns'[t].session = turns[t].session \/ (turns'[t].session = None /\ turns'[t].pc \notin Knowing)
    /\ turns'[t].pc = "evict" => turns'[t].other = turns[t].other
Settled(s) ==
    /\ sdk'[s].parked => sdk[s].parked
    /\ sdk'[s].drain = sdk[s].drain \/ (sdk[s].drain # "due" /\ sdk'[s].drain = "off")
Unlaunched(s) == bridge'[s].state = "none" => bridge[s].state = "none"

(* What a step does to the end of a session: nothing, or closeIfParked     *)
(* begins.                                                                 *)
Steady(s) == /\ sdk'[s].closing = sdk[s].closing /\ sdk'[s].close = sdk[s].close
             /\ sdk'[s].waiter = sdk[s].waiter /\ sdk'[s].closed = sdk[s].closed
Begun(s)  == /\ CanClose(s) /\ sdk'[s].closing /\ sdk'[s].close = "unregister"
             /\ sdk'[s].waiter = sdk[s].waiter /\ sdk'[s].closed = sdk[s].closed

(* A session that is closed from now on was parked and not taken.          *)
OnlyParkedClose == \A s \in Sdks : sdk[s].close = "open" /\ sdk'[s].close # "open" => CanClose(s)

-----------------------------------------------------------------------------
(* The records.                                                            *)

Lines == {"tasks", "none", "parked", "result"}

(* Changing a field keeps a record of its kind.                            *)
LEMMA SdkSetters ==
    ASSUME NEW r \in SdkRecords
    PROVE  /\ \A v \in BOOLEAN : /\ [r EXCEPT !.parked = v] \in SdkRecords
                                 /\ [r EXCEPT !.closing = v] \in SdkRecords
                                 /\ [r EXCEPT !.tasks = v] \in SdkRecords
                                 /\ [r EXCEPT !.idle = v] \in SdkRecords
                                 /\ [r EXCEPT !.stop = v] \in SdkRecords
           /\ \A v \in {"off", "due", "on", "discard"} : [r EXCEPT !.drain = v] \in SdkRecords
           /\ \A v \in {"open", "unregister", "shutdown", "closed"} : [r EXCEPT !.close = v] \in SdkRecords
           /\ \A v \in {"wait", "report", "unregister", "done"} : [r EXCEPT !.waiter = v] \in SdkRecords
           /\ \A v \in Nat : [r EXCEPT !.closed = v] \in SdkRecords
           /\ \A v \in SUBSET {"idle", "finished", "kill"} : [r EXCEPT !.calls = v] \in SdkRecords
  BY DEF SdkRecords

LEMMA BridgeSetters ==
    ASSUME NEW r \in BridgeRecords
    PROVE  /\ \A v \in {"none", "running", "ended", "exited"} : [r EXCEPT !.state = v] \in BridgeRecords
           /\ \A v \in BOOLEAN : /\ [r EXCEPT !.turn = v] \in BridgeRecords
                                 /\ [r EXCEPT !.tasks = v] \in BridgeRecords
                                 /\ [r EXCEPT !.stop = v] \in BridgeRecords
           /\ \A v \in Seq(Lines) : [r EXCEPT !.out = v] \in BridgeRecords
  BY DEF BridgeRecords, Lines

LEMMA TurnSetters ==
    ASSUME NEW r \in TurnRecords
    PROVE  /\ \A v \in Knowing \cup {"idle", "launch", "closing_launch", "done"} : [r EXCEPT !.pc = v] \in TurnRecords
           /\ \A v \in Sdks \cup {None} : /\ [r EXCEPT !.session = v] \in TurnRecords
                                          /\ [r EXCEPT !.other = v] \in TurnRecords
           /\ \A v \in BOOLEAN : /\ [r EXCEPT !.ctx = v] \in TurnRecords
                                 /\ [r EXCEPT !.released = v] \in TurnRecords
  BY DEF TurnRecords, Knowing, Using, Parking

(* The lines that wait for the reader of a session.                        *)
LEMMA LineTypes ==
    ASSUME NEW q \in Seq(Lines)
    PROVE  /\ \A x \in Lines : Append(q, x) \in Seq(Lines)
           /\ q # <<>> => Tail(q) \in Seq(Lines) /\ Head(q) \in Lines
  OBVIOUS

(* What SdkTypeOK says of the fields, one by one.                          *)
Kinds ==
    /\ \A s \in Sdks : /\ sdk[s] \in SdkRecords /\ sdk[s].calls \subseteq {"idle", "finished", "kill"}
                       /\ sdk[s].closed \in Nat /\ sdk[s].tasks \in BOOLEAN
                       /\ bridge[s] \in BridgeRecords /\ bridge[s].out \in Seq(Lines)
                       /\ bridge[s].tasks \in BOOLEAN /\ bridge[s].stop \in BOOLEAN
                       /\ bridge[s].state \in {"none", "running", "ended", "exited"}
    /\ \A t \in Turns : /\ turns[t] \in TurnRecords /\ turns[t].session \in Sdks \cup {None}
                        /\ turns[t].other \in Sdks \cup {None}
LEMMA KindsHold == SdkTypeOK => Kinds
  BY DEF SdkTypeOK, Kinds, SdkRecords, BridgeRecords, TurnRecords, Lines

(* A step that is calm and settled keeps the owners of the sessions.       *)
LEMMA CalmKeeps ==
    ASSUME FreshInv, UserInv, DrainInv, kept' \in {kept, None},
           \A t \in Turns : Calm(t), \A s \in Sdks : Settled(s) /\ Unlaunched(s)
    PROVE  FreshInv' /\ UserInv' /\ DrainInv'
<1>1. FreshInv'
  BY SdkAssumption DEF FreshInv, Calm, Settled, Unlaunched
<1>2. UserInv'
  BY SdkAssumption DEF UserInv, UserOf, HasTaken, Taken, Calm, Settled, Knowing
<1>3. DrainInv'
  BY SdkAssumption DEF DrainInv, ReaderOf, ParkerOf, Calm, Settled, Knowing
<1> QED
  BY <1>1, <1>2, <1>3

(* The end of a session is told once if nothing happens to it or           *)
(* closeIfParked begins.                                                   *)
LEMMA SteadyKeeps ==
    ASSUME CloseInv, \A s \in Sdks : Steady(s) \/ Begun(s)
    PROVE  CloseInv' /\ OnlyParkedClose
  BY DEF CloseInv, Untold, Steady, Begun, OnlyParkedClose, CanClose

(* A quiet step keeps the invariant if it keeps the types.                 *)
LEMMA QuietKeeps ==
    ASSUME IInv, SdkTypeOK', kept' \in {kept, None}, closer' = closer \/ closer'.pc # "close",
           \A t \in Turns : Calm(t),
           \A s \in Sdks : Settled(s) /\ Unlaunched(s) /\ (Steady(s) \/ Begun(s))
    PROVE  IInv' /\ OnlyParkedClose
<1>1. PlaceInv'
  BY DEF IInv, PlaceInv, Calm
<1> QED
  BY <1>1, CalmKeeps, SteadyKeeps DEF IInv

(* The steps that leave owners and ends alone: a callback kills, the drain *)
(* ends, a bridge goes on, lines end, a turn waits or is cancelled.        *)
LEMMA CallKillsKeeps ==
    ASSUME IInv, NEW s \in Sdks, CallKills(s)
    PROVE  IInv' /\ OnlyParkedClose
<1>1. Kinds
  BY KindsHold DEF IInv
<1>2. sdk' \in [Sdks -> SdkRecords]
  BY <1>1, SdkSetters DEF IInv, SdkTypeOK, Kinds, CallKills, Killed
<1>3. bridge' \in [Sdks -> BridgeRecords]
  BY <1>1, BridgeSetters DEF IInv, SdkTypeOK, Kinds, CallKills, Killed
<1>4. SdkTypeOK'
  BY <1>1, <1>2, <1>3, SdkAssumption DEF IInv, SdkTypeOK, Kinds, CallKills, Killed
<1>5. \A u \in Turns : Calm(u)
  BY <1>1, SdkAssumption DEF Kinds, TurnRecords, Calm, Knowing, Using, Parking, Reading, Taken,
       CallKills, Killed
<1>6. \A r \in Sdks : Settled(r) /\ (Steady(r) \/ Begun(r))
  BY <1>1 DEF Kinds, SdkRecords, Settled, Steady, Begun, CallKills, Killed
<1>7. \A r \in Sdks : Unlaunched(r)
  BY <1>1 DEF Kinds, BridgeRecords, Unlaunched, CallKills, Killed
<1>8. kept' \in {kept, None} /\ (closer' = closer \/ closer'.pc # "close")
  BY DEF CallKills, Killed
<1> QED
  BY <1>4, <1>5, <1>6, <1>7, <1>8, QuietKeeps

LEMMA DrainEndsKeeps ==
    ASSUME IInv, NEW s \in Sdks, DrainEnds(s)
    PROVE  IInv' /\ OnlyParkedClose
<1>1. Kinds
  BY KindsHold DEF IInv
<1>2. sdk' \in [Sdks -> SdkRecords]
  BY <1>1, SdkSetters DEF IInv, SdkTypeOK, Kinds, DrainEnds
<1>3. SdkTypeOK'
  BY <1>1, <1>2, SdkAssumption DEF IInv, SdkTypeOK, Kinds, DrainEnds
<1>4. \A u \in Turns : Calm(u)
  BY <1>1, SdkAssumption DEF Kinds, TurnRecords, Calm, Knowing, Using, Parking, Reading, Taken,
       DrainEnds
<1>5. \A r \in Sdks : Settled(r) /\ (Steady(r) \/ Begun(r))
  BY <1>1 DEF Kinds, SdkRecords, Settled, Steady, Begun, DrainEnds
<1>6. \A r \in Sdks : Unlaunched(r)
  BY <1>1 DEF Kinds, BridgeRecords, Unlaunched, DrainEnds
<1>7. kept' \in {kept, None} /\ (closer' = closer \/ closer'.pc # "close")
  BY DEF DrainEnds
<1> QED
  BY <1>3, <1>4, <1>5, <1>6, <1>7, QuietKeeps

LEMMA DiscardsKeeps ==
    ASSUME IInv, NEW s \in Sdks, Discards(s)
    PROVE  IInv' /\ OnlyParkedClose
<1>1. Kinds
  BY KindsHold DEF IInv
<1>2. bridge' \in [Sdks -> BridgeRecords]
  BY <1>1, BridgeSetters, LineTypes DEF IInv, SdkTypeOK, Kinds, Discards, Rest, Lines
<1>3. SdkTypeOK'
  BY <1>1, <1>2, SdkAssumption DEF IInv, SdkTypeOK, Kinds, Discards, Rest
<1>4. \A u \in Turns : Calm(u)
  BY <1>1, SdkAssumption DEF Kinds, TurnRecords, Calm, Knowing, Using, Parking, Reading, Taken,
       Discards, Rest
<1>5. \A r \in Sdks : Settled(r) /\ (Steady(r) \/ Begun(r))
  BY <1>1 DEF Kinds, SdkRecords, Settled, Steady, Begun, Discards, Rest
<1>6. \A r \in Sdks : Unlaunched(r)
  BY <1>1 DEF Kinds, BridgeRecords, Unlaunched, Discards, Rest
<1>7. kept' \in {kept, None} /\ (closer' = closer \/ closer'.pc # "close")
  BY DEF Discards, Rest
<1> QED
  BY <1>3, <1>4, <1>5, <1>6, <1>7, QuietKeeps

LEMMA BridgeTasksKeeps ==
    ASSUME IInv, NEW s \in Sdks, BridgeTasks(s)
    PROVE  IInv' /\ OnlyParkedClose
<1>1. Kinds
  BY KindsHold DEF IInv
<1>2. bridge' \in [Sdks -> BridgeRecords]
  BY <1>1, BridgeSetters, LineTypes DEF IInv, SdkTypeOK, Kinds, BridgeTasks, Spend, Lines
<1>3. SdkTypeOK'
  BY <1>1, <1>2, SdkAssumption DEF IInv, SdkTypeOK, Kinds, BridgeTasks, Spend
<1>4. \A u \in Turns : Calm(u)
  BY <1>1, SdkAssumption DEF Kinds, TurnRecords, Calm, Knowing, Using, Parking, Reading, Taken,
       BridgeTasks, Spend
<1>5. \A r \in Sdks : Settled(r) /\ (Steady(r) \/ Begun(r))
  BY <1>1 DEF Kinds, SdkRecords, Settled, Steady, Begun, BridgeTasks, Spend
<1>6. \A r \in Sdks : Unlaunched(r)
  BY <1>1 DEF Kinds, BridgeRecords, Unlaunched, BridgeTasks, Spend
<1>7. kept' \in {kept, None} /\ (closer' = closer \/ closer'.pc # "close")
  BY DEF BridgeTasks, Spend
<1> QED
  BY <1>3, <1>4, <1>5, <1>6, <1>7, QuietKeeps

LEMMA BridgeAnswersKeeps ==
    ASSUME IInv, NEW s \in Sdks, BridgeAnswers(s)
    PROVE  IInv' /\ OnlyParkedClose
<1>1. Kinds
  BY KindsHold DEF IInv
<1>2. bridge' \in [Sdks -> BridgeRecords]
  BY <1>1, BridgeSetters, LineTypes DEF IInv, SdkTypeOK, Kinds, BridgeAnswers, Lines
<1>3. SdkTypeOK'
  BY <1>1, <1>2, SdkAssumption DEF IInv, SdkTypeOK, Kinds, BridgeAnswers
<1>4. \A u \in Turns : Calm(u)
  BY <1>1, SdkAssumption DEF Kinds, TurnRecords, Calm, Knowing, Using, Parking, Reading, Taken,
       BridgeAnswers
<1>5. \A r \in Sdks : Settled(r) /\ (Steady(r) \/ Begun(r))
  BY <1>1 DEF Kinds, SdkRecords, Settled, Steady, Begun, BridgeAnswers
<1>6. \A r \in Sdks : Unlaunched(r)
  BY <1>1 DEF Kinds, BridgeRecords, Unlaunched, BridgeAnswers
<1>7. kept' \in {kept, None} /\ (closer' = closer \/ closer'.pc # "close")
  BY DEF BridgeAnswers
<1> QED
  BY <1>3, <1>4, <1>5, <1>6, <1>7, QuietKeeps

LEMMA BridgeStopsKeeps ==
    ASSUME IInv, NEW s \in Sdks, BridgeStops(s)
    PROVE  IInv' /\ OnlyParkedClose
<1>1. Kinds
  BY KindsHold DEF IInv
<1>2. bridge' \in [Sdks -> BridgeRecords]
  BY <1>1, BridgeSetters, LineTypes DEF IInv, SdkTypeOK, Kinds, BridgeStops, Lines
<1>3. SdkTypeOK'
  BY <1>1, <1>2, SdkAssumption DEF IInv, SdkTypeOK, Kinds, BridgeStops
<1>4. \A u \in Turns : Calm(u)
  BY <1>1, SdkAssumption DEF Kinds, TurnRecords, Calm, Knowing, Using, Parking, Reading, Taken,
       BridgeStops
<1>5. \A r \in Sdks : Settled(r) /\ (Steady(r) \/ Begun(r))
  BY <1>1 DEF Kinds, SdkRecords, Settled, Steady, Begun, BridgeStops
<1>6. \A r \in Sdks : Unlaunched(r)
  BY <1>1 DEF Kinds, BridgeRecords, Unlaunched, BridgeStops
<1>7. kept' \in {kept, None} /\ (closer' = closer \/ closer'.pc # "close")
  BY DEF BridgeStops
<1> QED
  BY <1>3, <1>4, <1>5, <1>6, <1>7, QuietKeeps

LEMMA BridgeExitsKeeps ==
    ASSUME IInv, NEW s \in Sdks, BridgeExits(s)
    PROVE  IInv' /\ OnlyParkedClose
<1>1. Kinds
  BY KindsHold DEF IInv
<1>2. bridge' \in [Sdks -> BridgeRecords]
  BY <1>1, BridgeSetters DEF IInv, SdkTypeOK, Kinds, BridgeExits, Killed
<1>3. SdkTypeOK'
  BY <1>1, <1>2, SdkAssumption DEF IInv, SdkTypeOK, Kinds, BridgeExits, Killed
<1>4. \A u \in Turns : Calm(u)
  BY <1>1, SdkAssumption DEF Kinds, TurnRecords, Calm, Knowing, Using, Parking, Reading, Taken,
       BridgeExits, Killed
<1>5. \A r \in Sdks : Settled(r) /\ (Steady(r) \/ Begun(r))
  BY <1>1 DEF Kinds, SdkRecords, Settled, Steady, Begun, BridgeExits, Killed
<1>6. \A r \in Sdks : Unlaunched(r)
  BY <1>1 DEF Kinds, BridgeRecords, Unlaunched, BridgeExits, Killed
<1>7. kept' \in {kept, None} /\ (closer' = closer \/ closer'.pc # "close")
  BY DEF BridgeExits, Killed
<1> QED
  BY <1>3, <1>4, <1>5, <1>6, <1>7, QuietKeeps

LEMMA BridgeCrashesKeeps ==
    ASSUME IInv, NEW s \in Sdks, BridgeCrashes(s)
    PROVE  IInv' /\ OnlyParkedClose
<1>1. Kinds
  BY KindsHold DEF IInv
<1>2. bridge' \in [Sdks -> BridgeRecords]
  BY <1>1, BridgeSetters DEF IInv, SdkTypeOK, Kinds, BridgeCrashes, Killed, Outside, Spend
<1>3. SdkTypeOK'
  BY <1>1, <1>2, SdkAssumption DEF IInv, SdkTypeOK, Kinds, BridgeCrashes, Killed, Outside, Spend
<1>4. \A u \in Turns : Calm(u)
  BY <1>1, SdkAssumption DEF Kinds, TurnRecords, Calm, Knowing, Using, Parking, Reading, Taken,
       BridgeCrashes, Killed, Outside, Spend
<1>5. \A r \in Sdks : Settled(r) /\ (Steady(r) \/ Begun(r))
  BY <1>1 DEF Kinds, SdkRecords, Settled, Steady, Begun, BridgeCrashes, Killed, Outside, Spend
<1>6. \A r \in Sdks : Unlaunched(r)
  BY <1>1 DEF Kinds, BridgeRecords, Unlaunched, BridgeCrashes, Killed, Outside, Spend
<1>7. kept' \in {kept, None} /\ (closer' = closer \/ closer'.pc # "close")
  BY DEF BridgeCrashes, Killed, Outside, Spend
<1> QED
  BY <1>3, <1>4, <1>5, <1>6, <1>7, QuietKeeps

LEMMA EndOfLinesKeeps ==
    ASSUME IInv, NEW t \in Turns, EndOfLines(t)
    PROVE  IInv' /\ OnlyParkedClose
<1>1. Kinds /\ turns[t].session \in Sdks
  BY KindsHold DEF IInv, PlaceInv, Knowing, Using, Parking, TurnAt, EndOfLines
<1>2. turns' \in [Turns -> TurnRecords]
  BY <1>1, TurnSetters DEF IInv, SdkTypeOK, Kinds, EndOfLines, Goto, Knowing, Using, Parking
<1>3. SdkTypeOK'
  BY <1>1, <1>2, SdkAssumption DEF IInv, SdkTypeOK, Kinds, EndOfLines, Goto
<1>4. \A u \in Turns : Calm(u)
  BY <1>1, SdkAssumption DEF Kinds, TurnRecords, Calm, Knowing, Using, Parking, Reading, Taken,
       EndOfLines, Goto, TurnAt
<1>5. \A r \in Sdks : Settled(r) /\ (Steady(r) \/ Begun(r))
  BY <1>1 DEF Kinds, SdkRecords, Settled, Steady, Begun, EndOfLines, Goto
<1>6. \A r \in Sdks : Unlaunched(r)
  BY <1>1 DEF Kinds, BridgeRecords, Unlaunched, EndOfLines, Goto
<1>7. kept' \in {kept, None} /\ (closer' = closer \/ closer'.pc # "close")
  BY DEF EndOfLines, Goto
<1> QED
  BY <1>3, <1>4, <1>5, <1>6, <1>7, QuietKeeps

LEMMA WaitKeeps ==
    ASSUME IInv, NEW t \in Turns, Wait(t)
    PROVE  IInv' /\ OnlyParkedClose
<1>1. Kinds /\ turns[t].session \in Sdks
  BY KindsHold DEF IInv, PlaceInv, Knowing, Using, Parking, TurnAt, Wait
<1>2. turns' \in [Turns -> TurnRecords]
  BY <1>1, TurnSetters DEF IInv, SdkTypeOK, Kinds, Wait, Goto, Knowing, Using, Parking
<1>3. SdkTypeOK'
  BY <1>1, <1>2, SdkAssumption DEF IInv, SdkTypeOK, Kinds, Wait, Goto
<1>4. \A u \in Turns : Calm(u)
  BY <1>1, SdkAssumption DEF Kinds, TurnRecords, Calm, Knowing, Using, Parking, Reading, Taken, Wait,
       Goto, TurnAt
<1>5. \A r \in Sdks : Settled(r) /\ (Steady(r) \/ Begun(r))
  BY <1>1 DEF Kinds, SdkRecords, Settled, Steady, Begun, Wait, Goto
<1>6. \A r \in Sdks : Unlaunched(r)
  BY <1>1 DEF Kinds, BridgeRecords, Unlaunched, Wait, Goto
<1>7. kept' \in {kept, None} /\ (closer' = closer \/ closer'.pc # "close")
  BY DEF Wait, Goto
<1> QED
  BY <1>3, <1>4, <1>5, <1>6, <1>7, QuietKeeps

LEMMA CancelKeeps ==
    ASSUME IInv, NEW t \in Turns, Cancel(t)
    PROVE  IInv' /\ OnlyParkedClose
<1>1. Kinds /\ turns[t].session \in Sdks
  BY KindsHold DEF IInv, PlaceInv, Knowing, Using, Parking, TurnAt, Cancel
<1>2. turns' \in [Turns -> TurnRecords]
  BY <1>1, TurnSetters DEF IInv, SdkTypeOK, Kinds, Cancel, Outside, Spend, Knowing, Using, Parking
<1>3. sdk' \in [Sdks -> SdkRecords]
  BY <1>1, SdkSetters DEF IInv, SdkTypeOK, Kinds, Cancel, Outside, Spend
<1>4. SdkTypeOK'
  BY <1>1, <1>2, <1>3, SdkAssumption DEF IInv, SdkTypeOK, Kinds, Cancel, Outside, Spend
<1>5. \A u \in Turns : Calm(u)
  BY <1>1, SdkAssumption DEF Kinds, TurnRecords, Calm, Knowing, Using, Parking, Reading, Taken, Cancel,
       Outside, Spend, TurnAt
<1>6. \A r \in Sdks : Settled(r) /\ (Steady(r) \/ Begun(r))
  BY <1>1 DEF Kinds, SdkRecords, Settled, Steady, Begun, Cancel, Outside, Spend
<1>7. \A r \in Sdks : Unlaunched(r)
  BY <1>1 DEF Kinds, BridgeRecords, Unlaunched, Cancel, Outside, Spend
<1>8. kept' \in {kept, None} /\ (closer' = closer \/ closer'.pc # "close")
  BY DEF Cancel, Outside, Spend
<1> QED
  BY <1>4, <1>5, <1>6, <1>7, <1>8, QuietKeeps

(* Reading a line changes the waiting lines of one session.                *)
LEMMA RestKeeps ==
    ASSUME SdkTypeOK, NEW s \in Sdks, bridge[s].out # <<>>
    PROVE  \E b \in BridgeRecords : Rest(s) = [bridge EXCEPT ![s] = b] /\ b.state = bridge[s].state
<1> DEFINE q == Tail(bridge[s].out)
           b == [bridge[s] EXCEPT !.out = q]
<1>1. bridge[s] \in BridgeRecords /\ q \in Seq(Lines)
  BY KindsHold, LineTypes DEF Kinds
<1> HIDE DEF q
<1>2. b \in BridgeRecords /\ b.state = bridge[s].state
  BY ZenonT(30), <1>1, BridgeSetters DEF BridgeRecords
<1>3. Rest(s) = [bridge EXCEPT ![s] = b]
  BY DEF Rest, q
<1> QED
  BY <1>2, <1>3

(* The idle timer fires: its callback is on its way.                       *)
LEMMA IdleFiresKeeps ==
    ASSUME IInv, NEW s \in Sdks, IdleFires(s)
    PROVE  IInv' /\ OnlyParkedClose
<1>1. Kinds
  BY KindsHold DEF IInv
<1>2. sdk' \in [Sdks -> SdkRecords]
  <2>1. sdk[s].calls \cup {"idle"} \in SUBSET {"idle", "finished", "kill"}
    BY <1>1 DEF Kinds
  <2> DEFINE r == [sdk[s] EXCEPT !.idle = FALSE, !.calls = @ \cup {"idle"}]
  <2>2. r \in SdkRecords
    BY ZenonT(30), <1>1, <2>1 DEF Kinds, SdkRecords
  <2>3. sdk' = [sdk EXCEPT ![s] = r]
    BY DEF IdleFires
  <2> HIDE DEF r
  <2> QED
    BY <2>2, <2>3 DEF IInv, SdkTypeOK
<1>3. SdkTypeOK'
  BY <1>1, <1>2 DEF IInv, SdkTypeOK, IdleFires
<1>4. \A u \in Turns : Calm(u)
  BY DEF Calm, IdleFires
<1>5. \A r \in Sdks : Settled(r) /\ (Steady(r) \/ Begun(r))
  BY <1>1 DEF Kinds, SdkRecords, Settled, Steady, Begun, IdleFires
<1>6. \A r \in Sdks : Unlaunched(r)
  BY DEF Unlaunched, IdleFires
<1>7. kept' \in {kept, None} /\ (closer' = closer \/ closer'.pc # "close")
  BY DEF IdleFires
<1> QED
  BY <1>3, <1>4, <1>5, <1>6, <1>7, QuietKeeps

(* A callback closes a session that is parked, and only then.              *)
LEMMA CallClosesKeeps ==
    ASSUME IInv, NEW s \in Sdks, CallCloses(s)
    PROVE  IInv' /\ OnlyParkedClose
<1>1. Kinds
  BY KindsHold DEF IInv
<1>2. PICK c \in sdk[s].calls \ {"kill"} :
        sdk' = [(IF CanClose(s) THEN BeginClose(s) ELSE sdk) EXCEPT ![s].calls = @ \ {c}]
  BY DEF CallCloses
<1> DEFINE q == IF CanClose(s)
                THEN [sdk[s] EXCEPT !.closing = TRUE, !.idle = FALSE, !.tasks = FALSE, !.close = "unregister"]
                ELSE sdk[s]
           r == [q EXCEPT !.calls = sdk[s].calls \ {c}]
<1>3. q \in SdkRecords /\ q.calls = sdk[s].calls
  BY ZenonT(30), <1>1 DEF Kinds, SdkRecords
<1>4. sdk' = [sdk EXCEPT ![s] = r]
  <2>1. CASE CanClose(s)
    BY ZenonT(30), <1>2, <1>3, <2>1 DEF BeginClose, IInv, SdkTypeOK
  <2>2. CASE ~CanClose(s)
    BY <1>2, <1>3, <2>2 DEF IInv, SdkTypeOK
  <2> QED
    BY <2>1, <2>2
<1>5. /\ r \in SdkRecords /\ r.parked = sdk[s].parked /\ r.drain = sdk[s].drain
      /\ r.waiter = sdk[s].waiter /\ r.closed = sdk[s].closed
      /\ \/ r.closing = sdk[s].closing /\ r.close = sdk[s].close
         \/ CanClose(s) /\ r.closing /\ r.close = "unregister"
  <2>1. sdk[s].calls \ {c} \in SUBSET {"idle", "finished", "kill"}
    BY <1>1 DEF Kinds
  <2>2. /\ q.parked = sdk[s].parked /\ q.drain = sdk[s].drain
        /\ q.waiter = sdk[s].waiter /\ q.closed = sdk[s].closed
        /\ \/ q.closing = sdk[s].closing /\ q.close = sdk[s].close
           \/ CanClose(s) /\ q.closing /\ q.close = "unregister"
    BY <1>1 DEF Kinds, SdkRecords
  <2> HIDE DEF q
  <2>3. r \in SdkRecords
    BY <1>3, <2>1 DEF SdkRecords
  <2>4. /\ r.parked = q.parked /\ r.drain = q.drain /\ r.waiter = q.waiter /\ r.closed = q.closed
        /\ r.closing = q.closing /\ r.close = q.close
    BY <1>3 DEF SdkRecords
  <2> QED
    BY <2>2, <2>3, <2>4
<1> HIDE DEF r
<1>6. SdkTypeOK'
  BY <1>4, <1>5 DEF IInv, SdkTypeOK, CallCloses
<1>7. \A u \in Turns : Calm(u)
  BY DEF Calm, CallCloses
<1>8. \A x \in Sdks : Settled(x) /\ (Steady(x) \/ Begun(x))
  BY <1>4, <1>5 DEF IInv, SdkTypeOK, Settled, Steady, Begun
<1>9. \A x \in Sdks : Unlaunched(x)
  BY DEF Unlaunched, CallCloses
<1>10. kept' \in {kept, None} /\ (closer' = closer \/ closer'.pc # "close")
  BY DEF CallCloses
<1> QED
  BY <1>6, <1>7, <1>8, <1>9, <1>10, QuietKeeps

(* The drain reads; the end of the last task starts a callback.            *)
LEMMA DrainReadsKeeps ==
    ASSUME IInv, NEW s \in Sdks, DrainReads(s)
    PROVE  IInv' /\ OnlyParkedClose
<1>1. Kinds
  BY KindsHold DEF IInv
<1>2. bridge' \in [Sdks -> BridgeRecords] /\ \A x \in Sdks : Unlaunched(x)
  <2>1. PICK b \in BridgeRecords : bridge' = [bridge EXCEPT ![s] = b] /\ b.state = bridge[s].state
    BY RestKeeps DEF IInv, DrainReads
  <2> QED
    BY <2>1 DEF IInv, SdkTypeOK, Unlaunched
<1> DEFINE r == [sdk[s] EXCEPT !.tasks = (Line(s) = "tasks"),
                     !.calls = IF Line(s) = "none" THEN @ \cup {"finished"} ELSE @]
<1>3. sdk' = sdk \/ sdk' = [sdk EXCEPT ![s] = r]
  BY DEF DrainReads
<1>4. /\ r \in SdkRecords /\ r.parked = sdk[s].parked /\ r.drain = sdk[s].drain
      /\ r.waiter = sdk[s].waiter /\ r.closed = sdk[s].closed
      /\ r.closing = sdk[s].closing /\ r.close = sdk[s].close
  <2>1. /\ sdk[s].calls \cup {"finished"} \in SUBSET {"idle", "finished", "kill"}
        /\ sdk[s].calls \in SUBSET {"idle", "finished", "kill"}
    BY <1>1 DEF Kinds
  <2> QED
    BY ZenonT(30), <1>1, <2>1 DEF Kinds, SdkRecords
<1> HIDE DEF r
<1>5. SdkTypeOK'
  BY <1>2, <1>3, <1>4 DEF IInv, SdkTypeOK, DrainReads, Shown
<1>6. \A u \in Turns : Calm(u)
  BY DEF Calm, DrainReads
<1>7. \A x \in Sdks : Settled(x) /\ (Steady(x) \/ Begun(x))
  BY <1>3, <1>4 DEF IInv, SdkTypeOK, Settled, Steady, Begun
<1>8. kept' \in {kept, None} /\ (closer' = closer \/ closer'.pc # "close")
  BY DEF DrainReads
<1> QED
  BY <1>2, <1>5, <1>6, <1>7, <1>8, QuietKeeps

(* A turn goes on behind the close of a session it does not use.           *)
LEMMA TurnClosedKeeps ==
    ASSUME IInv, NEW t \in Turns, TurnClosed(t)
    PROVE  IInv' /\ OnlyParkedClose
<1>1. Kinds
  BY KindsHold DEF IInv
<1>2. PICK next \in {"launch", "drain", "return"} :
        /\ turns[t].pc = Closing[next]
        /\ turns' = [turns EXCEPT ![t] = [@ EXCEPT !.pc = next, !.other = None]]
  BY DEF TurnClosed, TurnAt, Closing
<1>3. [turns[t] EXCEPT !.pc = next, !.other = None] \in TurnRecords
  BY <1>1 DEF Kinds, TurnRecords
<1>4. SdkTypeOK'
  BY <1>2, <1>3 DEF IInv, SdkTypeOK, TurnClosed
<1>5. \A u \in Turns : Calm(u)
  BY <1>1, <1>2 DEF Kinds, TurnRecords, Calm, Knowing, Using, Parking, Reading, Taken, Closing
<1>6. \A x \in Sdks : Settled(x) /\ Unlaunched(x) /\ (Steady(x) \/ Begun(x))
  BY DEF Settled, Unlaunched, Steady, Begun, TurnClosed
<1>7. kept' \in {kept, None} /\ (closer' = closer \/ closer'.pc # "close")
  BY DEF TurnClosed
<1> QED
  BY <1>4, <1>5, <1>6, <1>7, QuietKeeps

(* A turn writes its prompt and reads on.                                  *)
LEMMA PromptBridgeKeeps ==
    ASSUME IInv, NEW t \in Turns, PromptBridge(t)
    PROVE  IInv' /\ OnlyParkedClose
<1>1. Kinds
  BY KindsHold DEF IInv
<1> DEFINE s == turns[t].session
<1>2. turns[t].pc = "prompt" /\ s \in Sdks
  BY DEF PromptBridge, TurnAt, IInv, PlaceInv, Knowing, Using
<1>3. PICK label \in {"read", "wait"} : turns' = [turns EXCEPT ![t].pc = label]
  BY DEF PromptBridge, Goto
<1>4. bridge' \in {bridge, [bridge EXCEPT ![s].turn = TRUE], [bridge EXCEPT ![s].state = "exited"]}
  BY DEF PromptBridge, Killed
<1> HIDE DEF s
<1>5. turns' \in [Turns -> TurnRecords]
  <2>1. [turns[t] EXCEPT !.pc = label] \in TurnRecords
    BY <1>1 DEF Kinds, TurnRecords
  <2> QED
    BY <1>3, <2>1 DEF IInv, SdkTypeOK
<1>6. bridge' \in [Sdks -> BridgeRecords] /\ \A x \in Sdks : Unlaunched(x)
  <2>1. \A b \in BridgeRecords : /\ [b EXCEPT !.turn = TRUE] \in BridgeRecords
                                 /\ [b EXCEPT !.turn = TRUE].state = b.state
                                 /\ [b EXCEPT !.state = "exited"] \in BridgeRecords
                                 /\ [b EXCEPT !.state = "exited"].state = "exited"
    BY DEF BridgeRecords
  <2>2. PICK b \in BridgeRecords : bridge' = [bridge EXCEPT ![s] = b] /\ b.state \in {bridge[s].state, "exited"}
    <3>1. bridge = [bridge EXCEPT ![s] = bridge[s]] /\ bridge[s] \in BridgeRecords
      BY <1>2 DEF IInv, SdkTypeOK
    <3> QED
      BY <1>4, <2>1, <3>1
  <2> QED
    BY <1>2, <2>2 DEF IInv, SdkTypeOK, Unlaunched
<1>7. SdkTypeOK'
  BY <1>5, <1>6 DEF IInv, SdkTypeOK, PromptBridge
<1>8. \A u \in Turns : Calm(u)
  BY <1>1, <1>2, <1>3 DEF Kinds, TurnRecords, Calm, Knowing, Using, Parking, Reading, Taken
<1>9. \A x \in Sdks : Settled(x) /\ (Steady(x) \/ Begun(x))
  BY DEF Settled, Steady, Begun, PromptBridge
<1>10. kept' \in {kept, None} /\ (closer' = closer \/ closer'.pc # "close")
  BY DEF PromptBridge
<1> QED
  BY <1>6, <1>7, <1>8, <1>9, <1>10, QuietKeeps

(* A turn reads a line, perhaps the last of its answer.                    *)
LEMMA ReadKeeps ==
    ASSUME IInv, NEW t \in Turns, Read(t)
    PROVE  IInv' /\ OnlyParkedClose
<1>1. Kinds
  BY KindsHold DEF IInv
<1> DEFINE s == turns[t].session
<1>2. turns[t].pc = "read" /\ s \in Sdks /\ bridge[s].out # <<>>
  BY DEF Read, TurnAt, IInv, PlaceInv, Knowing, Using
<1>3. turns' = turns \/ turns' = [turns EXCEPT ![t].pc = "park"]
  BY DEF Read, Goto
<1>4. PICK v \in BOOLEAN : sdk' \in {sdk, [sdk EXCEPT ![s].tasks = v], [sdk EXCEPT ![s].calls = @ \cup {"kill"}]}
  <2>1. (Line(s) = "tasks") \in BOOLEAN
    OBVIOUS
  <2> QED
    BY <2>1 DEF Read
<1>5. PICK w \in BOOLEAN : bridge' \in {Rest(s), [Rest(s) EXCEPT ![s].stop = w]}
  <2>1. ((Line(s) = "parked" /\ Alive(s)) \/ Rest(s)[s].stop) \in BOOLEAN
    OBVIOUS
  <2> QED
    BY <2>1 DEF Read
<1>6. shown' \in {shown, s, None}
  BY DEF Read, Shown
<1> HIDE DEF s
<1>7. turns' \in [Turns -> TurnRecords]
  <2>1. [turns[t] EXCEPT !.pc = "park"] \in TurnRecords
    BY <1>1 DEF Kinds, TurnRecords
  <2> QED
    BY <1>3, <2>1 DEF IInv, SdkTypeOK
<1>8. bridge' \in [Sdks -> BridgeRecords] /\ \A x \in Sdks : Unlaunched(x)
  <2>1. PICK b \in BridgeRecords : Rest(s) = [bridge EXCEPT ![s] = b] /\ b.state = bridge[s].state
    BY <1>2, RestKeeps DEF IInv
  <2>2. [b EXCEPT !.stop = w] \in BridgeRecords /\ [b EXCEPT !.stop = w].state = bridge[s].state
    BY <2>1 DEF BridgeRecords
  <2>3. bridge' \in {[bridge EXCEPT ![s] = b], [bridge EXCEPT ![s] = [b EXCEPT !.stop = w]]}
    BY <1>2, <1>5, <2>1 DEF IInv, SdkTypeOK
  <2> QED
    BY <1>1, <1>2, <2>1, <2>2, <2>3 DEF IInv, SdkTypeOK, Unlaunched
<1>9. sdk' \in [Sdks -> SdkRecords] /\ \A x \in Sdks : Settled(x) /\ (Steady(x) \/ Begun(x))
  <2>1. sdk[s].calls \cup {"kill"} \in SUBSET {"idle", "finished", "kill"}
    BY <1>1, <1>2 DEF Kinds
  <2>2. /\ [sdk[s] EXCEPT !.tasks = v] \in SdkRecords
        /\ [sdk[s] EXCEPT !.calls = @ \cup {"kill"}] \in SdkRecords
    BY <1>1, <1>2, <2>1 DEF Kinds, SdkRecords
  <2>3. sdk' \in [Sdks -> SdkRecords]
    BY <1>2, <1>4, <2>2 DEF IInv, SdkTypeOK
  <2>4. PICK r \in {sdk[s], [sdk[s] EXCEPT !.tasks = v], [sdk[s] EXCEPT !.calls = @ \cup {"kill"}]} :
          sdk' = [sdk EXCEPT ![s] = r]
    <3>1. sdk = [sdk EXCEPT ![s] = sdk[s]]
      BY <1>2 DEF IInv, SdkTypeOK
    <3> QED
      BY <1>4, <3>1
  <2>5. /\ r.parked = sdk[s].parked /\ r.drain = sdk[s].drain /\ r.closing = sdk[s].closing
        /\ r.close = sdk[s].close /\ r.waiter = sdk[s].waiter /\ r.closed = sdk[s].closed
    BY <1>1, <1>2, <2>4 DEF Kinds, SdkRecords
  <2>6. \A x \in Sdks : Settled(x) /\ Steady(x)
    BY <2>4, <2>5 DEF IInv, SdkTypeOK, Settled, Steady
  <2> QED
    BY <2>3, <2>6
<1>10. SdkTypeOK'
  BY <1>2, <1>6, <1>7, <1>8, <1>9 DEF IInv, SdkTypeOK, Read
<1>11. \A u \in Turns : Calm(u)
  <2>1. \A u \in Turns : /\ turns'[u].session = turns[u].session /\ turns'[u].other = turns[u].other
                         /\ turns'[u].pc = turns[u].pc \/ (turns'[u].pc = "park" /\ turns[u].pc = "read")
    BY <1>1, <1>2, <1>3 DEF IInv, SdkTypeOK, Kinds, TurnRecords
  <2> QED
    BY <2>1 DEF Calm, Knowing, Using, Parking, Reading, Taken
<1>12. kept' \in {kept, None} /\ (closer' = closer \/ closer'.pc # "close")
  BY DEF Read
<1> QED
  BY <1>8, <1>9, <1>10, <1>11, <1>12, QuietKeeps

(* A turn returns and forgets its session.                                 *)
LEMMA TurnReturnsKeeps ==
    ASSUME IInv, NEW t \in Turns, TurnReturns(t)
    PROVE  IInv' /\ OnlyParkedClose
<1>1. Kinds
  BY KindsHold DEF IInv
<1>2. turns' = [turns EXCEPT ![t] = [NewTurn EXCEPT !.pc = "done"]]
  BY DEF TurnReturns
<1>3. [NewTurn EXCEPT !.pc = "done"] \in TurnRecords
  BY DEF NewTurn, TurnRecords
<1>4. SdkTypeOK'
  BY <1>2, <1>3 DEF IInv, SdkTypeOK, TurnReturns
<1>5. \A u \in Turns : Calm(u)
  BY <1>1, <1>2 DEF Kinds, TurnRecords, Calm, Knowing, Using, Parking, Reading, Taken, NewTurn
<1>6. \A x \in Sdks : Settled(x) /\ Unlaunched(x) /\ (Steady(x) \/ Begun(x))
  BY DEF Settled, Unlaunched, Steady, Begun, TurnReturns
<1>7. kept' \in {kept, None} /\ (closer' = closer \/ closer'.pc # "close")
  BY DEF TurnReturns
<1> QED
  BY <1>4, <1>5, <1>6, <1>7, QuietKeeps

(* A step that changes only how a session ends.                            *)
LEMMA EndingKeeps ==
    ASSUME IInv, SdkTypeOK', CloseInv', kept' \in {kept, None}, closer' = closer, turns' = turns,
           \A s \in Sdks : Settled(s) /\ Unlaunched(s)
    PROVE  IInv'
<1>1. \A t \in Turns : Calm(t)
  BY DEF Calm
<1>2. PlaceInv'
  BY DEF IInv, PlaceInv
<1> QED
  BY <1>1, <1>2, CalmKeeps DEF IInv

(* The steps of a close and of the waiter.                                 *)
LEMMA CloseUnregistersKeeps ==
    ASSUME IInv, NEW s \in Sdks, CloseUnregisters(s)
    PROVE  IInv' /\ OnlyParkedClose
<1>1. Kinds
  BY KindsHold DEF IInv
<1> DEFINE r == [sdk[s] EXCEPT !.close = "shutdown"]
<1>2. sdk' = [sdk EXCEPT ![s] = r] /\ sdk[s].close = "unregister"
  BY DEF CloseUnregisters
<1>3. /\ r \in SdkRecords /\ r.close = "shutdown"
      /\ r.parked = sdk[s].parked /\ r.drain = sdk[s].drain
      /\ r.closing = sdk[s].closing /\ r.waiter = sdk[s].waiter /\ r.closed = sdk[s].closed
  BY <1>1 DEF Kinds, SdkRecords
<1> HIDE DEF r
<1>4. SdkTypeOK'
  BY <1>2, <1>3 DEF IInv, SdkTypeOK, CloseUnregisters
<1>5. \A x \in Sdks : Settled(x) /\ Unlaunched(x)
  BY <1>2, <1>3 DEF IInv, SdkTypeOK, Settled, Unlaunched, CloseUnregisters
<1>6. CloseInv' /\ OnlyParkedClose
  BY <1>2, <1>3 DEF IInv, SdkTypeOK, CloseInv, Untold, OnlyParkedClose
<1>7. kept' \in {kept, None} /\ closer' = closer /\ turns' = turns
  BY DEF CloseUnregisters
<1> QED
  BY <1>4, <1>5, <1>6, <1>7, EndingKeeps

LEMMA ShutdownKeeps ==
    ASSUME IInv, NEW s \in Sdks, Shutdown(s)
    PROVE  IInv' /\ OnlyParkedClose
<1>1. Kinds
  BY KindsHold DEF IInv
<1> DEFINE r == [sdk[s] EXCEPT !.close = "closed", !.closed = @ + 1, !.calls = @ \cup {"kill"}]
           b == [bridge[s] EXCEPT !.stop = Alive(s)]
<1>2. /\ sdk' = [sdk EXCEPT ![s] = r] /\ sdk[s].close = "shutdown"
      /\ bridge' = [bridge EXCEPT ![s] = b]
  BY DEF Shutdown
<1>3. /\ r \in SdkRecords /\ r.close = "closed" /\ r.closed = sdk[s].closed + 1
      /\ r.parked = sdk[s].parked /\ r.drain = sdk[s].drain
      /\ r.closing = sdk[s].closing /\ r.waiter = sdk[s].waiter
  <2>1. sdk[s].calls \cup {"kill"} \in SUBSET {"idle", "finished", "kill"} /\ sdk[s].closed + 1 \in Nat
    BY <1>1 DEF Kinds
  <2> QED
    BY <1>1, <2>1 DEF Kinds, SdkRecords
<1>4. b \in BridgeRecords /\ b.state = bridge[s].state
  <2>1. Alive(s) \in BOOLEAN
    BY DEF Alive
  <2> QED
    BY <1>1, <2>1 DEF Kinds, BridgeRecords
<1> HIDE DEF r, b
<1>5. SdkTypeOK'
  BY <1>2, <1>3, <1>4 DEF IInv, SdkTypeOK, Shutdown
<1>6. \A x \in Sdks : Settled(x) /\ Unlaunched(x)
  BY <1>2, <1>3, <1>4 DEF IInv, SdkTypeOK, Settled, Unlaunched
<1>7. CloseInv' /\ OnlyParkedClose
  BY <1>1, <1>2, <1>3 DEF IInv, SdkTypeOK, CloseInv, Untold, OnlyParkedClose, Kinds
<1>8. kept' \in {kept, None} /\ closer' = closer /\ turns' = turns
  BY DEF Shutdown
<1> QED
  BY <1>5, <1>6, <1>7, <1>8, EndingKeeps

LEMMA ProcessEndsKeeps ==
    ASSUME IInv, NEW s \in Sdks, ProcessEnds(s)
    PROVE  IInv' /\ OnlyParkedClose
<1>1. Kinds
  BY KindsHold DEF IInv
<1> DEFINE w == IF Reports(s) THEN "report" ELSE "unregister"
           r == [sdk[s] EXCEPT !.closing = TRUE, !.tasks = FALSE, !.idle = FALSE, !.waiter = w]
<1>2. sdk' = [sdk EXCEPT ![s] = r] /\ sdk[s].waiter = "wait"
  BY DEF ProcessEnds
<1>3. w \in {"report", "unregister"} /\ (w = "report" => ~sdk[s].closing)
  BY DEF Reports
<1> HIDE DEF w
<1>4. /\ r \in SdkRecords /\ r.closing = TRUE /\ r.waiter = w
      /\ r.parked = sdk[s].parked /\ r.drain = sdk[s].drain
      /\ r.close = sdk[s].close /\ r.closed = sdk[s].closed
  BY <1>1, <1>3 DEF Kinds, SdkRecords
<1> HIDE DEF r
<1>5. SdkTypeOK'
  BY <1>2, <1>4 DEF IInv, SdkTypeOK, ProcessEnds
<1>6. \A x \in Sdks : Settled(x) /\ Unlaunched(x)
  BY <1>2, <1>4 DEF IInv, SdkTypeOK, Settled, Unlaunched, ProcessEnds
<1>7. CloseInv' /\ OnlyParkedClose
  BY <1>2, <1>3, <1>4 DEF IInv, SdkTypeOK, CloseInv, Untold, OnlyParkedClose
<1>8. kept' \in {kept, None} /\ closer' = closer /\ turns' = turns
  BY DEF ProcessEnds
<1> QED
  BY <1>5, <1>6, <1>7, <1>8, EndingKeeps

LEMMA WaiterEndsKeeps ==
    ASSUME IInv, NEW s \in Sdks, WaiterEnds(s)
    PROVE  IInv' /\ OnlyParkedClose
<1>1. Kinds
  BY KindsHold DEF IInv
<1> DEFINE told == [sdk[s] EXCEPT !.waiter = "done", !.closed = @ + 1]
           silent == [sdk[s] EXCEPT !.waiter = "done"]
<1>2. PICK r \in {told, silent} :
        /\ sdk' = [sdk EXCEPT ![s] = r] /\ sdk[s].waiter \in {"report", "unregister"}
        /\ r = told => sdk[s].waiter = "report"
        /\ shown' \in {shown, None}
  <2>1. CASE sdk[s].waiter = "report"
    BY <2>1 DEF WaiterEnds
  <2>2. CASE sdk[s].waiter = "unregister"
    <3>1. silent # told
      <4>1. silent.closed = sdk[s].closed /\ told.closed = sdk[s].closed + 1
        BY <1>1 DEF Kinds, SdkRecords
      <4>2. sdk[s].closed # sdk[s].closed + 1
        BY <1>1 DEF Kinds
      <4> HIDE DEF silent, told
      <4> QED
        BY <4>1, <4>2
    <3> QED
      BY <2>2, <3>1 DEF WaiterEnds
  <2> QED
    BY <2>1, <2>2 DEF WaiterEnds
<1>3. /\ r \in SdkRecords /\ r.waiter = "done"
      /\ r.parked = sdk[s].parked /\ r.drain = sdk[s].drain
      /\ r.close = sdk[s].close /\ r.closing = sdk[s].closing
      /\ r.closed = sdk[s].closed \/ (r.closed = sdk[s].closed + 1 /\ sdk[s].waiter = "report")
  <2>1. sdk[s].closed + 1 \in Nat
    BY <1>1 DEF Kinds
  <2> QED
    BY <1>1, <1>2, <2>1 DEF Kinds, SdkRecords
<1>4. SdkTypeOK'
  BY <1>2, <1>3 DEF IInv, SdkTypeOK, WaiterEnds
<1>5. \A x \in Sdks : Settled(x) /\ Unlaunched(x)
  BY <1>2, <1>3 DEF IInv, SdkTypeOK, Settled, Unlaunched, WaiterEnds
<1>6. CloseInv' /\ OnlyParkedClose
  BY <1>1, <1>2, <1>3 DEF IInv, SdkTypeOK, CloseInv, Untold, OnlyParkedClose, Kinds
<1>7. kept' \in {kept, None} /\ closer' = closer /\ turns' = turns
  BY DEF WaiterEnds
<1> QED
  BY <1>4, <1>5, <1>6, <1>7, EndingKeeps

(* The close of the chat from outside.                                     *)
LEMMA CloseOwnerKeeps ==
    ASSUME IInv, CloseOwner
    PROVE  IInv' /\ OnlyParkedClose
<1>1. Kinds
  BY KindsHold DEF IInv
<1>2. bridge' \in [Sdks -> BridgeRecords] /\ \A s \in Sdks : Unlaunched(s)
  <2>1. \A b \in BridgeRecords : /\ [b EXCEPT !.state = "exited"] \in BridgeRecords
                                /\ [b EXCEPT !.state = "exited"].state = "exited"
    BY DEF BridgeRecords
  <2>2. PICK x : bridge' = bridge \/ bridge' = [bridge EXCEPT ![x].state = "exited"]
    BY DEF CloseOwner, Killed
  <2>3. CASE x \in Sdks
    <3> DEFINE b == [bridge[x] EXCEPT !.state = "exited"]
    <3>1. b \in BridgeRecords /\ b.state = "exited"
      BY <1>1, <2>1, <2>3 DEF Kinds
    <3>2. bridge' = bridge \/ bridge' = [bridge EXCEPT ![x] = b]
      BY <2>2
    <3> HIDE DEF b
    <3> QED
      BY <2>3, <3>1, <3>2 DEF IInv, SdkTypeOK, Unlaunched
  <2>4. CASE x \notin Sdks
    <3>1. bridge' = bridge
      BY <2>2, <2>4 DEF IInv, SdkTypeOK
    <3> QED
      BY <3>1 DEF IInv, SdkTypeOK, Unlaunched
  <2> QED
    BY <2>3, <2>4
<1>3. budget' \in [launches : Nat, swings : Nat, events : Nat] /\ closer' = [closer EXCEPT !.pc = "look"]
  BY DEF IInv, SdkTypeOK, CloseOwner, Outside, Spend
<1>4. SdkTypeOK'
  BY <1>2, <1>3 DEF IInv, SdkTypeOK, CloseOwner
<1>5. closer'.pc # "close"
  BY <1>3 DEF IInv, SdkTypeOK
<1>6. \A t \in Turns : Calm(t)
  BY DEF Calm, CloseOwner
<1>7. \A s \in Sdks : Settled(s) /\ (Steady(s) \/ Begun(s))
  BY DEF Settled, Steady, CloseOwner
<1>8. kept' \in {kept, None}
  BY DEF CloseOwner
<1> QED
  BY <1>2, <1>4, <1>5, <1>6, <1>7, <1>8, QuietKeeps

LEMMA CloserLooksKeeps ==
    ASSUME IInv, CloserLooks
    PROVE  IInv' /\ OnlyParkedClose
<1>1. SdkTypeOK'
  BY DEF IInv, SdkTypeOK, CloserLooks
<1>2. PlaceInv'
  BY DEF IInv, SdkTypeOK, PlaceInv, CloserLooks
<1>3. FreshInv' /\ UserInv' /\ DrainInv' /\ CloseInv' /\ OnlyParkedClose
  BY DEF IInv, FreshInv, UserInv, UserOf, HasTaken, DrainInv, ReaderOf, ParkerOf, CloseInv, Untold,
         OnlyParkedClose, CloserLooks
<1> QED
  BY <1>1, <1>2, <1>3 DEF IInv

(* closeIfParked begins for one session, or for none.                      *)
LEMMA BeginCloseTypes ==
    ASSUME IInv, NEW s \in Sdks, sdk' = sdk \/ (CanClose(s) /\ sdk' = BeginClose(s))
    PROVE  sdk' \in [Sdks -> SdkRecords] /\ \A x \in Sdks : Settled(x) /\ (Steady(x) \/ Begun(x))
<1> DEFINE r == [sdk[s] EXCEPT !.closing = TRUE, !.idle = FALSE, !.tasks = FALSE, !.close = "unregister"]
<1>1. sdk' = sdk \/ (CanClose(s) /\ sdk' = [sdk EXCEPT ![s] = r])
  BY DEF BeginClose
<1>2. /\ r \in SdkRecords /\ r.closing = TRUE /\ r.close = "unregister"
      /\ r.parked = sdk[s].parked /\ r.drain = sdk[s].drain
      /\ r.waiter = sdk[s].waiter /\ r.closed = sdk[s].closed
  BY KindsHold DEF IInv, Kinds, SdkRecords
<1> HIDE DEF r
<1> QED
  BY <1>1, <1>2 DEF IInv, SdkTypeOK, Settled, Steady, Begun

LEMMA CloserClosesKeeps ==
    ASSUME IInv, CloserCloses
    PROVE  IInv' /\ OnlyParkedClose
<1>1. closer.session \in Sdks
  BY DEF IInv, PlaceInv, CloserCloses
<1>2. sdk' \in [Sdks -> SdkRecords] /\ \A x \in Sdks : Settled(x) /\ (Steady(x) \/ Begun(x))
  BY <1>1, BeginCloseTypes DEF CloserCloses
<1>3. SdkTypeOK'
  BY <1>2 DEF IInv, SdkTypeOK, CloserCloses
<1>4. \A t \in Turns : Calm(t)
  BY DEF Calm, CloserCloses
<1>5. \A x \in Sdks : Unlaunched(x)
  BY DEF Unlaunched, CloserCloses
<1>6. kept' \in {kept, None} /\ closer'.pc # "close"
  BY DEF CloserCloses
<1> QED
  BY <1>2, <1>3, <1>4, <1>5, <1>6, QuietKeeps

(* A turn closes a session and goes on at a label at which it may be.      *)
LEMMA TurnClosesKeeps ==
    ASSUME IInv, NEW t \in Turns, NEW s \in Sdks, NEW next \in {"launch", "drain", "return"},
           TurnCloses(t, s, next),
           next = "drain" => turns[t].pc = "evict",
           next = "return" => turns[t].pc = "check"
    PROVE  IInv' /\ OnlyParkedClose
<1>1. Kinds
  BY KindsHold DEF IInv
<1>2. sdk' \in [Sdks -> SdkRecords] /\ \A x \in Sdks : Settled(x) /\ (Steady(x) \/ Begun(x))
  BY BeginCloseTypes DEF TurnCloses
<1>3. PICK label \in {next, Closing[next]}, o \in {s, None} :
        turns' = [turns EXCEPT ![t] = [turns[t] EXCEPT !.pc = label, !.other = o]]
  BY DEF TurnCloses
<1> DEFINE r == [turns[t] EXCEPT !.pc = label, !.other = o]
<1>4. /\ r \in TurnRecords /\ r.session = turns[t].session /\ r.pc = label
  <2>1. label \in {"launch", "drain", "return", "closing_launch", "closing_drain", "closing_return"}
    BY DEF Closing
  <2> QED
    BY <1>1, <2>1 DEF Kinds, TurnRecords
<1>5. turns' = [turns EXCEPT ![t] = r]
  BY <1>3
<1> HIDE DEF r
<1>6. SdkTypeOK'
  BY <1>2, <1>4, <1>5 DEF IInv, SdkTypeOK, TurnCloses
<1>7. \A u \in Turns : Calm(u)
  BY <1>4, <1>5 DEF IInv, SdkTypeOK, Calm, Knowing, Using, Parking, Reading, Taken, Closing
<1>8. \A x \in Sdks : Unlaunched(x)
  BY DEF Unlaunched, TurnCloses
<1>9. kept' \in {kept, None} /\ closer' = closer
  BY DEF TurnCloses
<1> QED
  BY <1>2, <1>6, <1>7, <1>8, <1>9, QuietKeeps

(* The three closes of a turn: a session it refuses, one that it displaces *)
(* from the registry, and its own after it parked it.                      *)
LEMMA RefuseKeeps ==
    ASSUME IInv, NEW t \in Turns, Refuse(t)
    PROVE  IInv' /\ OnlyParkedClose
  BY TurnClosesKeeps DEF Refuse, TurnAt, IInv, PlaceInv, Knowing, Using

LEMMA EvictKeeps ==
    ASSUME IInv, NEW t \in Turns, Evict(t)
    PROVE  IInv' /\ OnlyParkedClose
  BY TurnClosesKeeps DEF Evict, TurnAt, IInv, PlaceInv

LEMMA CheckKeeps ==
    ASSUME IInv, NEW t \in Turns, Check(t)
    PROVE  IInv' /\ OnlyParkedClose
<1>1. Kinds /\ turns[t].session \in Sdks /\ turns[t].pc = "check"
  BY KindsHold DEF IInv, Check, TurnAt, PlaceInv, Knowing
<1>2. CASE TurnCloses(t, turns[t].session, "return")
  BY <1>1, <1>2, TurnClosesKeeps
<1>3. CASE Goto(t, "return") /\ UNCHANGED <<kept, active, sdk, bridge, closer, shown, budget>>
  <2>1. [turns[t] EXCEPT !.pc = "return"] \in TurnRecords
    BY <1>1 DEF Kinds, TurnRecords
  <2>2. SdkTypeOK'
    BY <1>3, <2>1 DEF IInv, SdkTypeOK, Goto
  <2>3. \A u \in Turns : Calm(u)
    BY <1>1, <1>3 DEF Kinds, TurnRecords, Calm, Knowing, Using, Parking, Reading, Taken, Goto
  <2>4. \A x \in Sdks : Settled(x) /\ Unlaunched(x) /\ (Steady(x) \/ Begun(x))
    BY <1>3 DEF Settled, Unlaunched, Steady
  <2> QED
    BY <1>3, <2>2, <2>3, <2>4, QuietKeeps
<1> QED
  BY <1>2, <1>3 DEF Check

-----------------------------------------------------------------------------
(* The steps that hand a session from one owner to the next.               *)

(* A turn takes the kept session, which clears parked.                     *)
LEMMA TakeKeptKeeps ==
    ASSUME IInv, NEW t \in Turns, TakeKept(t)
    PROVE  IInv' /\ OnlyParkedClose
<1>1. Kinds
  BY KindsHold DEF IInv
<1> DEFINE label == IF kept = None THEN "launch" ELSE "decide"
           r == [turns[t] EXCEPT !.pc = label, !.session = kept]
<1>2. turns' = [turns EXCEPT ![t] = r] /\ turns[t].pc = "idle" /\ kept' = None
  BY DEF TakeKept, TurnAt
<1>3. /\ r \in TurnRecords /\ r.session = kept /\ r.pc \in {"launch", "decide"}
      /\ r.pc = "decide" => kept \in Sdks
  BY ZenonT(30), <1>1 DEF IInv, SdkTypeOK, Kinds, TurnRecords
<1> HIDE DEF r
<1>4. SdkTypeOK'
  BY <1>2, <1>3 DEF IInv, SdkTypeOK, TakeKept
<1>5. PlaceInv'
  BY <1>2, <1>3 DEF IInv, SdkTypeOK, PlaceInv, Knowing, Using, Parking, TakeKept
<1>6. FreshInv'
  BY <1>2, <1>3, SdkAssumption DEF IInv, SdkTypeOK, FreshInv, TakeKept
<1>7. UserInv'
  <2>1. \A x \in Sdks, u \in Turns : UserOf(u, x)' => UserOf(u, x) \/ (u = t /\ x = kept)
    BY <1>2, <1>3, SdkAssumption DEF IInv, SdkTypeOK, UserOf, Using
  <2>2. \A x \in Sdks, u \in Turns : HasTaken(u, x)' => HasTaken(u, x)
    BY <1>2, <1>3 DEF IInv, SdkTypeOK, HasTaken
  <2>3. sdk' = sdk
    BY DEF TakeKept
  <2> QED
    BY <1>2, <2>1, <2>2, <2>3, SdkAssumption DEF IInv, UserInv
<1>8. DrainInv'
  BY <1>2, <1>3 DEF IInv, SdkTypeOK, DrainInv, ReaderOf, ParkerOf, Reading, Parking, TakeKept
<1>9. CloseInv' /\ OnlyParkedClose
  BY DEF IInv, CloseInv, Untold, OnlyParkedClose, TakeKept
<1> QED
  BY <1>4, <1>5, <1>6, <1>7, <1>8, <1>9 DEF IInv

(* A turn looks at what it took.                                           *)
LEMMA DecideKeeps ==
    ASSUME IInv, NEW t \in Turns, Decide(t)
    PROVE  IInv' /\ OnlyParkedClose
<1>1. Kinds
  BY KindsHold DEF IInv
<1> DEFINE s == turns[t].session
<1>2. turns[t].pc = "decide" /\ s \in Sdks /\ s = turns[t].session
  BY DEF Decide, TurnAt, IInv, PlaceInv, Knowing, Using
<1> DEFINE r == [sdk[s] EXCEPT !.parked = FALSE, !.idle = FALSE, !.stop = TRUE]
<1>3. PICK label \in {"launch", "refuse", "handover"} :
        /\ turns' = [turns EXCEPT ![t].pc = label]
        /\ sdk' = sdk \/ sdk' = [sdk EXCEPT ![s] = r]
        /\ label = "handover" => sdk' = [sdk EXCEPT ![s] = r]
  BY DEF Decide, Goto
<1> HIDE DEF s
<1>4. /\ r \in SdkRecords /\ r.parked = FALSE /\ r.drain = sdk[s].drain
      /\ r.closing = sdk[s].closing /\ r.close = sdk[s].close
      /\ r.waiter = sdk[s].waiter /\ r.closed = sdk[s].closed
  BY <1>1, <1>2 DEF Kinds, SdkRecords
<1> HIDE DEF r
<1>5. \A u \in Turns : /\ turns'[u].session = turns[u].session /\ turns'[u].other = turns[u].other
                       /\ turns'[u].pc = IF u = t THEN label ELSE turns[u].pc
  BY <1>1, <1>3 DEF IInv, SdkTypeOK, Kinds, TurnRecords
<1>6. SdkTypeOK'
  <2>1. [turns[t] EXCEPT !.pc = label] \in TurnRecords
    BY <1>1 DEF Kinds, TurnRecords
  <2> QED
    BY <1>2, <1>3, <1>4, <2>1 DEF IInv, SdkTypeOK, Decide
<1>7. PlaceInv'
  BY <1>2, <1>3, <1>5 DEF IInv, PlaceInv, Knowing, Using, Parking, Decide
<1>8. \A x \in Sdks : Settled(x) /\ Steady(x)
  BY <1>2, <1>3, <1>4 DEF IInv, SdkTypeOK, Settled, Steady
<1>9. FreshInv'
  BY <1>5, <1>8 DEF IInv, FreshInv, Settled, Decide
<1>10. UserInv'
  <2>1. \A x \in Sdks, u \in Turns : HasTaken(u, x)' => ~sdk'[x].parked
    BY <1>2, <1>3, <1>4, <1>5, <1>8 DEF IInv, SdkTypeOK, UserInv, HasTaken, Settled
  <2>2. \A x \in Sdks, u \in Turns : UserOf(u, x)' => UserOf(u, x)
    BY <1>2, <1>5 DEF UserOf, Using
  <2>3. kept' = kept
    BY DEF Decide
  <2> QED
    BY <2>1, <2>2, <2>3 DEF IInv, UserInv
<1>11. DrainInv'
  <2>1. \A x \in Sdks, u \in Turns : /\ ReaderOf(u, x)' => ReaderOf(u, x)
                                     /\ ParkerOf(u, x)' => ParkerOf(u, x)
    BY <1>2, <1>5 DEF ReaderOf, ParkerOf, Reading, Parking
  <2> QED
    BY <1>8, <2>1 DEF IInv, DrainInv, Settled
<1>12. CloseInv' /\ OnlyParkedClose
  BY <1>8, SteadyKeeps DEF IInv
<1> QED
  BY <1>6, <1>7, <1>9, <1>10, <1>11, <1>12 DEF IInv

(* The drain has stopped: the lines are the turn's.                        *)
LEMMA HandedOverKeeps ==
    ASSUME IInv, NEW t \in Turns, HandedOver(t)
    PROVE  IInv' /\ OnlyParkedClose
<1>1. Kinds
  BY KindsHold DEF IInv
<1>2. /\ turns[t].pc = "handover" /\ sdk[turns[t].session].drain = "off"
      /\ turns' = [turns EXCEPT ![t].pc = "prompt"]
      /\ UNCHANGED <<kept, active, sdk, bridge, closer, shown, budget>>
  BY DEF HandedOver, TurnAt, Goto
<1>3. \A u \in Turns : /\ turns'[u].session = turns[u].session /\ turns'[u].other = turns[u].other
                       /\ turns'[u].pc = IF u = t THEN "prompt" ELSE turns[u].pc
  BY <1>1, <1>2 DEF IInv, SdkTypeOK, Kinds, TurnRecords
<1>4. SdkTypeOK'
  <2>1. [turns[t] EXCEPT !.pc = "prompt"] \in TurnRecords
    BY <1>1 DEF Kinds, TurnRecords
  <2> QED
    BY <1>2, <2>1 DEF IInv, SdkTypeOK
<1>5. PlaceInv'
  BY <1>2, <1>3 DEF IInv, PlaceInv, Knowing, Using, Parking
<1>6. FreshInv'
  BY <1>2, <1>3 DEF IInv, FreshInv
<1>7. UserInv'
  BY <1>2, <1>3 DEF IInv, UserInv, UserOf, HasTaken, Using
<1>8. DrainInv'
  BY <1>2, <1>3 DEF IInv, DrainInv, ReaderOf, ParkerOf, Reading, Parking
<1>9. CloseInv' /\ OnlyParkedClose
  BY <1>2 DEF IInv, CloseInv, Untold, OnlyParkedClose
<1> QED
  BY <1>4, <1>5, <1>6, <1>7, <1>8, <1>9 DEF IInv

(* A new session is its turn's.                                            *)
LEMMA LaunchBridgeKeeps ==
    ASSUME IInv, NEW t \in Turns, LaunchBridge(t)
    PROVE  IInv' /\ OnlyParkedClose
<1>1. Kinds
  BY KindsHold DEF IInv
<1>2. PICK s \in Unstarted : /\ bridge' = [bridge EXCEPT ![s].state = "running"]
                             /\ turns' = [turns EXCEPT ![t] = [turns[t] EXCEPT !.pc = "prompt", !.session = s]]
                             /\ UNCHANGED <<kept, active, sdk, closer, shown>> /\ turns[t].pc = "launch"
  <2>1. (CHOOSE s \in Unstarted : TRUE) \in Unstarted
    BY DEF LaunchBridge
  <2> QED
    BY <2>1 DEF LaunchBridge, TurnAt
<1>3. s \in Sdks /\ bridge[s].state = "none" /\ s # None
  BY SdkAssumption DEF Unstarted
<1>4. /\ kept # s /\ sdk[s].drain = "off" /\ ~sdk[s].parked
      /\ \A u \in Turns : turns[u].session # s
  BY <1>3 DEF IInv, FreshInv
<1> DEFINE r == [turns[t] EXCEPT !.pc = "prompt", !.session = s]
<1>5. r \in TurnRecords /\ r.pc = "prompt" /\ r.session = s
  BY <1>1, <1>3 DEF Kinds, TurnRecords
<1> HIDE DEF r
<1>6. turns' = [turns EXCEPT ![t] = r]
  BY <1>2 DEF r
<1>7. bridge' \in [Sdks -> BridgeRecords] /\ \A x \in Sdks : Unlaunched(x) /\ (x = s => bridge'[x].state # "none")
  <2>1. \A b \in BridgeRecords : /\ [b EXCEPT !.state = "running"] \in BridgeRecords
                                /\ [b EXCEPT !.state = "running"].state = "running"
    BY DEF BridgeRecords
  <2> DEFINE b == [bridge[s] EXCEPT !.state = "running"]
  <2>2. b \in BridgeRecords /\ b.state = "running" /\ bridge' = [bridge EXCEPT ![s] = b]
    BY <1>1, <1>2, <1>3, <2>1 DEF Kinds
  <2> HIDE DEF b
  <2> QED
    BY <2>2 DEF IInv, SdkTypeOK, Unlaunched
<1>8. budget' \in [launches : Nat, swings : Nat, events : Nat]
  BY DEF IInv, SdkTypeOK, LaunchBridge, Spend
<1>9. SdkTypeOK'
  BY <1>2, <1>5, <1>6, <1>7, <1>8 DEF IInv, SdkTypeOK
<1>10. PlaceInv'
  BY <1>2, <1>3, <1>5, <1>6 DEF IInv, SdkTypeOK, PlaceInv
<1>11. FreshInv'
  BY <1>2, <1>3, <1>5, <1>6, <1>7 DEF IInv, SdkTypeOK, FreshInv, Unlaunched
<1>12. UserInv'
  BY <1>2, <1>4, <1>5, <1>6 DEF IInv, SdkTypeOK, UserInv, UserOf, HasTaken
<1>13. DrainInv'
  BY <1>2, <1>4, <1>5, <1>6 DEF IInv, SdkTypeOK, DrainInv, ReaderOf, ParkerOf, Parking
<1>14. CloseInv' /\ OnlyParkedClose
  BY <1>2 DEF IInv, CloseInv, Untold, OnlyParkedClose
<1> QED
  BY <1>9, <1>10, <1>11, <1>12, <1>13, <1>14 DEF IInv

(* The turn parks its session, whose drain it owes from now on.            *)
LEMMA ParkKeeps ==
    ASSUME IInv, NEW t \in Turns, Park(t)
    PROVE  IInv' /\ OnlyParkedClose
<1>1. Kinds
  BY KindsHold DEF IInv
<1> DEFINE s == turns[t].session
           r == [sdk[s] EXCEPT !.parked = TRUE, !.drain = "due", !.stop = FALSE, !.idle = TRUE]
<1>2. /\ turns[t].pc = "park" /\ s \in Sdks /\ s = turns[t].session
      /\ turns' = [turns EXCEPT ![t].pc = "register"]
      /\ sdk' = [sdk EXCEPT ![s] = r]
      /\ UNCHANGED <<kept, active, bridge, closer, shown, budget>>
  BY DEF Park, TurnAt, Goto, IInv, PlaceInv, Knowing, Using
<1> HIDE DEF s
<1>3. /\ r \in SdkRecords /\ r.drain = "due"
      /\ r.closing = sdk[s].closing /\ r.close = sdk[s].close
      /\ r.waiter = sdk[s].waiter /\ r.closed = sdk[s].closed
  BY ZenonT(30), <1>1, <1>2 DEF Kinds, SdkRecords
<1> HIDE DEF r
<1>4. \A u \in Turns : /\ turns'[u].session = turns[u].session /\ turns'[u].other = turns[u].other
                       /\ turns'[u].pc = IF u = t THEN "register" ELSE turns[u].pc
  BY <1>1, <1>2 DEF IInv, SdkTypeOK, Kinds, TurnRecords
<1>5. SdkTypeOK'
  <2>1. [turns[t] EXCEPT !.pc = "register"] \in TurnRecords
    BY <1>1 DEF Kinds, TurnRecords
  <2> QED
    BY <1>2, <1>3, <2>1 DEF IInv, SdkTypeOK
<1>6. PlaceInv'
  BY <1>2, <1>4 DEF IInv, PlaceInv, Knowing, Using, Parking
<1>7. /\ \A u \in Turns : UserOf(u, s) => u = t
      /\ sdk[s].drain = "off"
  BY <1>2 DEF IInv, UserInv, UserOf, Using, DrainInv, ReaderOf, Reading
<1>8. /\ \A x \in Sdks : x # s => sdk'[x] = sdk[x]
      /\ sdk'[s] = r
  BY <1>2 DEF IInv, SdkTypeOK
<1>9. FreshInv'
  BY <1>2, <1>4, <1>8 DEF IInv, FreshInv
<1>10. UserInv'
  <2>1. \A x \in Sdks, u \in Turns : UserOf(u, x)' => UserOf(u, x)
    BY <1>2, <1>4 DEF UserOf, Using
  <2>2. \A x \in Sdks, u \in Turns : HasTaken(u, x)' => HasTaken(u, x) /\ x # s
    BY <1>2, <1>4, <1>7 DEF HasTaken, UserOf, Using
  <2> QED
    BY <1>2, <1>8, <2>1, <2>2 DEF IInv, UserInv
<1>11. DrainInv'
  <2>1. \A x \in Sdks, u \in Turns : ReaderOf(u, x)' => ReaderOf(u, x) /\ x # s
    BY <1>2, <1>4, <1>7 DEF ReaderOf, Reading, UserOf, Using
  <2>2. \A x \in Sdks, u \in Turns : ParkerOf(u, x)' => ParkerOf(u, x) \/ (u = t /\ x = s)
    BY <1>2, <1>4 DEF ParkerOf, Parking
  <2>3. \A u \in Turns : ~ParkerOf(u, s)
    BY <1>2, <1>7 DEF IInv, DrainInv
  <2> QED
    BY <1>3, <1>8, <2>1, <2>2, <2>3 DEF IInv, DrainInv
<1>12. CloseInv' /\ OnlyParkedClose
  BY <1>3, <1>8 DEF IInv, CloseInv, Untold, OnlyParkedClose
<1> QED
  BY <1>5, <1>6, <1>9, <1>10, <1>11, <1>12 DEF IInv

(* The turn puts the session into the registry and uses it no more.        *)
LEMMA RegisterKeptKeeps ==
    ASSUME IInv, NEW t \in Turns, RegisterKept(t)
    PROVE  IInv' /\ OnlyParkedClose
<1>1. Kinds
  BY KindsHold DEF IInv
<1> DEFINE s == turns[t].session
           label == IF kept \in {None, s} THEN "drain" ELSE "evict"
           o == IF kept = s THEN None ELSE kept
           r == [turns[t] EXCEPT !.pc = label, !.other = o]
<1>2. /\ turns[t].pc = "register" /\ s \in Sdks /\ s = turns[t].session
      /\ kept' = s /\ turns' = [turns EXCEPT ![t] = r]
      /\ UNCHANGED <<active, sdk, bridge, closer, shown, budget>>
  BY DEF RegisterKept, TurnAt, IInv, PlaceInv, Knowing, Using
<1>3. /\ label \in {"drain", "evict"} /\ o \in Sdks \cup {None}
      /\ label = "evict" => o \in Sdks
  BY DEF IInv, SdkTypeOK
<1> HIDE DEF s, label, o
<1>4. r \in TurnRecords /\ r.pc = label /\ r.session = s /\ r.other = o
  BY <1>1, <1>2, <1>3 DEF Kinds, TurnRecords
<1> HIDE DEF r
<1>5. SdkTypeOK'
  BY <1>2, <1>4 DEF IInv, SdkTypeOK
<1>6. PlaceInv'
  BY <1>2, <1>3, <1>4 DEF IInv, SdkTypeOK, PlaceInv
<1>7. FreshInv'
  BY <1>2, <1>4 DEF IInv, SdkTypeOK, FreshInv
<1>8. UserInv'
  <2>1. \A x \in Sdks, u \in Turns : UserOf(u, x)' => UserOf(u, x) /\ u # t
    BY <1>2, <1>3, <1>4 DEF IInv, SdkTypeOK, UserOf, Using
  <2>2. \A x \in Sdks, u \in Turns : HasTaken(u, x)' => HasTaken(u, x)
    BY <1>2, <1>3, <1>4 DEF IInv, SdkTypeOK, HasTaken
  <2>3. UserOf(t, s)
    BY <1>2 DEF UserOf, Using
  <2> QED
    BY <1>2, <2>1, <2>2, <2>3 DEF IInv, UserInv
<1>9. DrainInv'
  <2>1. \A x \in Sdks, u \in Turns : /\ ReaderOf(u, x)' => ReaderOf(u, x)
                                     /\ ParkerOf(u, x)' => ParkerOf(u, x)
    BY <1>2, <1>3, <1>4 DEF IInv, SdkTypeOK, ReaderOf, ParkerOf, Reading, Parking
  <2> QED
    BY <1>2, <2>1 DEF IInv, DrainInv
<1>10. CloseInv' /\ OnlyParkedClose
  BY <1>2 DEF IInv, CloseInv, Untold, OnlyParkedClose
<1> QED
  BY <1>5, <1>6, <1>7, <1>8, <1>9, <1>10 DEF IInv

(* The turn that owed the drain starts it.                                 *)
LEMMA StartDrainKeeps ==
    ASSUME IInv, NEW t \in Turns, StartDrain(t)
    PROVE  IInv' /\ OnlyParkedClose
<1>1. Kinds
  BY KindsHold DEF IInv
<1> DEFINE s == turns[t].session
           r == [sdk[s] EXCEPT !.drain = "on"]
<1>2. /\ turns[t].pc = "drain" /\ s \in Sdks /\ s = turns[t].session
      /\ turns' = [turns EXCEPT ![t].pc = "check"]
      /\ sdk' = [sdk EXCEPT ![s] = r]
      /\ UNCHANGED <<kept, active, bridge, closer, shown, budget>>
  BY DEF StartDrain, TurnAt, Goto, IInv, PlaceInv, Knowing, Parking
<1> HIDE DEF s
<1>3. /\ r \in SdkRecords /\ r.drain = "on" /\ r.parked = sdk[s].parked
      /\ r.closing = sdk[s].closing /\ r.close = sdk[s].close
      /\ r.waiter = sdk[s].waiter /\ r.closed = sdk[s].closed
  BY <1>1, <1>2 DEF Kinds, SdkRecords
<1> HIDE DEF r
<1>4. \A u \in Turns : /\ turns'[u].session = turns[u].session /\ turns'[u].other = turns[u].other
                       /\ turns'[u].pc = IF u = t THEN "check" ELSE turns[u].pc
  BY <1>1, <1>2 DEF IInv, SdkTypeOK, Kinds, TurnRecords
<1>5. SdkTypeOK'
  <2>1. [turns[t] EXCEPT !.pc = "check"] \in TurnRecords
    BY <1>1 DEF Kinds, TurnRecords
  <2> QED
    BY <1>2, <1>3, <2>1 DEF IInv, SdkTypeOK
<1>6. PlaceInv'
  BY <1>2, <1>4 DEF IInv, PlaceInv, Knowing, Using, Parking
<1>7. /\ \A u \in Turns : ParkerOf(u, s) => u = t
      /\ sdk[s].drain = "due"
  BY <1>2 DEF IInv, DrainInv, ParkerOf, Parking
<1>8. /\ \A x \in Sdks : x # s => sdk'[x] = sdk[x]
      /\ sdk'[s] = r
  BY <1>2 DEF IInv, SdkTypeOK
<1>9. FreshInv'
  BY <1>2, <1>4, <1>8 DEF IInv, FreshInv
<1>10. UserInv'
  <2>1. \A x \in Sdks, u \in Turns : /\ UserOf(u, x)' => UserOf(u, x)
                                     /\ HasTaken(u, x)' => HasTaken(u, x)
    BY <1>2, <1>4 DEF UserOf, Using, HasTaken
  <2> QED
    BY <1>2, <1>3, <1>8, <2>1 DEF IInv, UserInv
<1>11. DrainInv'
  <2>1. \A x \in Sdks, u \in Turns : /\ ReaderOf(u, x)' => ReaderOf(u, x)
                                     /\ ParkerOf(u, x)' => ParkerOf(u, x) /\ u # t
    BY <1>2, <1>4 DEF ReaderOf, Reading, ParkerOf, Parking
  <2>2. \A u \in Turns : ~ReaderOf(u, s)
    BY <1>2, <1>7 DEF IInv, DrainInv
  <2> QED
    BY <1>7, <1>8, <2>1, <2>2 DEF IInv, DrainInv
<1>12. CloseInv' /\ OnlyParkedClose
  BY <1>3, <1>8 DEF IInv, CloseInv, Untold, OnlyParkedClose
<1> QED
  BY <1>5, <1>6, <1>9, <1>10, <1>11, <1>12 DEF IInv

(* A released turn goes on to park the session, or leaves it to a reader   *)
(* that discards its lines: nobody takes that session any more.            *)
LEMMA ReleaseKeeps ==
    ASSUME IInv, NEW t \in Turns, Release(t)
    PROVE  IInv' /\ OnlyParkedClose
<1>1. Kinds
  BY KindsHold DEF IInv
<1>2. PICK s \in Sdks : turns[t].pc = "read" /\ s = turns[t].session
  BY DEF Release, TurnAt, IInv, PlaceInv, Knowing, Using
<1> DEFINE r == [sdk[s] EXCEPT !.drain = "discard", !.calls = @ \cup {"kill"}]
           B(keep) == [bridge[s] EXCEPT !.turn = FALSE,
                          !.state = IF bridge[s].state = "running" /\ ~(keep /\ bridge[s].tasks)
                                    THEN "ended" ELSE bridge[s].state]
           Q(keep) == [turns[t] EXCEPT !.released = TRUE, !.pc = IF keep THEN "park" ELSE "return"]
<1>3. PICK keep \in {FALSE, sdk[s].tasks} :
        /\ bridge' = [bridge EXCEPT ![s] = B(keep)]
        /\ turns' = [turns EXCEPT ![t] = Q(keep)]
        /\ sdk' = IF keep THEN sdk ELSE [sdk EXCEPT ![s] = r]
  BY <1>2 DEF Release
<1>4. keep \in BOOLEAN
  BY <1>1, <1>2 DEF Kinds
<1>5. UNCHANGED <<kept, active, closer, shown>>
  BY DEF Release
<1> DEFINE b == B(keep)
           q == Q(keep)
<1>6. bridge' = [bridge EXCEPT ![s] = b] /\ turns' = [turns EXCEPT ![t] = q]
  BY <1>3
<1>7. b \in BridgeRecords /\ (b.state = "none" => bridge[s].state = "none")
  <2>1. PICK label \in {bridge[s].state, "ended"} :
          b = [bridge[s] EXCEPT !.turn = FALSE, !.state = label]
    OBVIOUS
  <2>2. bridge[s] \in BridgeRecords
    BY <1>1 DEF Kinds
  <2> QED
    BY <2>1, <2>2 DEF BridgeRecords
<1>8. q \in TurnRecords /\ q.session = s /\ q.pc = (IF keep THEN "park" ELSE "return")
  BY <1>1, <1>2, <1>4 DEF Kinds, TurnRecords
<1>9. /\ r \in SdkRecords /\ r.drain = "discard" /\ r.parked = sdk[s].parked
      /\ r.closing = sdk[s].closing /\ r.close = sdk[s].close
      /\ r.waiter = sdk[s].waiter /\ r.closed = sdk[s].closed
  <2>1. sdk[s].calls \cup {"kill"} \in SUBSET {"idle", "finished", "kill"}
    BY <1>1, <1>2 DEF Kinds
  <2>2. sdk[s] \in SdkRecords
    BY <1>1, <1>2 DEF Kinds
  <2> QED
    BY <2>1, <2>2 DEF SdkRecords
<1>10. sdk' = IF keep THEN sdk ELSE [sdk EXCEPT ![s] = r]
  BY <1>3
<1> HIDE DEF b, q, r
<1>11. SdkTypeOK'
  <2>1. budget' \in [launches : Nat, swings : Nat, events : Nat]
    BY DEF IInv, SdkTypeOK, Release, Outside, Spend
  <2> QED
    BY <1>2, <1>4, <1>5, <1>6, <1>7, <1>8, <1>9, <1>10, <2>1 DEF IInv, SdkTypeOK
<1>12. PlaceInv'
  BY <1>2, <1>4, <1>5, <1>6, <1>8 DEF IInv, SdkTypeOK, PlaceInv, Knowing, Using
<1>13. \A x \in Sdks : x # s => sdk'[x] = sdk[x]
  BY <1>10 DEF IInv, SdkTypeOK
<1>14. sdk'[s] = IF keep THEN sdk[s] ELSE r
  BY <1>2, <1>10 DEF IInv, SdkTypeOK
<1>15. FreshInv'
  BY <1>2, <1>5, <1>6, <1>7, <1>8, <1>13 DEF IInv, SdkTypeOK, FreshInv
<1>16. \A u \in Turns : UserOf(u, s) => u = t
  BY <1>2 DEF IInv, UserInv, UserOf, Using
<1>17. UserInv'
  <2>1. \A x \in Sdks, u \in Turns : UserOf(u, x)' => UserOf(u, x)
    BY <1>2, <1>4, <1>6, <1>8 DEF IInv, SdkTypeOK, UserOf, Using
  <2>2. \A x \in Sdks, u \in Turns : HasTaken(u, x)' => HasTaken(u, x)
    BY <1>2, <1>4, <1>6, <1>8 DEF IInv, SdkTypeOK, HasTaken
  <2>3. \A x \in Sdks : sdk'[x].parked = sdk[x].parked
    BY <1>9, <1>13, <1>14
  <2> QED
    BY <1>5, <2>1, <2>2, <2>3 DEF IInv, UserInv
<1>18. DrainInv'
  <2>1. \A x \in Sdks, u \in Turns : /\ ReaderOf(u, x)' => ReaderOf(u, x)
                                     /\ ParkerOf(u, x)' => ParkerOf(u, x)
    BY <1>2, <1>4, <1>6, <1>8 DEF IInv, SdkTypeOK, ReaderOf, Reading, ParkerOf, Parking
  <2>2. ASSUME NEW u \in Turns, ~keep PROVE ~ReaderOf(u, s)'
    <3>1. CASE u = t
      BY <1>2, <1>6, <1>8, <2>2, <3>1 DEF IInv, SdkTypeOK, ReaderOf, Reading
    <3>2. CASE u # t
      BY <1>16, <2>1, <3>2, <1>2 DEF ReaderOf, Reading, UserOf, Using
    <3> QED
      BY <3>1, <3>2
  <2>3. \A u \in Turns : ~ParkerOf(u, s)
    BY <1>2 DEF IInv, DrainInv, ReaderOf, Reading
  <2>4. \A x \in Sdks, u \in Turns : ReaderOf(u, x)' => sdk'[x].drain = "off"
    <3>1. CASE keep
      BY <1>2, <1>13, <1>14, <2>1, <3>1 DEF IInv, DrainInv
    <3>2. CASE ~keep
      BY <1>2, <1>13, <2>1, <2>2, <3>2 DEF IInv, DrainInv
    <3> QED
      BY <3>1, <3>2
  <2>5. \A x \in Sdks, u \in Turns : ParkerOf(u, x)' => sdk'[x] = sdk[x]
    BY <1>13, <2>1, <2>3
  <2> QED
    BY <2>1, <2>4, <2>5 DEF IInv, DrainInv
<1>19. CloseInv' /\ OnlyParkedClose
  BY <1>9, <1>13, <1>14 DEF IInv, CloseInv, Untold, OnlyParkedClose
<1> QED
  BY <1>11, <1>12, <1>15, <1>17, <1>18, <1>19 DEF IInv

-----------------------------------------------------------------------------
(* The specification.                                                      *)

(* Nothing was launched.                                                   *)
LEMMA InitHolds == SdkInit => IInv
<1> SUFFICES ASSUME SdkInit PROVE IInv
  OBVIOUS
<1>1. SdkTypeOK
  <2>1. NewSdk \in SdkRecords /\ NewTurn \in TurnRecords
    BY DEF NewSdk, SdkRecords, NewTurn, TurnRecords
  <2>2. NewBridge \in BridgeRecords
    BY DEF NewBridge, BridgeRecords
  <2> QED
    BY <2>1, <2>2, SdkAssumption DEF SdkInit, SdkTypeOK
<1>2. PlaceInv /\ UserInv /\ DrainInv
  BY DEF SdkInit, NewTurn, PlaceInv, UserInv, UserOf, HasTaken, DrainInv, ReaderOf, ParkerOf,
         Knowing, Using, Reading, Parking
<1>3. FreshInv
  BY SdkAssumption DEF SdkInit, NewTurn, NewSdk, FreshInv
<1>4. CloseInv
  BY DEF SdkInit, NewSdk, CloseInv, Untold
<1> QED
  BY <1>1, <1>2, <1>3, <1>4 DEF IInv

(* Every step keeps the invariant and closes only what is parked.          *)
LEMMA StepKeeps == IInv /\ [SdkNext]_sdkVars => IInv' /\ OnlyParkedClose
<1> SUFFICES ASSUME IInv, [SdkNext]_sdkVars PROVE IInv' /\ OnlyParkedClose
  OBVIOUS
<1>1. ASSUME NEW t \in Turns, TakeKept(t) \/ TurnStep(t) \/ Release(t) \/ Cancel(t)
      PROVE  IInv' /\ OnlyParkedClose
  BY <1>1, TakeKeptKeeps, DecideKeeps, RefuseKeeps, TurnClosedKeeps, HandedOverKeeps, LaunchBridgeKeeps,
     PromptBridgeKeeps, ReadKeeps, EndOfLinesKeeps, ParkKeeps, RegisterKeptKeeps, EvictKeeps, StartDrainKeeps,
     CheckKeeps, WaitKeeps, TurnReturnsKeeps, ReleaseKeeps, CancelKeeps
     DEF TurnStep
<1>2. ASSUME NEW s \in Sdks, SessionCloseStep(s) \/ WaiterStep(s) \/ DrainStep(s)
      PROVE  IInv' /\ OnlyParkedClose
  BY <1>2, CloseUnregistersKeeps, ShutdownKeeps, ProcessEndsKeeps, WaiterEndsKeeps, DrainReadsKeeps,
     DrainEndsKeeps, DiscardsKeeps
     DEF SessionCloseStep, WaiterStep, DrainStep
<1>3. ASSUME NEW s \in Sdks, BridgeStep(s) \/ IdleFires(s) \/ CallCloses(s) \/ CallKills(s)
      PROVE  IInv' /\ OnlyParkedClose
  BY <1>3, BridgeTasksKeeps, BridgeAnswersKeeps, BridgeStopsKeeps, BridgeExitsKeeps, BridgeCrashesKeeps,
     IdleFiresKeeps, CallClosesKeeps, CallKillsKeeps
     DEF BridgeStep
<1>4. ASSUME CloseOwner \/ CloserLooks \/ CloserCloses
      PROVE  IInv' /\ OnlyParkedClose
  BY <1>4, CloseOwnerKeeps, CloserLooksKeeps, CloserClosesKeeps
<1>5. ASSUME UNCHANGED sdkVars
      PROVE  IInv' /\ OnlyParkedClose
  <2>1. UNCHANGED <<kept, active, sdk, bridge, turns, closer, shown, budget>>
    BY <1>5 DEF sdkVars
  <2>2. SdkTypeOK' /\ PlaceInv' /\ FreshInv'
    BY <2>1 DEF IInv, SdkTypeOK, PlaceInv, FreshInv
  <2>3. UserInv' /\ DrainInv' /\ CloseInv' /\ OnlyParkedClose
    BY <2>1 DEF IInv, UserInv, UserOf, HasTaken, DrainInv, ReaderOf, ParkerOf, CloseInv, Untold,
         OnlyParkedClose
  <2> QED
    BY <2>2, <2>3 DEF IInv
<1> QED
  BY <1>1, <1>2, <1>3, <1>4, <1>5 DEF SdkNext

(* The invariant, for any number of sessions and turns.                    *)
THEOREM SdkInvariant == SdkSpec => []IInv
<1>1. SdkInit => IInv
  BY InitHolds
<1>2. IInv /\ [SdkNext]_sdkVars => IInv'
  BY StepKeeps
<1> QED
  BY <1>1, <1>2, PTL DEF SdkSpec

(* The variables of the SDK sessions have their types.                     *)
THEOREM SdkTypeCorrect == SdkSpec => []SdkTypeOK
<1>1. IInv => SdkTypeOK
  BY DEF IInv
<1> QED
  BY <1>1, SdkInvariant, PTL

(* claudecode_sdk_session.go: the drain of a kept session has stopped      *)
(* before the turn that took it reads its lines, and no two turns do.      *)
THEOREM OneReaderHolds == SdkSpec => []OneReader
<1>1. IInv => OneReader
  <2> SUFFICES ASSUME IInv, NEW s \in Sdks, NEW x \in Readers(s), NEW y \in Readers(s) PROVE x = y
    BY DEF OneReader
  <2>1. CASE \E t \in Turns : ReaderOf(t, s)
    <3>1. sdk[s].drain = "off"
      BY <2>1 DEF IInv, DrainInv
    <3>2. x \in Turns /\ y \in Turns /\ UserOf(x, s) /\ UserOf(y, s)
      BY <3>1 DEF Readers, TurnAt, UserOf, Using
    <3> QED
      BY <3>2 DEF IInv, UserInv
  <2>2. CASE \A t \in Turns : ~ReaderOf(t, s)
    BY <2>2 DEF Readers, TurnAt, ReaderOf, Reading
  <2> QED
    BY <2>1, <2>2
<1> QED
  BY <1>1, SdkInvariant, PTL

(* closeIfParked and the waiter: the end of a kept session is told once.   *)
THEOREM ClosedOnceHolds == SdkSpec => []ClosedOnce
<1>1. IInv => ClosedOnce
  BY DEF IInv, CloseInv, ClosedOnce
<1> QED
  BY <1>1, SdkInvariant, PTL

(* takeKeptClaudeSDKSession clears parked under the session's mutex, so    *)
(* that no timer, goroutine or close of the chat that comes later closes   *)
(* the session under the turn.                                             *)
THEOREM TakenIsLeftAloneHolds == SdkSpec => TakenIsLeftAlone
<1>1. IInv /\ [SdkNext]_sdkVars
      => [\A s \in Sdks : sdk[s].close = "open" /\ sdk'[s].close # "open"
            => \A t \in Turns : ~HasTaken(t, s)]_sdkVars
  <2> SUFFICES ASSUME IInv, [SdkNext]_sdkVars, NEW s \in Sdks, sdk[s].close = "open", sdk'[s].close # "open",
                      NEW t \in Turns
               PROVE  ~HasTaken(t, s)
    OBVIOUS
  <2>1. CanClose(s)
    BY StepKeeps DEF OnlyParkedClose
  <2> QED
    BY <2>1 DEF IInv, UserInv, CanClose
<1> QED
  BY <1>1, SdkInvariant, PTL DEF SdkSpec, TakenIsLeftAlone
=============================================================================
