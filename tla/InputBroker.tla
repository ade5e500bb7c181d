----------------------------- MODULE InputBroker -----------------------------
(***************************************************************************)
(* The tmux input broker (pkg/tmuxinput/broker.go) with the readiness gate *)
(* of readiness.go.  A caller hands a transaction to the worker goroutine  *)
(* of its terminal; one broker mutex guards the table of workers, and a    *)
(* caller keeps it while it waits for room in a worker's channel.  A       *)
(* worker that stays idle retires.                                         *)
(***************************************************************************)
EXTENDS Naturals, Sequences, SequencesExt

CONSTANTS Sessions,    \* terminals
          Requests,    \* calls of Do
          Workers,     \* bound: worker goroutines alive at a time
          None,        \* nobody, nothing
          SessionOf,   \* SessionOf[r]: Request.SessionID
          Urgent,      \* requests with PriorityInterrupt
          Openers,     \* first prompts: BypassReadiness, and then MarkReady
          Capacity     \* bound: size of a worker's channel, 256 in the code

ASSUME RequestsAssumption ==
    /\ SessionOf \in [Requests -> Sessions]
    /\ Urgent \subseteq Requests /\ Openers \subseteq Requests
    /\ None \notin Sessions \cup Requests \cup Workers \cup {"ok", "failed"}
ASSUME CapacityAssumption == Capacity \in Nat \ {0}

VARIABLES
    pc,          \* pc[r]: how far the call is
    expired,     \* requests whose context is done
    lock,        \* the caller that blocks with the broker's mutex held, if any
    worker,      \* worker[s]: Broker.workers
    serves,      \* serves[w]: the session of worker w
    wpc,         \* wpc[w]: where worker w is
    incoming,    \* incoming[w]: its channel
    interrupts, normal,   \* its lists of collected requests
    current,     \* current[w]: the request it executes
    answer,      \* answer[r]: the response channel
    gate,        \* gate[s]: readiness, "none" if the terminal is not managed
    arrivals,    \* history: requests in the order they were accepted
    begun,       \* history: requests a worker has taken up
    overtaken    \* history: normal requests begun while this interrupt waited

calls   == <<pc, expired>>
queues  == <<incoming, interrupts, normal, current>>
pool    == <<worker, serves>>
history == <<arrivals, begun, overtaken>>
vars    == <<calls, lock, pool, wpc, queues, answer, gate, history>>

(* Without a first prompt the terminal is not managed by a startup.        *)
Init == /\ pc = [r \in Requests |-> "new"]
        /\ expired = {}
        /\ lock = None
        /\ worker = [s \in Sessions |-> None]
        /\ serves = [w \in Workers |-> None]
        /\ wpc = [w \in Workers |-> "gone"]
        /\ incoming = [w \in Workers |-> <<>>]
        /\ interrupts = [w \in Workers |-> <<>>]
        /\ normal = [w \in Workers |-> <<>>]
        /\ current = [w \in Workers |-> None]
        /\ answer = [r \in Requests |-> None]
        /\ gate = [s \in Sessions |-> IF \E r \in Openers : SessionOf[r] = s THEN "starting" ELSE "none"]
        /\ arrivals = <<>>
        /\ begun = {}
        /\ overtaken = [r \in Urgent |-> 0]

Goto(r, label) == pc' = [pc EXCEPT ![r] = label]

-----------------------------------------------------------------------------
(* Variants named Faulty... put one bug into the definition that follows:  *)
(* they show that a property notices it, and nothing else uses them.       *)
FaultyGated(r) == r \notin Openers \cup Urgent /\ gate[SessionOf[r]] = "ready"

Gated(r) == r \notin Openers \cup Urgent /\ gate[SessionOf[r]] \in {"starting", "ready"}

Do(r) == /\ pc[r] = "new"
         /\ Goto(r, IF Gated(r) THEN "gate" ELSE "enqueue")
         /\ UNCHANGED <<expired, lock, pool, wpc, queues, answer, gate, history>>

(* WaitUntilReady, on the state it found when it was called.               *)
GateOpens(r) == /\ pc[r] = "gate"
                /\ \/ gate[SessionOf[r]] \in {"ready", "none"} /\ Goto(r, "enqueue")
                   \/ gate[SessionOf[r]] = "closed" /\ Goto(r, "failed")
                   \/ r \in expired /\ Goto(r, "failed")
                /\ UNCHANGED <<expired, lock, pool, wpc, queues, answer, gate, history>>

HasRoom(w) == Len(incoming[w]) < Capacity

Push(r, w) == /\ incoming' = [incoming EXCEPT ![w] = Append(@, r)]
              /\ arrivals' = Append(arrivals, r)
              /\ UNCHANGED <<begun, overtaken, interrupts, normal, current>>

(* workerLocked: the session's worker, started if it has none.             *)
WorkerOf(s, w) ==
    \/ worker[s] = w /\ UNCHANGED <<pool, wpc>>
    \/ /\ worker[s] = None /\ wpc[w] = "gone"
       /\ worker' = [worker EXCEPT ![s] = w]
       /\ serves' = [serves EXCEPT ![w] = s]
       /\ wpc' = [wpc EXCEPT ![w] = "idle"]

(* enqueue, with the mutex; select may prefer the context if both are ready. *)
Enqueue(r) ==
    /\ pc[r] = "enqueue" /\ lock = None
    /\ \E w \in Workers :
         /\ WorkerOf(SessionOf[r], w)
         /\ \/ HasRoom(w) /\ Push(r, w) /\ Goto(r, "wait") /\ UNCHANGED lock
            \/ r \in expired /\ Goto(r, "failed") /\ UNCHANGED <<queues, history, lock>>
            \/ /\ ~HasRoom(w) /\ r \notin expired
               /\ lock' = r /\ Goto(r, "blocked") /\ UNCHANGED <<queues, history>>
    /\ UNCHANGED <<expired, answer, gate>>

(* The blocked send ends, and with it enqueue and its critical section.    *)
Unblock(r) ==
    /\ pc[r] = "blocked"
    /\ LET w == worker[SessionOf[r]] IN
         \/ HasRoom(w) /\ Push(r, w) /\ Goto(r, "wait")
         \/ r \in expired /\ Goto(r, "failed") /\ UNCHANGED <<queues, history>>
    /\ lock' = None
    /\ UNCHANGED <<expired, pool, wpc, answer, gate>>

(* Do returns the response or, if its context is done, perhaps its error   *)
(* although the request remains in the worker's hands.                     *)
Return(r) == /\ pc[r] = "wait"
             /\ \/ answer[r] # None /\ Goto(r, answer[r])
                \/ r \in expired /\ Goto(r, "failed")
             /\ UNCHANGED <<expired, lock, pool, wpc, queues, answer, gate, history>>

Expire(r) == /\ pc[r] \in {"gate", "enqueue", "blocked", "wait"}
             /\ r \notin expired
             /\ expired' = expired \cup {r}
             /\ UNCHANGED <<pc, lock, pool, wpc, queues, answer, gate, history>>

-----------------------------------------------------------------------------
(* sessionWorker.run                                                       *)
Continue(w, label) == wpc' = [wpc EXCEPT ![w] = label]

FaultyTake(w) == LET r == Head(incoming[w]) IN
    /\ incoming[w] # <<>>
    /\ incoming' = [incoming EXCEPT ![w] = Tail(@)]
    /\ IF r \in Urgent
       THEN interrupts' = [interrupts EXCEPT ![w] = Append(@, r)] /\ UNCHANGED normal
       ELSE normal' = [normal EXCEPT ![w] = <<r>> \o @] /\ UNCHANGED interrupts

(* Receive one request and append it to its list.                          *)
Take(w) == LET r == Head(incoming[w]) IN
    /\ incoming[w] # <<>>
    /\ incoming' = [incoming EXCEPT ![w] = Tail(@)]
    /\ IF r \in Urgent
       THEN interrupts' = [interrupts EXCEPT ![w] = Append(@, r)] /\ UNCHANGED normal
       ELSE normal' = [normal EXCEPT ![w] = Append(@, r)] /\ UNCHANGED interrupts

Wake(w) == /\ wpc[w] = "idle"
           /\ Take(w)
           /\ Continue(w, "collect")
           /\ UNCHANGED <<calls, lock, pool, current, answer, gate, history>>

TimerFires(w) == /\ wpc[w] = "idle"
                 /\ Continue(w, "retire")
                 /\ UNCHANGED <<calls, lock, pool, queues, answer, gate, history>>

FaultyRetireBusy(w) ==
    /\ wpc[w] = "retire" /\ lock = None
    /\ worker' = [worker EXCEPT ![serves[w]] = None]
    /\ Continue(w, IF incoming[w] # <<>> THEN "idle" ELSE "gone")
    /\ UNCHANGED <<calls, lock, serves, queues, answer, gate, history>>

FaultyRetireBlind(w) ==
    /\ wpc[w] = "retire" /\ lock = None
    /\ worker' = [worker EXCEPT ![serves[w]] = None]
    /\ Continue(w, "gone")
    /\ UNCHANGED <<calls, lock, serves, queues, answer, gate, history>>

(* retireIfIdle                                                            *)
Retire(w) ==
    /\ wpc[w] = "retire" /\ lock = None
    /\ IF worker[serves[w]] # w \/ incoming[w] # <<>>
       THEN Continue(w, "idle") /\ UNCHANGED pool
       ELSE /\ Continue(w, "gone")
            /\ worker' = [worker EXCEPT ![serves[w]] = None]
            /\ serves' = [serves EXCEPT ![w] = None]
    /\ UNCHANGED <<calls, lock, queues, answer, gate, history>>

(* Collect everything that arrived, then go on to execute.                 *)
Collect(w) == /\ wpc[w] = "collect"
              /\ Take(w)
              /\ UNCHANGED <<calls, lock, pool, wpc, current, answer, gate, history>>

FaultyCollected(w) == /\ wpc[w] = "collect"
                      /\ Continue(w, "execute")
                      /\ UNCHANGED <<calls, lock, pool, queues, answer, gate, history>>

Collected(w) == /\ wpc[w] = "collect"
                /\ incoming[w] = <<>>
                /\ Continue(w, "execute")
                /\ UNCHANGED <<calls, lock, pool, queues, answer, gate, history>>

(* After a transaction: wait for a request, or collect more.               *)
More(w) == IF interrupts'[w] = <<>> /\ normal'[w] = <<>> THEN "idle" ELSE "collect"

Chosen(w) == Head(IF interrupts[w] # <<>> THEN interrupts[w] ELSE normal[w])

Choose(w) ==
    /\ IF interrupts[w] # <<>>
       THEN interrupts' = [interrupts EXCEPT ![w] = Tail(@)] /\ UNCHANGED normal
       ELSE normal' = [normal EXCEPT ![w] = Tail(@)] /\ UNCHANGED interrupts
    /\ begun' = begun \cup {Chosen(w)}

(* Its context is done: it is answered without being executed.             *)
Skip(w) == /\ wpc[w] = "execute"
           /\ Chosen(w) \in expired
           /\ Choose(w)
           /\ answer' = [answer EXCEPT ![Chosen(w)] = "failed"]
           /\ Continue(w, More(w))
           /\ UNCHANGED <<calls, lock, pool, incoming, current, gate, arrivals, overtaken>>

Execute(w) ==
    /\ wpc[w] = "execute"
    /\ Chosen(w) \notin expired
    /\ Choose(w)
    /\ current' = [current EXCEPT ![w] = Chosen(w)]
    /\ overtaken' = [i \in Urgent |->
           IF Chosen(w) \notin Urgent /\ SessionOf[i] = serves[w] /\ i \in ToSet(arrivals) \ begun
           THEN overtaken[i] + 1 ELSE overtaken[i]]
    /\ Continue(w, "run")
    /\ UNCHANGED <<calls, lock, pool, incoming, answer, gate, arrivals>>

Finish(w) == /\ wpc[w] = "run"
             /\ \E result \in {"ok", "failed"} : answer' = [answer EXCEPT ![current[w]] = result]
             /\ current' = [current EXCEPT ![w] = None]
             /\ UNCHANGED <<interrupts, normal, incoming>>
             /\ Continue(w, More(w))
             /\ UNCHANGED <<calls, lock, pool, gate, history>>

-----------------------------------------------------------------------------
(* readiness.go, as the provider calls it.                                 *)
MarkReady(s) == /\ gate[s] = "starting"
                /\ \E r \in Openers : SessionOf[r] = s /\ pc[r] = "ok"
                /\ gate' = [gate EXCEPT ![s] = "ready"]
                /\ UNCHANGED <<calls, lock, pool, wpc, queues, answer, history>>

(* A state removed before it was ready wakes its waiters with an error,    *)
(* later callers find none.                                                *)
RemoveReadiness(s) == /\ gate[s] \in {"starting", "ready"}
                      /\ gate' = [gate EXCEPT ![s] = IF @ = "ready" THEN "none" ELSE "closed"]
                      /\ UNCHANGED <<calls, lock, pool, wpc, queues, answer, history>>

-----------------------------------------------------------------------------
Call(r) == GateOpens(r) \/ Enqueue(r) \/ Unblock(r) \/ Return(r)
Run(w)  == \/ Wake(w) \/ Retire(w) \/ Collect(w) \/ Collected(w)
           \/ Skip(w) \/ Execute(w) \/ Finish(w)

StartupEnds(s) == gate[s] = "starting" /\ (MarkReady(s) \/ RemoveReadiness(s))

Next == \/ \E r \in Requests : Do(r) \/ Call(r) \/ Expire(r)
        \/ \E w \in Workers : Run(w) \/ TimerFires(w)
        \/ \E s \in Sessions : MarkReady(s) \/ RemoveReadiness(s)

Spec == Init /\ [][Next]_vars

(* Goroutines run, transactions are bounded by the timeouts of their tmux  *)
(* commands, and a startup ends: no context has to expire, no worker to    *)
(* retire.  A waiting request wins the select against a timer that was     *)
(* only just started, so a worker does not retire for ever.                *)
Fairness == /\ \A r \in Requests : WF_vars(Call(r))
            /\ \A w \in Workers : WF_vars(Run(w)) /\ SF_vars(Wake(w))
            /\ \A s \in Sessions : WF_vars(StartupEnds(s))

FairSpec == Spec /\ Fairness

-----------------------------------------------------------------------------
(* Properties.                                                             *)

(* Every variable holds a value of its kind, and a channel its capacity.   *)
TypeOK ==
    /\ pc \in [Requests -> {"new", "gate", "enqueue", "blocked", "wait", "ok", "failed"}]
    /\ expired \subseteq Requests
    /\ lock \in Requests \cup {None}
    /\ worker \in [Sessions -> Workers \cup {None}]
    /\ serves \in [Workers -> Sessions \cup {None}]
    /\ wpc \in [Workers -> {"gone", "idle", "retire", "collect", "execute", "run"}]
    /\ \A q \in {incoming, interrupts, normal} : q \in [Workers -> Seq(Requests)]
    /\ \A w \in Workers : Len(incoming[w]) <= Capacity
    /\ current \in [Workers -> Requests \cup {None}]
    /\ answer \in [Requests -> {None, "ok", "failed"}]
    /\ gate \in [Sessions -> {"none", "starting", "ready", "closed"}]
    /\ arrivals \in Seq(Requests) /\ begun \subseteq Requests
    /\ overtaken \in [Urgent -> Nat]

(* No other source interleaves with a transaction: one worker at a time    *)
(* writes to a terminal, although workers retire and are replaced.         *)
OneTransaction == \A v, w \in Workers :
    wpc[v] = "run" /\ wpc[w] = "run" /\ serves[v] = serves[w] => v = w

(* A request that is waited for and not answered is in the hands of a      *)
(* worker that goes on: retirement loses none.                             *)
InHand(r, w) == \/ current[w] = r
                \/ \E q \in {incoming[w], interrupts[w], normal[w]} : r \in ToSet(q)
NothingLost == \A r \in Requests : pc[r] = "wait" /\ answer[r] = None =>
    \E w \in Workers : wpc[w] # "gone" /\ InHand(r, w)

(* Requests of one terminal and one priority are begun in the order in     *)
(* which they were accepted, whichever worker takes them.                  *)
InOrder == \A i, j \in DOMAIN arrivals :
    LET q == arrivals[i]  r == arrivals[j] IN
      i < j /\ SessionOf[q] = SessionOf[r] /\ (q \in Urgent <=> r \in Urgent) /\ r \in begun
        => q \in begun

(* An accepted interrupt waits for the transaction that is being written   *)
(* and at most one more, which was about to be chosen when it arrived.     *)
InterruptsGoFirst == \A i \in Urgent : overtaken[i] <= 1

(* A follow-up is written only after the first prompt, unless the startup  *)
(* was given up.                                                           *)
FirstPromptIn(s) == LET prompts == {r \in Openers : SessionOf[r] = s} IN
    prompts = {} \/ \E r \in prompts : answer[r] = "ok"
FirstPromptFirst == \A w \in Workers :
    wpc[w] = "run" /\ current[w] \notin Openers \cup Urgent =>
        gate[serves[w]] = "closed" \/ FirstPromptIn(serves[w])

(* Every call of Do returns, even if no context ever expires.              *)
CallsReturn == \A r \in Requests : []<>(pc[r] \in {"new", "ok", "failed"})

(* TestBrokerRetiresIdleSessionWorkerWithoutDroppingNextRequest: a worker  *)
(* whose idle timer fired while requests arrived goes back to serve them.  *)
RetirementEnds == \A w \in Workers : wpc[w] = "retire" ~> wpc[w] # "retire"
=============================================================================
