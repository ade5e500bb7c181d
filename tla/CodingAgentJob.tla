--------------------------- MODULE CodingAgentJob ---------------------------
(***************************************************************************)
(* The job service of pkg/codingagentjob: a SQLite row per job, updated    *)
(* with optimistic concurrency (store.go), by                              *)
(*   - Manager.Start, which creates the row, launches a detached worker    *)
(*     process and records its process id (manager.go, launcher.go);       *)
(*   - the worker process itself (worker.go), whose provider reports       *)
(*     progress from a goroutine of its own (provider_runner.go);          *)
(*   - any number of clients that call Manager.Get and Manager.Cancel, in  *)
(*     this or in other server processes.                                  *)
(* Every Store.Update is two steps, the SELECT with the mutation and the   *)
(* UPDATE ... WHERE version = ?, so all their interleavings are here.      *)
(* Workers are killed at any point and requests are abandoned at any point. *)
(***************************************************************************)
EXTENDS Naturals

CONSTANTS Jobs,            \* job identifiers
          Clients,         \* callers of Get and Cancel
          MaxAttempts,     \* attempts of one Store.Update (8 in store.go)
          MaxCancels,      \* bound: Cancel calls per job
          MaxBeats,        \* bound: progress reports per job
          MaxAborts        \* bound: abandoned Get/Cancel requests per job

ASSUME AttemptsAssumption == MaxAttempts \in Nat \ {0}
ASSUME BoundsAssumption   == MaxCancels \in Nat /\ MaxBeats \in Nat /\ MaxAborts \in Nat
ASSUME ClientsAssumption  == Clients \cap {"start", "worker", "progress"} = {}

VARIABLES
    db,        \* db[j]: the committed row of job j
    pc,        \* pc[j][t]: what thread t is doing for job j
    draft,     \* draft[j][t]: the mutated row an Update of t has not written yet
    tries,     \* tries[j][t]: failed attempts of the current Update of t
    seen,      \* seen[j][t]: the row a Get of client t read first
    proc,      \* proc[j]: the worker process, "none", "alive" or "dead"
    ctxDone,   \* ctxDone[j]: the worker caught an interrupt, its context is cancelled
    expired,   \* expired[j]: StartedAt + TimeoutSeconds is in the past
    deadline,  \* deadline[j]: the deadline of the worker's runCtx has passed
    runErr,    \* runErr[j]: the provider returned an error
    cancels, beats, aborts   \* what the bounds count

rows   == <<db, draft, tries>>
worker == <<proc, ctxDone, expired, deadline, runErr>>
counts == <<cancels, beats, aborts>>
vars   == <<rows, pc, seen, worker, counts>>

Threads == Clients \cup {"start", "worker", "progress"}

Verdicts == {"completed", "failed", "cancelled", "timed_out"}
Statuses == {"absent", "queued", "running", "cancellation_requested"} \cup Verdicts
Terminal(s) == s \in Verdicts

Row == [status : Statuses, pid : BOOLEAN, started : BOOLEAN,
        finished : BOOLEAN, result : BOOLEAN, version : Nat]

NoRow == [status |-> "absent", pid |-> FALSE, started |-> FALSE,
          finished |-> FALSE, result |-> FALSE, version |-> 0]

-----------------------------------------------------------------------------
(* The mutations passed to Store.Update.                                   *)

StartOps    == {"record", "failLaunch"}
WorkerOps   == {"claim", "cancelEarly", "finish"}
ProgressOps == {"progress"}
ClientOps   == {"cancel", "timeout", "gone"}
Ops         == StartOps \cup WorkerOps \cup ProgressOps \cup ClientOps

Settle(r, s) == [r EXCEPT !.status = s, !.finished = TRUE]

(* Variants named Faulty... put one bug into the definition that follows:  *)
(* they show that a property notices it, and nothing else uses them.       *)
FaultyRecordPid(r) == r

RecordPid(r) == IF Terminal(r.status) THEN r ELSE [r EXCEPT !.pid = TRUE]

FailLaunch(r) == Settle(r, "failed")

FaultyClaim(r) == [r EXCEPT !.status = "running", !.pid = TRUE, !.started = TRUE]

Claim(r) == IF r.status = "cancellation_requested" THEN r
            ELSE [r EXCEPT !.status = "running", !.pid = TRUE, !.started = TRUE]

CancelEarly(r) == Settle(r, "cancelled")

RequestCancel(r) == IF Terminal(r.status) THEN r
                    ELSE [r EXCEPT !.status = "cancellation_requested"]

FaultyTimeOut(r) == [Settle(r, "timed_out") EXCEPT !.pid = FALSE]

TimeOut(r) == IF Terminal(r.status) THEN r
              ELSE [Settle(r, "timed_out") EXCEPT !.pid = FALSE]

(* Reconciliation of a job whose worker, the one Get read, is gone.        *)
WorkerGone(r, pidRead) ==
    IF Terminal(r.status) \/ r.pid # pidRead THEN r
    ELSE [Settle(r, IF r.status = "cancellation_requested" THEN "cancelled" ELSE "failed")
            EXCEPT !.pid = FALSE]

FaultyFinish(r, v) == [Settle(r, v) EXCEPT !.pid = FALSE, !.result = (v = "completed")]
FaultyFinishResult(r, v) ==
    IF Terminal(r.status) THEN r
    ELSE LET final == IF r.status = "cancellation_requested" THEN "cancelled" ELSE v
         IN  [Settle(r, final) EXCEPT !.pid = FALSE, !.result = (v = "completed")]

Finish(r, v) ==
    IF Terminal(r.status) THEN r
    ELSE LET final == IF r.status = "cancellation_requested" THEN "cancelled" ELSE v
         IN  [Settle(r, final) EXCEPT !.pid = FALSE, !.result = (final = "completed")]

(* Progress only rewrites texts, but every Update moves the version.       *)
Mutate(op, r, pidRead, v) ==
    CASE op = "record"      -> RecordPid(r)
      [] op = "failLaunch"  -> FailLaunch(r)
      [] op = "claim"       -> Claim(r)
      [] op = "cancelEarly" -> CancelEarly(r)
      [] op = "finish"      -> Finish(r, v)
      [] op = "cancel"      -> RequestCancel(r)
      [] op = "timeout"     -> TimeOut(r)
      [] op = "gone"        -> WorkerGone(r, pidRead)
      [] OTHER              -> r

Bump(r) == [r EXCEPT !.version = @ + 1]

FaultyRunVerdict(j) == CASE ctxDone[j] \/ deadline[j] -> "cancelled"
                         [] ~ctxDone[j] /\ ~deadline[j] /\ runErr[j] -> "failed"
                         [] OTHER -> "completed"

(* How RunWorker classifies the end of a run of the provider.              *)
RunVerdict(j) == CASE ctxDone[j]                                  -> "cancelled"
                   [] ~ctxDone[j] /\ deadline[j]                  -> "timed_out"
                   [] ~ctxDone[j] /\ ~deadline[j] /\ runErr[j]    -> "failed"
                   [] OTHER                                       -> "completed"

-----------------------------------------------------------------------------
Init == /\ db       = [j \in Jobs |-> NoRow]
        /\ pc       = [j \in Jobs |-> [t \in Threads |-> "idle"]]
        /\ draft    = [j \in Jobs |-> [t \in Threads |-> NoRow]]
        /\ tries    = [j \in Jobs |-> [t \in Threads |-> 0]]
        /\ seen     = [j \in Jobs |-> [t \in Threads |-> NoRow]]
        /\ proc     = [j \in Jobs |-> "none"]
        /\ ctxDone  = [j \in Jobs |-> FALSE]
        /\ expired  = [j \in Jobs |-> FALSE]
        /\ deadline = [j \in Jobs |-> FALSE]
        /\ runErr   = [j \in Jobs |-> FALSE]
        /\ cancels  = [j \in Jobs |-> 0]
        /\ beats    = [j \in Jobs |-> 0]
        /\ aborts   = [j \in Jobs |-> 0]

Goto(j, t, label) == pc' = [pc EXCEPT ![j][t] = label]

(***************************************************************************)
(* Store.Update: read and mutate, then write if nobody wrote in between.   *)
(* The worker's claim and early cancellation run under the context an      *)
(* interrupt cancels; they fail once it is.                                *)
(***************************************************************************)
UsesWorkerContext(j, t) == t = "worker" /\ pc[j][t] \in {"claim", "cancelEarly"}

UpdateRead(j, t) ==
    /\ pc[j][t] \in Ops
    /\ draft[j][t] = NoRow
    /\ ~(UsesWorkerContext(j, t) /\ ctxDone[j])
    /\ draft' = [draft EXCEPT ![j][t] =
                    Bump(Mutate(pc[j][t], db[j], seen[j][t].pid, RunVerdict(j)))]
    /\ UNCHANGED <<db, tries, pc, seen, worker, counts>>

(* Where the caller of Update continues with the row it wrote.             *)
AfterUpdate(j, t, row) ==
    CASE pc[j][t] = "record"      -> "returned"
      [] pc[j][t] = "failLaunch"  -> "error"
      [] pc[j][t] = "claim"       -> IF row.status = "cancellation_requested"
                                     THEN "get" ELSE "running"
      [] pc[j][t] = "cancelEarly" -> "exit"
      [] pc[j][t] = "finish"      -> "exit"
      [] pc[j][t] = "cancel"      -> IF ~Terminal(row.status) /\ row.pid
                                     THEN "signal" ELSE "idle"
      [] pc[j][t] = "timeout"     -> IF row.status = "timed_out" /\ seen[j][t].pid
                                     THEN "signal" ELSE "idle"
      [] OTHER                    -> "idle"

(* Where it continues when Update returns an error.                        *)
AfterError(j, t) == CASE pc[j][t] = "record"     -> "kill"
                      [] pc[j][t] = "failLaunch" -> "error"
                      [] pc[j][t] \in WorkerOps  -> "exit"
                      [] OTHER                   -> "idle"

FaultyFresh(j, t) == TRUE

Fresh(j, t) == draft[j][t].version = db[j].version + 1

EndUpdate(j, t, label) == /\ draft' = [draft EXCEPT ![j][t] = NoRow]
                          /\ tries' = [tries EXCEPT ![j][t] = 0]
                          /\ seen'  = [seen EXCEPT ![j][t] = NoRow]
                          /\ Goto(j, t, label)

UpdateWrite(j, t) ==
    /\ draft[j][t] # NoRow
    /\ Fresh(j, t)
    /\ ~(UsesWorkerContext(j, t) /\ ctxDone[j])
    /\ db' = [db EXCEPT ![j] = draft[j][t]]
    /\ EndUpdate(j, t, AfterUpdate(j, t, draft[j][t]))
    /\ UNCHANGED <<worker, counts>>

UpdateConflict(j, t) ==
    /\ draft[j][t] # NoRow
    /\ ~Fresh(j, t)
    /\ tries[j][t] + 1 < MaxAttempts
    /\ draft' = [draft EXCEPT ![j][t] = NoRow]
    /\ tries' = [tries EXCEPT ![j][t] = @ + 1]
    /\ UNCHANGED <<db, pc, seen, worker, counts>>

UpdateGiveUp(j, t) ==
    /\ \/ draft[j][t] # NoRow /\ ~Fresh(j, t) /\ tries[j][t] + 1 >= MaxAttempts
       \/ UsesWorkerContext(j, t) /\ ctxDone[j]
    /\ EndUpdate(j, t, AfterError(j, t))
    /\ UNCHANGED <<db, worker, counts>>

Update(j, t) == \/ UpdateRead(j, t)
                \/ UpdateWrite(j, t)
                \/ UpdateConflict(j, t)
                \/ UpdateGiveUp(j, t)

-----------------------------------------------------------------------------
(* Interrupting the worker's process: fatal until signal.NotifyContext has *)
(* run, afterwards it cancels the worker's context; a dead process is left *)
(* alone.  Thread t goes on at label.                                      *)
Interrupt(j, t, label) ==
    LET fatal == proc[j] = "alive" /\ pc[j]["worker"] = "boot"
    IN  /\ proc' = IF fatal THEN [proc EXCEPT ![j] = "dead"] ELSE proc
        /\ ctxDone' = [ctxDone EXCEPT ![j] = @ \/ (proc[j] = "alive" /\ ~fatal)]
        /\ pc' = IF fatal THEN [pc EXCEPT ![j]["worker"] = "idle", ![j][t] = label]
                 ELSE [pc EXCEPT ![j][t] = label]
        /\ UNCHANGED <<rows, seen, expired, deadline, runErr, counts>>

(***************************************************************************)
(* Manager.Start.                                                          *)
(***************************************************************************)
Create(j) == /\ pc[j]["start"] = "idle"
             /\ db' = [db EXCEPT ![j] = [NoRow EXCEPT !.status = "queued", !.version = 1]]
             /\ Goto(j, "start", "launch")
             /\ UNCHANGED <<draft, tries, seen, worker, counts>>

Launch(j) == /\ pc[j]["start"] = "launch"
             /\ proc' = [proc EXCEPT ![j] = "alive"]
             /\ pc' = [pc EXCEPT ![j]["start"] = "record", ![j]["worker"] = "boot"]
             /\ UNCHANGED <<rows, seen, ctxDone, expired, deadline, runErr, counts>>

LaunchFails(j) == /\ pc[j]["start"] = "launch"
                  /\ Goto(j, "start", "failLaunch")
                  /\ UNCHANGED <<rows, seen, worker, counts>>

(* The request's context ends before the pid is stored: Update fails.      *)
StartCancelled(j) == /\ pc[j]["start"] = "record"
                     /\ EndUpdate(j, "start", "kill")
                     /\ UNCHANGED <<db, worker, counts>>

KillLaunched(j) == /\ pc[j]["start"] = "kill"
                   /\ Interrupt(j, "start", "error")

(* The server process dies inside Start; the detached worker lives on.     *)
ServerDies(j) == /\ pc[j]["start"] \in {"launch", "record", "failLaunch", "kill"}
                 /\ EndUpdate(j, "start", IF pc[j]["start"] = "launch" THEN "lost" ELSE "crashed")
                 /\ UNCHANGED <<db, worker, counts>>

Start(j) == \/ Create(j) \/ Launch(j) \/ LaunchFails(j) \/ StartCancelled(j)
            \/ KillLaunched(j) \/ ServerDies(j) \/ Update(j, "start")

(***************************************************************************)
(* The worker process: runWorker of cmd/llm-provider-mcp and RunWorker.    *)
(***************************************************************************)
InstallHandler(j) == /\ pc[j]["worker"] = "boot"
                     /\ Goto(j, "worker", "get")
                     /\ UNCHANGED <<rows, seen, worker, counts>>

WorkerGet(j) ==
    /\ pc[j]["worker"] = "get"
    /\ Goto(j, "worker", IF ctxDone[j] \/ Terminal(db[j].status) THEN "exit"
                         ELSE IF db[j].status = "cancellation_requested" THEN "cancelEarly"
                         ELSE "claim")
    /\ UNCHANGED <<rows, seen, worker, counts>>

(* Progress reports, made by the stream goroutine while the provider runs. *)
Report(j) == /\ pc[j]["worker"] = "running"
             /\ pc[j]["progress"] = "idle"
             /\ beats[j] < MaxBeats
             /\ beats' = [beats EXCEPT ![j] = @ + 1]
             /\ Goto(j, "progress", "progress")
             /\ UNCHANGED <<rows, seen, worker, cancels, aborts>>

(* Run returns once the stream goroutine is done, with an answer or not.   *)
RunnerReturns(j) == /\ pc[j]["worker"] = "running"
                    /\ pc[j]["progress"] = "idle"
                    /\ \E failed \in BOOLEAN : runErr' = [runErr EXCEPT ![j] = failed]
                    /\ Goto(j, "worker", "finish")
                    /\ UNCHANGED <<rows, seen, proc, ctxDone, expired, deadline, counts>>

WorkerExits(j) == /\ pc[j]["worker"] = "exit"
                  /\ proc' = [proc EXCEPT ![j] = "dead"]
                  /\ Goto(j, "worker", "idle")
                  /\ UNCHANGED <<rows, seen, ctxDone, expired, deadline, runErr, counts>>

(* The worker is killed: what it had not written is lost.                  *)
WorkerKilled(j) ==
    /\ proc[j] = "alive"
    /\ proc' = [proc EXCEPT ![j] = "dead"]
    /\ pc' = [pc EXCEPT ![j]["worker"] = "idle", ![j]["progress"] = "idle"]
    /\ draft' = [draft EXCEPT ![j]["worker"] = NoRow, ![j]["progress"] = NoRow]
    /\ tries' = [tries EXCEPT ![j]["worker"] = 0, ![j]["progress"] = 0]
    /\ UNCHANGED <<db, seen, ctxDone, expired, deadline, runErr, counts>>

RunContextExpires(j) == /\ pc[j]["worker"] \in {"running", "finish"}
                        /\ ~deadline[j]
                        /\ deadline' = [deadline EXCEPT ![j] = TRUE]
                        /\ UNCHANGED <<rows, pc, seen, proc, ctxDone, expired, runErr, counts>>

WorkerBoot(j) == InstallHandler(j) \/ WorkerGet(j)

Worker(j) == \/ WorkerBoot(j) \/ Report(j) \/ RunnerReturns(j) \/ WorkerExits(j)
             \/ WorkerKilled(j) \/ RunContextExpires(j)
             \/ Update(j, "worker") \/ Update(j, "progress")

(* The wall clock, as Get reads it, passes StartedAt + TimeoutSeconds.     *)
TimePasses(j) == /\ db[j].started
                 /\ ~expired[j]
                 /\ expired' = [expired EXCEPT ![j] = TRUE]
                 /\ UNCHANGED <<rows, pc, seen, proc, ctxDone, deadline, runErr, counts>>

(***************************************************************************)
(* Manager.Get and Manager.Cancel.  A job can be named once its log file   *)
(* and worker arguments carry its id, from the launch on.  A Get of a       *)
(* terminal row reads and returns: it changes nothing and is left out.     *)
(***************************************************************************)
Named(j) == pc[j]["start"] \notin {"idle", "launch", "lost"}

GetReads(j, c) == /\ pc[j][c] = "idle"
                  /\ Named(j)
                  /\ ~Terminal(db[j].status)
                  /\ seen' = [seen EXCEPT ![j][c] = db[j]]
                  /\ Goto(j, c, "judge")
                  /\ UNCHANGED <<rows, worker, counts>>

Overdue(j, r) == r.started /\ expired[j]

FaultyGone(j, r) == r.pid

Gone(j, r)    == r.pid /\ proc[j] # "alive"

Reconcile(j, c) ==
    LET r == seen[j][c]
    IN  /\ pc[j][c] = "judge"
        /\ \/ Overdue(j, r) /\ Goto(j, c, "timeout") /\ UNCHANGED seen
           \/ ~Overdue(j, r) /\ Gone(j, r) /\ Goto(j, c, "gone") /\ UNCHANGED seen
           \/ /\ ~Overdue(j, r) /\ ~Gone(j, r)
              /\ Goto(j, c, "idle")
              /\ seen' = [seen EXCEPT ![j][c] = NoRow]
        /\ UNCHANGED <<rows, worker, counts>>

CancelCalled(j, c) == /\ pc[j][c] = "idle"
                      /\ Named(j)
                      /\ cancels[j] < MaxCancels
                      /\ cancels' = [cancels EXCEPT ![j] = @ + 1]
                      /\ Goto(j, c, "cancel")
                      /\ UNCHANGED <<rows, seen, worker, beats, aborts>>

SignalWorker(j, c) == /\ pc[j][c] = "signal"
                      /\ Interrupt(j, c, "idle")

(* The request is abandoned or its server dies.                            *)
ClientAborts(j, c) == /\ pc[j][c] # "idle"
                      /\ aborts[j] < MaxAborts
                      /\ aborts' = [aborts EXCEPT ![j] = @ + 1]
                      /\ EndUpdate(j, c, "idle")
                      /\ UNCHANGED <<db, worker, cancels, beats>>

Polls(j, c)  == GetReads(j, c) \/ Reconcile(j, c) \/ SignalWorker(j, c) \/ Update(j, c)
Client(j, c) == Polls(j, c) \/ CancelCalled(j, c) \/ ClientAborts(j, c)

-----------------------------------------------------------------------------
Next == \E j \in Jobs : \/ Start(j)
                        \/ Worker(j)
                        \/ TimePasses(j)
                        \/ \E c \in Clients : Client(j, c)

Spec == Init /\ [][Next]_vars

(* Time passes, a launched worker reaches its claim and a worker whose     *)
(* RunWorker returned exits, and clients keep polling an open job as the   *)
(* server's instructions tell them to.  Nothing is owed by the provider,   *)
(* by Start or by the worker's last Update.                                *)
Fairness == \A j \in Jobs :
    /\ WF_vars(TimePasses(j))
    /\ WF_vars(WorkerBoot(j))
    /\ WF_vars(pc[j]["worker"] \in {"claim", "cancelEarly"} /\ Update(j, "worker"))
    /\ WF_vars(WorkerExits(j))
    /\ \A c \in Clients : WF_vars(Polls(j, c))

FairSpec == Spec /\ Fairness

-----------------------------------------------------------------------------
(* Properties.                                                             *)

Labels == Ops \cup {"idle", "launch", "kill", "returned", "error", "crashed", "lost",
                    "boot", "get", "running", "exit", "judge", "signal"}

(* Every variable holds a value of its kind.                               *)
TypeOK ==
    /\ db    \in [Jobs -> Row]
    /\ pc    \in [Jobs -> [Threads -> Labels]]
    /\ draft \in [Jobs -> [Threads -> Row]]
    /\ tries \in [Jobs -> [Threads -> 0 .. MaxAttempts - 1]]
    /\ seen  \in [Jobs -> [Threads -> Row]]
    /\ proc  \in [Jobs -> {"none", "alive", "dead"}]
    /\ ctxDone \in [Jobs -> BOOLEAN] /\ expired \in [Jobs -> BOOLEAN]
    /\ deadline \in [Jobs -> BOOLEAN] /\ runErr \in [Jobs -> BOOLEAN]
    /\ cancels \in [Jobs -> 0 .. MaxCancels]
    /\ beats \in [Jobs -> 0 .. MaxBeats]
    /\ aborts \in [Jobs -> 0 .. MaxAborts]

(* Once a row is terminal no later write changes anything a client reads,  *)
(* although the worker's claim, its early cancellation and a failed launch *)
(* write their status without looking at the row's: the first verdict of   *)
(* worker, reconciliation and launch is the only one.                      *)
VerdictIsFinal ==
    [][\A j \in Jobs : Terminal(db[j].status) =>
          db'[j] = [db[j] EXCEPT !.version = db'[j].version]]_vars

(* A row a client asked to cancel never runs and is never reported         *)
(* completed, whatever write was in flight when the request was accepted.  *)
CancelSticks ==
    [][\A j \in Jobs : db[j].status = "cancellation_requested" =>
          db'[j].status \notin {"absent", "queued", "running", "completed"}]_vars

(* A job whose row says running can always be concluded by Get: its worker *)
(* and its start are recorded, so either its worker's death or its timeout *)
(* is seen.                                                                *)
RunningIsRecoverable ==
    \A j \in Jobs : db[j].status = "running" => db[j].pid /\ db[j].started

(* When the row says completed, failed or cancelled, the worker is not     *)
(* running the provider: nothing works on the directory behind a verdict   *)
(* other than timed_out.                                                   *)
VerdictIsQuiet ==
    \A j \in Jobs : db[j].status \in {"completed", "failed", "cancelled"} =>
        pc[j]["worker"] \notin {"claim", "running"}

(* A job is reported cancelled only if a client asked for it, or its Start *)
(* failed after the launch and interrupted the worker.                     *)
CancelledHasCause ==
    \A j \in Jobs : db[j].status = "cancelled" =>
        cancels[j] > 0 \/ pc[j]["start"] = "error"

(* The answer is stored exactly by a completed verdict, and the row has a  *)
(* finish time exactly when it is terminal.                                *)
ResultMatchesVerdict ==
    \A j \in Jobs : /\ db[j].result = (db[j].status = "completed")
                     /\ db[j].finished = Terminal(db[j].status)

(* The row and the statuses a client sees follow the abstract life of a job. *)
Lifecycle == INSTANCE JobLifecycle WITH status <- [j \in Jobs |-> db[j].status],
                                        result <- [j \in Jobs |-> db[j].result]
ImplementsLifecycle == Lifecycle!Spec

(* A job whose Start returned its id reaches a terminal status if polled,  *)
(* even if the worker dies anywhere or the provider never returns.         *)
ReturnedJobsSettle ==
    \A j \in Jobs : (pc[j]["start"] = "returned") ~> Terminal(db[j].status)
=============================================================================
