----------------------------- MODULE PartsProofs -----------------------------
(***************************************************************************)
(* Proofs about the five parts that MCParts checks side by side, each      *)
(* about a module of its own and for every value of its constants.         *)
(*   CodingAgentJob: types, the inductive invariant from which the safety  *)
(*     properties follow, and the refinement of JobLifecycle.              *)
(*   SessionLease: the lease implements its contract.                      *)
(*   InteractiveDraft: what a person typed since the last Enter stays      *)
(*     reserved, however many submissions are confirmed late.              *)
(*   NativeReplies: foreground and observer never publish the same root,   *)
(*     and no root waits for a turn that is over.                          *)
(*   ProjectFile: the user's content outlives any number of sessions,      *)
(*     processes, deaths and edits.                                        *)
(***************************************************************************)
EXTENDS CodingAgentJob, SessionLease, InteractiveDraft, NativeReplies, ProjectFile, TLAPS

-----------------------------------------------------------------------------
(* CodingAgentJob                                                          *)

(* Every mutation of a row, followed by the version increment of Update,   *)
(* is a row again.                                                         *)
LEMMA MutateType ==
    ASSUME NEW op, NEW r \in Row, NEW p \in BOOLEAN, NEW v \in Verdicts
    PROVE  Bump(Mutate(op, r, p, v)) \in Row
<1>1. \A s \in Statuses : Settle(r, s) \in Row
  BY DEF Settle, Row
<1>2. RecordPid(r) \in Row /\ RequestCancel(r) \in Row /\ Claim(r) \in Row
  BY DEF RecordPid, RequestCancel, Claim, Row, Statuses
<1>3. FailLaunch(r) \in Row /\ CancelEarly(r) \in Row
  BY <1>1 DEF FailLaunch, CancelEarly, Statuses, Verdicts
<1>4. TimeOut(r) \in Row
  BY <1>1 DEF TimeOut, Row, Statuses, Verdicts
<1>5. WorkerGone(r, p) \in Row
  <2>1. Settle(r, "cancelled") \in Row /\ Settle(r, "failed") \in Row
    BY <1>1 DEF Statuses, Verdicts
  <2>2. QED
    BY <2>1 DEF WorkerGone, Row
<1>6. Finish(r, v) \in Row
  <2>1. Settle(r, "cancelled") \in Row /\ Settle(r, v) \in Row
    BY <1>1 DEF Statuses, Verdicts
  <2>2. QED
    BY <2>1 DEF Finish, Row
<1>7. Mutate(op, r, p, v) \in Row
  BY <1>2, <1>3, <1>4, <1>5, <1>6 DEF Mutate
<1>8. QED
  BY <1>7 DEF Bump, Row

LEMMA NoRowType == NoRow \in Row
  BY DEF NoRow, Row, Statuses

LEMMA RunVerdictType ==
    ASSUME NEW j PROVE RunVerdict(j) \in Verdicts
  BY DEF RunVerdict, Verdicts

LEMMA ThreadsType == /\ "start" \in Threads /\ "worker" \in Threads /\ "progress" \in Threads
                     /\ Clients \subseteq Threads
  BY DEF Threads

(* Updating one or two threads of a job in a nested function.              *)
LEMMA ExceptType ==
    ASSUME NEW S, NEW f \in [Jobs -> [Threads -> S]], NEW j \in Jobs,
           NEW t \in Threads, NEW x \in S
    PROVE  [f EXCEPT ![j][t] = x] \in [Jobs -> [Threads -> S]]
  OBVIOUS

LEMMA ExceptTwiceType ==
    ASSUME NEW S, NEW f \in [Jobs -> [Threads -> S]], NEW j \in Jobs,
           NEW t \in Threads, NEW u \in Threads, NEW x \in S, NEW y \in S
    PROVE  [f EXCEPT ![j][t] = x, ![j][u] = y] \in [Jobs -> [Threads -> S]]
<1>1. [f EXCEPT ![j][t] = x] \in [Jobs -> [Threads -> S]]
  BY ExceptType
<1>2. [f EXCEPT ![j][t] = x, ![j][u] = y] = [[f EXCEPT ![j][t] = x] EXCEPT ![j][u] = y]
  OBVIOUS
<1>3. QED
  BY <1>1, <1>2, ExceptType

LEMMA InitType == Init => TypeOK
  BY NoRowType, AttemptsAssumption, BoundsAssumption DEF Init, TypeOK, Labels

(* Steps of Store.Update keep the types.                                   *)
LEMMA UpdateType ==
    ASSUME TypeOK, NEW j \in Jobs, NEW t \in Threads, Update(j, t)
    PROVE  TypeOK'
<1>1. CASE UpdateRead(j, t)
  <2>1. /\ db[j] \in Row
        /\ seen[j][t].pid \in BOOLEAN
    BY DEF TypeOK, Row
  <2>2. Bump(Mutate(pc[j][t], db[j], seen[j][t].pid, RunVerdict(j))) \in Row
    BY <2>1, MutateType, RunVerdictType
  <2>3. draft' \in [Jobs -> [Threads -> Row]]
    BY <1>1, <2>2 DEF UpdateRead, TypeOK
  <2>4. QED
    BY <1>1, <2>3 DEF UpdateRead, TypeOK, worker, counts
<1>2. CASE UpdateWrite(j, t)
  <2>1. AfterUpdate(j, t, draft[j][t]) \in Labels
    BY DEF AfterUpdate, Labels
  <2>2. db' \in [Jobs -> Row]
    BY <1>2 DEF UpdateWrite, TypeOK
  <2>3. QED
    BY <1>2, <2>1, <2>2, NoRowType, AttemptsAssumption
       DEF UpdateWrite, EndUpdate, Goto, TypeOK, worker, counts
<1>3. CASE UpdateConflict(j, t)
  <2>1. tries[j][t] + 1 \in 0 .. MaxAttempts - 1
    BY <1>3, AttemptsAssumption DEF UpdateConflict, TypeOK
  <2>2. QED
    BY <1>3, <2>1, NoRowType DEF UpdateConflict, TypeOK, worker, counts
<1>4. CASE UpdateGiveUp(j, t)
  <2>1. AfterError(j, t) \in Labels
    BY DEF AfterError, Labels
  <2>2. QED
    BY <1>4, <2>1, NoRowType, AttemptsAssumption
       DEF UpdateGiveUp, EndUpdate, Goto, TypeOK, worker, counts
<1>5. QED
  BY <1>1, <1>2, <1>3, <1>4 DEF Update

(* Interrupting the worker keeps the types.                                *)
LEMMA InterruptType ==
    ASSUME TypeOK, NEW j \in Jobs, NEW t \in Threads, NEW label \in Labels,
           Interrupt(j, t, label)
    PROVE  TypeOK'
<1>1. pc' \in [Jobs -> [Threads -> Labels]]
  BY ThreadsType DEF Interrupt, TypeOK, Labels
<1>2. proc' \in [Jobs -> {"none", "alive", "dead"}]
  BY DEF Interrupt, TypeOK
<1>3. ctxDone' \in [Jobs -> BOOLEAN]
  BY DEF Interrupt, TypeOK
<1>4. QED
  BY <1>1, <1>2, <1>3 DEF Interrupt, TypeOK, rows, counts

LEMMA StartType ==
    ASSUME TypeOK, NEW j \in Jobs, Start(j)
    PROVE  TypeOK'
<1> USE ThreadsType
<1>1. CASE Create(j)
  <2>1. [NoRow EXCEPT !.status = "queued", !.version = 1] \in Row
    BY DEF NoRow, Row, Statuses
  <2>2. QED
    BY <1>1, <2>1 DEF Create, Goto, TypeOK, Labels, worker, counts
<1>2. CASE Launch(j)
  BY <1>2 DEF Launch, Goto, TypeOK, Labels, Ops, StartOps, rows, counts
<1>3. CASE LaunchFails(j)
  BY <1>3 DEF LaunchFails, Goto, TypeOK, Labels, Ops, StartOps, rows, worker, counts
<1>4. CASE StartCancelled(j)
  BY <1>4, NoRowType, AttemptsAssumption
     DEF StartCancelled, EndUpdate, Goto, TypeOK, Labels, worker, counts
<1>5. CASE KillLaunched(j)
  BY <1>5, InterruptType DEF KillLaunched, Labels
<1>6. CASE ServerDies(j)
  BY <1>6, NoRowType, AttemptsAssumption
     DEF ServerDies, EndUpdate, Goto, TypeOK, Labels, worker, counts
<1>7. CASE Update(j, "start")
  BY <1>7, UpdateType
<1>8. QED
  BY <1>1, <1>2, <1>3, <1>4, <1>5, <1>6, <1>7 DEF Start

LEMMA WorkerType ==
    ASSUME TypeOK, NEW j \in Jobs, Worker(j) \/ TimePasses(j)
    PROVE  TypeOK'
<1> USE ThreadsType
<1>1. CASE InstallHandler(j)
  BY <1>1 DEF InstallHandler, Goto, TypeOK, Labels, rows, worker, counts
<1>2. CASE WorkerGet(j)
  BY <1>2 DEF WorkerGet, Goto, TypeOK, Labels, Ops, WorkerOps, rows, worker, counts
<1>3. CASE Report(j)
  BY <1>3, BoundsAssumption DEF Report, Goto, TypeOK, Labels, Ops, ProgressOps, rows, worker
<1>4. CASE RunnerReturns(j)
  <2>1. PICK failed \in BOOLEAN : runErr' = [runErr EXCEPT ![j] = failed]
    BY <1>4 DEF RunnerReturns
  <2>2. QED
    BY <1>4, <2>1 DEF RunnerReturns, Goto, TypeOK, Labels, Ops, WorkerOps, rows, counts
<1>5. CASE WorkerExits(j)
  BY <1>5 DEF WorkerExits, Goto, TypeOK, Labels, rows, counts
<1>6. CASE WorkerKilled(j)
  <2>1. draft' \in [Jobs -> [Threads -> Row]]
    BY <1>6, NoRowType, ExceptTwiceType DEF WorkerKilled, TypeOK
  <2>2. tries' \in [Jobs -> [Threads -> 0 .. MaxAttempts - 1]]
    <3>1. 0 \in 0 .. MaxAttempts - 1
      BY AttemptsAssumption
    <3>2. QED
      BY <1>6, <3>1, ExceptTwiceType DEF WorkerKilled, TypeOK
  <2>3. pc' \in [Jobs -> [Threads -> Labels]]
    BY <1>6, ExceptTwiceType DEF WorkerKilled, TypeOK, Labels
  <2>4. QED
    BY <1>6, <2>1, <2>2, <2>3 DEF WorkerKilled, TypeOK, counts
<1>7. CASE RunContextExpires(j)
  BY <1>7 DEF RunContextExpires, TypeOK, rows, counts
<1>8. CASE Update(j, "worker") \/ Update(j, "progress")
  BY <1>8, UpdateType
<1>9. CASE TimePasses(j)
  BY <1>9 DEF TimePasses, TypeOK, rows, counts
<1>10. QED
  BY <1>1, <1>2, <1>3, <1>4, <1>5, <1>6, <1>7, <1>8, <1>9 DEF Worker, WorkerBoot

LEMMA ClientType ==
    ASSUME TypeOK, NEW j \in Jobs, NEW c \in Clients, Client(j, c)
    PROVE  TypeOK'
<1> USE ThreadsType
<1>1. CASE GetReads(j, c)
  BY <1>1 DEF GetReads, Goto, TypeOK, Labels, rows, worker, counts
<1>2. CASE Reconcile(j, c)
  <2>1. PICK label \in {"timeout", "gone", "idle"} : Goto(j, c, label)
    BY <1>2, Zenon DEF Reconcile
  <2>2. seen' = seen \/ seen' = [seen EXCEPT ![j][c] = NoRow]
    BY <1>2, Zenon DEF Reconcile
  <2>3. UNCHANGED <<rows, worker, counts>>
    BY <1>2, Zenon DEF Reconcile
  <2>4. pc' \in [Jobs -> [Threads -> Labels]]
    BY <2>1 DEF Goto, TypeOK, Labels, Ops, ClientOps
  <2>5. seen' \in [Jobs -> [Threads -> Row]]
    <3>1. seen \in [Jobs -> [Threads -> Row]] /\ c \in Threads
      BY DEF TypeOK
    <3>2. [seen EXCEPT ![j][c] = NoRow] \in [Jobs -> [Threads -> Row]]
      BY <3>1, NoRowType, ExceptType, Zenon
    <3>3. QED
      BY <2>2, <3>1, <3>2, Zenon
  <2>6. QED
    BY <2>3, <2>4, <2>5 DEF TypeOK, rows, worker, counts
<1>3. CASE SignalWorker(j, c)
  BY <1>3, InterruptType DEF SignalWorker, Labels
<1>4. CASE CancelCalled(j, c)
  BY <1>4, BoundsAssumption
     DEF CancelCalled, Goto, TypeOK, Labels, Ops, ClientOps, rows, worker
<1>5. CASE ClientAborts(j, c)
  BY <1>5, NoRowType, AttemptsAssumption, BoundsAssumption
     DEF ClientAborts, EndUpdate, Goto, TypeOK, Labels, worker
<1>6. CASE Update(j, c)
  BY <1>6, UpdateType
<1>7. QED
  BY <1>1, <1>2, <1>3, <1>4, <1>5, <1>6 DEF Client, Polls

LEMMA TypeInductive == TypeOK /\ [Next]_vars => TypeOK'
<1> SUFFICES ASSUME TypeOK, [Next]_vars PROVE TypeOK'
  OBVIOUS
<1>1. CASE Next
  BY <1>1, StartType, WorkerType, ClientType DEF Next
<1>2. CASE UNCHANGED vars
  BY <1>2 DEF vars, rows, worker, counts, TypeOK
<1>3. QED
  BY <1>1, <1>2

(* Type correctness of the job service, for all constants.                 *)
THEOREM TypeCorrect == Spec => []TypeOK
  BY InitType, TypeInductive, PTL DEF Spec

-----------------------------------------------------------------------------
(* The inductive invariant.                                                *)

EarlyLabels == {"boot", "get", "claim", "cancelEarly"}

(* Each thread only reaches labels of its own kind, and nothing happens    *)
(* before the job is created.                                              *)
ThreadLabels(j) ==
    /\ pc[j]["start"] \in StartOps \cup {"idle", "launch", "kill", "returned", "error",
                                         "crashed", "lost"}
    /\ pc[j]["worker"] \in WorkerOps \cup {"idle", "boot", "get", "running", "exit"}
    /\ pc[j]["progress"] \in ProgressOps \cup {"idle"}
    /\ \A c \in Clients : pc[j][c] \in ClientOps \cup {"idle", "judge", "signal"}
    /\ ~Named(j) => \A c \in Clients : pc[j][c] = "idle"

(* The process outlives its labels, and exists only once launched.         *)
ProcessLife(j) ==
    /\ pc[j]["worker"] # "idle" => proc[j] = "alive"
    /\ pc[j]["start"] \in {"idle", "launch", "lost", "failLaunch"} => proc[j] = "none"
    /\ pc[j]["start"] = "record" => proc[j] # "none"
    /\ pc[j]["progress"] # "idle" => pc[j]["worker"] = "running"
    /\ db[j].pid => proc[j] # "none"

(* What the row says of a worker that has not claimed the job or is        *)
(* running it, and of a job that has no worker.                            *)
RowMatchesWorker(j) ==
    /\ db[j].status = "absent" <=> pc[j]["start"] = "idle"
    /\ proc[j] = "none" /\ pc[j]["start"] # "error" =>
          ~db[j].started /\ db[j].status \in {"absent", "queued", "cancellation_requested"}
    /\ pc[j]["worker"] \in EarlyLabels =>
          ~db[j].started /\ db[j].status \in {"queued", "cancellation_requested"}
    /\ pc[j]["worker"] = "cancelEarly" => db[j].status = "cancellation_requested"
    /\ pc[j]["worker"] = "finish" => db[j].started
    /\ pc[j]["worker"] = "running" =>
          db[j].started /\ db[j].status \in {"running", "cancellation_requested", "timed_out"}

RowShape(r) ==
    /\ r.status = "running" => r.pid /\ r.started
    /\ r.status \in {"queued", "absent"} => ~r.started
    /\ r.result <=> r.status = "completed"
    /\ r.finished <=> Terminal(r.status)

(* What a Get concluded from an earlier row still holds.                   *)
ClientKnowledge(j) == \A c \in Clients :
    /\ seen[j][c].started => db[j].started
    /\ seen[j][c].pid => proc[j] # "none"
    /\ pc[j][c] = "timeout" => db[j].started
    /\ pc[j][c] = "gone" => proc[j] = "dead"

(* Optimistic concurrency: a draft that would still be written is the      *)
(* mutation of the committed row.                                          *)
DraftSound(j) == \A t \in Threads : draft[j][t] # NoRow =>
    /\ pc[j][t] \in Ops
    /\ draft[j][t].version <= db[j].version + 1
    /\ Fresh(j, t) => \E v \in Verdicts :
          draft[j][t] = Bump(Mutate(pc[j][t], db[j], seen[j][t].pid, v))

JobInv(j) == /\ ThreadLabels(j)
             /\ ProcessLife(j)
             /\ RowMatchesWorker(j)
             /\ RowShape(db[j])
             /\ ClientKnowledge(j)
             /\ DraftSound(j)

(* Everything the safety properties rest on, in one inductive invariant.   *)
IInv == TypeOK /\ \A j \in Jobs : JobInv(j)

(* The status changes one write may make.                                  *)
StatusStep(a, b) == \/ a = b
                    \/ a = "queued" /\ b \in {"running", "failed"}
                    \/ a \in {"queued", "running"} /\ b = "cancellation_requested"
                    \/ a = "running" /\ b \in Verdicts
                    \/ a = "cancellation_requested" /\ b \in Verdicts \ {"completed"}

(* When a mutation is applied to a row of the kind its caller relies on.   *)
Applies(op, r) == /\ r.status # "absent"
                  /\ op \in {"failLaunch", "claim"} =>
                        r.status \in {"queued", "cancellation_requested"} /\ ~r.started
                  /\ op = "cancelEarly" => r.status = "cancellation_requested"
                  /\ op \in {"timeout", "finish"} => r.started

LegalChange(op, r, s) ==
    /\ s \in Row /\ RowShape(s) /\ s.version = r.version + 1
    /\ StatusStep(r.status, s.status)
    /\ Terminal(r.status) => s = Bump(r)
    /\ r.started => s.started
    /\ s.started => r.started \/ op = "claim"
    /\ s.pid => r.pid \/ op \in {"record", "claim"}
    /\ op \in {"record", "progress", "cancel"} =>
          s.status \in {r.status, "cancellation_requested"}
    /\ op = "timeout" => s.status \in {r.status, "timed_out"}
    /\ op = "claim" => \/ s.status = "cancellation_requested" /\ ~s.started
                       \/ s.status = "running" /\ s.started

(* A mutation applied to such a row changes it legally.                    *)
LEMMA MutateLegal ==
    ASSUME NEW op \in Ops, NEW r \in Row, NEW p \in BOOLEAN, NEW v \in Verdicts,
           RowShape(r), Applies(op, r)
    PROVE  LegalChange(op, r, Bump(Mutate(op, r, p, v)))
<1> DEFINE s == Bump(Mutate(op, r, p, v))
<1>1. s \in Row
  BY MutateType
<1>2. CASE op = "record"
  BY <1>1, <1>2 DEF Mutate, RecordPid, Bump, LegalChange, RowShape, StatusStep, Row, Terminal
<1>3. CASE op = "failLaunch"
  BY <1>1, <1>3 DEF Mutate, FailLaunch, Settle, Bump, Applies, LegalChange, RowShape,
     StatusStep, Row, Terminal, Verdicts
<1>4. CASE op = "claim"
  BY <1>1, <1>4 DEF Mutate, Claim, Bump, Applies, LegalChange, RowShape, StatusStep, Row,
     Terminal, Verdicts
<1>5. CASE op = "cancelEarly"
  BY <1>1, <1>5 DEF Mutate, CancelEarly, Settle, Bump, Applies, LegalChange, RowShape,
     StatusStep, Row, Terminal, Verdicts
<1>6. CASE op = "finish"
  BY <1>1, <1>6 DEF Mutate, Finish, Settle, Bump, Applies, LegalChange, RowShape,
     StatusStep, Row, Statuses, Terminal, Verdicts
<1>7. CASE op = "cancel"
  BY <1>1, <1>7 DEF Mutate, RequestCancel, Bump, Applies, LegalChange, RowShape, StatusStep,
     Row, Statuses, Terminal, Verdicts
<1>8. CASE op = "timeout"
  BY <1>1, <1>8 DEF Mutate, TimeOut, Settle, Bump, Applies, LegalChange, RowShape,
     StatusStep, Row, Statuses, Terminal, Verdicts
<1>9. CASE op = "gone"
  <2>1. s = Bump(WorkerGone(r, p))
    BY <1>9 DEF Mutate
  <2>2. CASE Terminal(r.status) \/ r.pid # p
    BY <1>1, <1>9, <2>1, <2>2 DEF WorkerGone, Bump, LegalChange, RowShape, StatusStep, Row, Terminal
  <2>3. CASE ~(Terminal(r.status) \/ r.pid # p) /\ r.status = "cancellation_requested"
    BY <1>1, <1>9, <2>1, <2>3 DEF WorkerGone, Settle, Bump, LegalChange, RowShape, StatusStep,
       Row, Terminal, Verdicts
  <2>4. CASE ~(Terminal(r.status) \/ r.pid # p) /\ r.status # "cancellation_requested"
    <3>1. r.status \in {"queued", "running"}
      BY <2>4 DEF Applies, Row, Statuses, Terminal
    <3>2. s = [r EXCEPT !.status = "failed", !.finished = TRUE, !.pid = FALSE,
                        !.version = @ + 1]
      BY <2>1, <2>4 DEF WorkerGone, Settle, Bump, Row
    <3>3. QED
      BY <1>1, <1>9, <3>1, <3>2 DEF LegalChange, RowShape, StatusStep, Row, Terminal, Verdicts
  <2>5. QED
    BY <2>2, <2>3, <2>4
<1>10. CASE op = "progress"
  BY <1>1, <1>10 DEF Mutate, Bump, LegalChange, RowShape, StatusStep, Row, Terminal
<1>11. QED
  BY <1>2, <1>3, <1>4, <1>5, <1>6, <1>7, <1>8, <1>9, <1>10
     DEF Ops, StartOps, WorkerOps, ProgressOps, ClientOps

-----------------------------------------------------------------------------
(* A job that a step leaves alone keeps its invariant.                     *)
Untouched(j) == UNCHANGED <<db[j], pc[j], draft[j], seen[j], proc[j]>>

LEMMA Frame ==
    ASSUME NEW j \in Jobs, JobInv(j), Untouched(j)
    PROVE  JobInv(j)'
  BY DEF Untouched, JobInv, ThreadLabels, Named, ProcessLife, RowMatchesWorker,
     RowShape, ClientKnowledge, DraftSound, Fresh

(* A thread outside Update has no draft.                                   *)
LEMMA NoDraft ==
    ASSUME NEW j \in Jobs, JobInv(j), NEW t \in Threads, pc[j][t] \notin Ops
    PROVE  draft[j][t] = NoRow
  BY DEF JobInv, DraftSound

(* Steps that write no row and only drop drafts keep the others sound.     *)
LEMMA DraftKept ==
    ASSUME NEW j \in Jobs, JobInv(j), db'[j] = db[j],
           \A t \in Threads : \/ draft'[j][t] = NoRow
                              \/ UNCHANGED <<draft[j][t], pc[j][t], seen[j][t]>>
    PROVE  DraftSound(j)'
  BY DEF JobInv, DraftSound, Fresh

(* A thread that leaves a label outside Update and changes nothing else.   *)
LEMMA DraftKeptGoto ==
    ASSUME TypeOK, NEW j \in Jobs, JobInv(j), NEW t \in Threads, NEW label,
           pc[j][t] \notin Ops, Goto(j, t, label),
           UNCHANGED <<db, draft>>, \A u \in Threads \ {t} : UNCHANGED seen[j][u]
    PROVE  DraftSound(j)'
<1>1. draft'[j][t] = NoRow
  BY NoDraft
<1>2. \A u \in Threads \ {t} : UNCHANGED <<draft[j][u], pc[j][u], seen[j][u]>>
  BY DEF Goto, TypeOK
<1>3. QED
  BY <1>1, <1>2, DraftKept

(* The labels that lie outside Update.                                     *)
LEMMA OutsideUpdate ==
    \A l \in {"idle", "launch", "kill", "boot", "get", "running", "exit", "judge",
              "signal"} : l \notin Ops
  BY DEF Ops, StartOps, WorkerOps, ProgressOps, ClientOps

(* What a thread applies to the committed row, it may apply.               *)
LEMMA OpApplies ==
    ASSUME TypeOK, NEW j \in Jobs, JobInv(j), NEW t \in Threads, pc[j][t] \in Ops
    PROVE  Applies(pc[j][t], db[j])
<1> USE ThreadsType
<1>1. CASE t = "start"
  BY <1>1, ClientsAssumption DEF JobInv, ThreadLabels, ProcessLife, RowMatchesWorker, Applies, Ops, StartOps,
     WorkerOps, ProgressOps, ClientOps
<1>2. CASE t = "worker"
  BY <1>2 DEF JobInv, ThreadLabels, ProcessLife, RowMatchesWorker, Applies, Ops, StartOps,
     WorkerOps, ProgressOps, ClientOps, EarlyLabels
<1>3. CASE t = "progress"
  BY <1>3 DEF JobInv, ThreadLabels, ProcessLife, RowMatchesWorker, Applies, Ops, StartOps,
     WorkerOps, ProgressOps, ClientOps
<1>4. CASE t \in Clients
  BY <1>4 DEF JobInv, ThreadLabels, ClientKnowledge, RowMatchesWorker, Named, Applies, Ops,
     StartOps, WorkerOps, ProgressOps, ClientOps
<1>5. QED
  BY <1>1, <1>2, <1>3, <1>4 DEF Threads

(* So a draft that would still be written is a legal change.               *)
LEMMA FreshIsLegal ==
    ASSUME TypeOK, NEW j \in Jobs, JobInv(j), NEW t \in Threads,
           draft[j][t] # NoRow, Fresh(j, t)
    PROVE  pc[j][t] \in Ops /\ LegalChange(pc[j][t], db[j], draft[j][t])
<1>1. pc[j][t] \in Ops
  BY DEF JobInv, DraftSound
<1>2. PICK v \in Verdicts : draft[j][t] = Bump(Mutate(pc[j][t], db[j], seen[j][t].pid, v))
  BY DEF JobInv, DraftSound
<1>3. db[j] \in Row /\ seen[j][t].pid \in BOOLEAN /\ RowShape(db[j])
  BY DEF TypeOK, Row, JobInv
<1>4. QED
  BY <1>1, <1>2, <1>3, OpApplies, MutateLegal

(* The label sets, and that the threads of a job are different threads.    *)
LEMMA ThreadsDiffer ==
    \A c \in Clients : c # "start" /\ c # "worker" /\ c # "progress"
  BY ClientsAssumption

LEMMA InitInv == Init => \A j \in Jobs : JobInv(j)
<1> SUFFICES ASSUME Init, NEW j \in Jobs PROVE JobInv(j)
  OBVIOUS
<1> USE ThreadsType
<1>1. /\ db[j] = NoRow /\ proc[j] = "none"
      /\ \A t \in Threads : pc[j][t] = "idle" /\ draft[j][t] = NoRow /\ seen[j][t] = NoRow
  BY DEF Init
<1>2. ThreadLabels(j) /\ ProcessLife(j) /\ RowMatchesWorker(j)
  BY <1>1 DEF ThreadLabels, ProcessLife, RowMatchesWorker, EarlyLabels, NoRow
<1>3. RowShape(db[j])
  <2>1. /\ db[j].status = "absent" /\ db[j].started = FALSE
        /\ db[j].result = FALSE /\ db[j].finished = FALSE
    BY <1>1 DEF NoRow
  <2>2. "absent" # "completed" /\ ~Terminal("absent")
    BY DEF Terminal, Verdicts
  <2>3. QED
    BY <2>1, <2>2 DEF RowShape
<1>4. ClientKnowledge(j)
  BY <1>1 DEF ClientKnowledge, NoRow
<1>5. DraftSound(j)
  BY <1>1 DEF DraftSound
<1>6. QED
  BY <1>2, <1>3, <1>4, <1>5 DEF JobInv

-----------------------------------------------------------------------------
(* Store.Update preserves the invariant of its job.                        *)

LEMMA UpdateReadInv ==
    ASSUME TypeOK, NEW j \in Jobs, JobInv(j), NEW t \in Threads, UpdateRead(j, t)
    PROVE  JobInv(j)'
<1>1. UNCHANGED <<db, pc, seen, proc>>
  BY DEF UpdateRead, worker
<1>2. /\ draft'[j][t] = Bump(Mutate(pc[j][t], db[j], seen[j][t].pid, RunVerdict(j)))
      /\ \A u \in Threads \ {t} : draft'[j][u] = draft[j][u]
  BY DEF UpdateRead, TypeOK
<1>3. DraftSound(j)'
  <2>1. pc[j][t] \in Ops
    BY DEF UpdateRead
  <2>2. draft'[j][t].version = db[j].version + 1
    <3>1. db[j] \in Row /\ seen[j][t].pid \in BOOLEAN /\ RowShape(db[j])
      BY DEF TypeOK, Row, JobInv
    <3>2. QED
      BY <1>2, <2>1, <3>1, OpApplies, MutateLegal, RunVerdictType DEF LegalChange
  <2>3. RunVerdict(j) \in Verdicts
    BY RunVerdictType
  <2>4. db[j].version \in Nat
    BY DEF TypeOK, Row
  <2>5. QED
    BY <1>1, <1>2, <2>1, <2>2, <2>3, <2>4 DEF JobInv, DraftSound, Fresh
<1>4. QED
  BY <1>1, <1>3 DEF JobInv, ThreadLabels, Named, ProcessLife, RowMatchesWorker, RowShape,
     ClientKnowledge

LEMMA UpdateWriteInv ==
    ASSUME TypeOK, NEW j \in Jobs, JobInv(j), NEW t \in Threads, UpdateWrite(j, t)
    PROVE  JobInv(j)'
<1> USE ThreadsType, ThreadsDiffer
<1> DEFINE op == pc[j][t]
           label == AfterUpdate(j, t, draft[j][t])
<1>1. /\ db'[j] = draft[j][t]
      /\ pc'[j][t] = label /\ \A u \in Threads \ {t} : pc'[j][u] = pc[j][u]
      /\ draft'[j][t] = NoRow /\ \A u \in Threads \ {t} : draft'[j][u] = draft[j][u]
      /\ seen'[j][t] = NoRow /\ \A u \in Threads \ {t} : seen'[j][u] = seen[j][u]
      /\ proc'[j] = proc[j]
  BY DEF UpdateWrite, EndUpdate, Goto, TypeOK, worker
<1>2. op \in Ops /\ LegalChange(op, db[j], db'[j]) /\ Applies(op, db[j])
  BY <1>1, FreshIsLegal, OpApplies DEF UpdateWrite
<1>3. RowShape(db[j])' /\ db'[j] \in Row /\ db[j] \in Row
  BY <1>2 DEF LegalChange, TypeOK, RowShape
<1>4. DraftSound(j)'
  <2>1. db'[j].version = db[j].version + 1 /\ db[j].version \in Nat
    BY <1>2, <1>3 DEF LegalChange, Row
  <2>2. \A u \in Threads : draft[j][u].version \in Nat
    BY DEF TypeOK, Row
  <2>3. QED
    BY <1>1, <2>1, <2>2 DEF JobInv, DraftSound, Fresh
<1>5. ClientKnowledge(j)'
  BY <1>1, <1>2 DEF JobInv, ClientKnowledge, LegalChange, NoRow, AfterUpdate
<1>6. db'[j].status # "absent" /\ db[j].status # "absent" /\ pc[j]["start"] # "idle"
  BY <1>2 DEF LegalChange, Applies, StatusStep, Verdicts, JobInv, RowMatchesWorker
<1>7. CASE t = "start"
  <2>1. op \in {"record", "failLaunch"} /\ label \in {"returned", "error"}
    BY <1>2, <1>7 DEF JobInv, ThreadLabels, AfterUpdate, Ops, StartOps, WorkerOps, ProgressOps, ClientOps
  <2>2. /\ pc'[j]["worker"] = pc[j]["worker"] /\ pc'[j]["progress"] = pc[j]["progress"]
        /\ pc'[j]["start"] = label /\ \A c \in Clients : pc'[j][c] = pc[j][c]
    BY <1>1, <1>7
  <2>3. ThreadLabels(j)'
    BY <2>1, <2>2, <1>7 DEF JobInv, ThreadLabels, Named
  <2>4. ProcessLife(j)'
    BY <1>1, <1>2, <1>7, <2>1, <2>2 DEF JobInv, ProcessLife, LegalChange
  <2>5. RowMatchesWorker(j)'
    <3>1. CASE op = "failLaunch"
      BY <1>1, <1>6, <1>7, <2>1, <2>2, <3>1 DEF JobInv, ProcessLife, RowMatchesWorker, AfterUpdate, EarlyLabels
    <3>2. CASE op = "record"
      BY <1>1, <1>2, <1>6, <1>7, <2>1, <2>2, <3>2
         DEF JobInv, ProcessLife, RowMatchesWorker, LegalChange, EarlyLabels
    <3>3. QED
      BY <2>1, <3>1, <3>2
  <2>6. QED
    BY <1>3, <1>4, <1>5, <2>3, <2>4, <2>5 DEF JobInv
<1>8. CASE t = "worker"
  <2>1. op \in WorkerOps
    BY <1>2, <1>8 DEF JobInv, ThreadLabels, Ops, StartOps, WorkerOps, ProgressOps, ClientOps
  <2>2. /\ pc'[j]["start"] = pc[j]["start"] /\ pc'[j]["progress"] = pc[j]["progress"]
        /\ pc'[j]["worker"] = label /\ \A c \in Clients : pc'[j][c] = pc[j][c]
    BY <1>1, <1>8
  <2>3. /\ op = "claim" => \/ label = "get" /\ db'[j].status = "cancellation_requested" /\ ~db'[j].started
                           \/ label = "running" /\ db'[j].status = "running" /\ db'[j].started
        /\ op # "claim" => label = "exit"
    BY <1>1, <1>2, <2>1 DEF LegalChange, AfterUpdate, WorkerOps
  <2>4. proc[j] = "alive" /\ pc[j]["progress"] = "idle"
    BY <1>8, <2>1 DEF JobInv, ProcessLife, WorkerOps
  <2>5. ThreadLabels(j)'
    BY <2>2, <2>3 DEF JobInv, ThreadLabels, Named
  <2>6. ProcessLife(j)'
    BY <1>1, <2>2, <2>4 DEF JobInv, ProcessLife
  <2>7. RowMatchesWorker(j)'
    BY <1>1, <1>6, <2>2, <2>3, <2>4 DEF JobInv, RowMatchesWorker, EarlyLabels
  <2>8. QED
    BY <1>3, <1>4, <1>5, <2>5, <2>6, <2>7 DEF JobInv
<1>9. CASE t = "progress"
  <2>1. op = "progress" /\ label = "idle"
    BY <1>2, <1>9 DEF JobInv, ThreadLabels, AfterUpdate, Ops, StartOps, WorkerOps, ProgressOps, ClientOps
  <2>2. /\ pc'[j]["worker"] = pc[j]["worker"] /\ pc'[j]["progress"] = "idle"
        /\ pc'[j]["start"] = pc[j]["start"] /\ \A c \in Clients : pc'[j][c] = pc[j][c]
    BY <1>1, <1>9, <2>1
  <2>3. ThreadLabels(j)'
    BY <2>2 DEF JobInv, ThreadLabels, Named
  <2>4. ProcessLife(j)'
    BY <1>1, <1>2, <2>1, <2>2 DEF JobInv, ProcessLife, LegalChange
  <2>5. RowMatchesWorker(j)'
    BY <1>1, <1>2, <1>6, <1>9, <2>1, <2>2
       DEF JobInv, ProcessLife, RowMatchesWorker, LegalChange, EarlyLabels
  <2>6. QED
    BY <1>3, <1>4, <1>5, <2>3, <2>4, <2>5 DEF JobInv
<1>10. CASE t \in Clients
  <2>1. op \in ClientOps /\ label \in {"idle", "signal"}
    BY <1>2, <1>10 DEF JobInv, ThreadLabels, AfterUpdate, Ops, StartOps, WorkerOps, ProgressOps, ClientOps
  <2>2. /\ pc'[j]["worker"] = pc[j]["worker"] /\ pc'[j]["progress"] = pc[j]["progress"]
        /\ pc'[j]["start"] = pc[j]["start"]
        /\ \A c \in Clients : pc'[j][c] = pc[j][c] \/ pc'[j][c] = label
    BY <1>1, <1>10
  <2>3. Named(j)
    BY <1>10, <2>1 DEF JobInv, ThreadLabels, ClientOps
  <2>4. ThreadLabels(j)'
    BY <2>1, <2>2, <2>3 DEF JobInv, ThreadLabels, Named
  <2>5. ProcessLife(j)'
    BY <1>1, <1>2, <2>1, <2>2 DEF JobInv, ProcessLife, LegalChange, ClientOps
  <2>6. RowMatchesWorker(j)'
    <3>1. CASE op = "cancel"
      BY <1>1, <1>2, <1>6, <2>2, <3>1 DEF JobInv, RowMatchesWorker, LegalChange, EarlyLabels
    <3>2. CASE op = "timeout"
      BY <1>1, <1>2, <1>6, <1>10, <2>2, <3>2
         DEF JobInv, ClientKnowledge, RowMatchesWorker, LegalChange, EarlyLabels
    <3>3. CASE op = "gone"
      BY <1>1, <1>2, <1>6, <1>10, <2>2, <3>3
         DEF JobInv, ClientKnowledge, ProcessLife, RowMatchesWorker, LegalChange, EarlyLabels
    <3>4. QED
      BY <2>1, <3>1, <3>2, <3>3 DEF ClientOps
  <2>7. QED
    BY <1>3, <1>4, <1>5, <2>4, <2>5, <2>6 DEF JobInv
<1>11. QED
  BY <1>7, <1>8, <1>9, <1>10 DEF Threads

(* Ending an Update, or abandoning one, without writing: nothing but the   *)
(* thread's own label, draft and earlier row changes.                      *)
LEMMA UpdateEndsInv ==
    ASSUME TypeOK, NEW j \in Jobs, JobInv(j), NEW t \in Threads, NEW label,
           UNCHANGED <<db, proc>>, EndUpdate(j, t, label),
           \/ t = "start" /\ pc[j][t] = "record" /\ label \in {"kill", "crashed"}
           \/ t = "start" /\ pc[j][t] = "failLaunch" /\ label \in {"error", "crashed"}
           \/ t = "start" /\ pc[j][t] = "launch" /\ label = "lost"
           \/ t = "start" /\ pc[j][t] = "kill" /\ label = "crashed"
           \/ t = "worker" /\ pc[j][t] \in WorkerOps /\ label = "exit"
           \/ t = "progress" /\ label = "idle"
           \/ t \in Clients /\ label = "idle"
    PROVE  JobInv(j)'
<1> USE ThreadsType, ThreadsDiffer
<1>1. /\ db'[j] = db[j] /\ proc'[j] = proc[j]
      /\ pc'[j][t] = label /\ \A u \in Threads \ {t} : pc'[j][u] = pc[j][u]
      /\ draft'[j][t] = NoRow /\ \A u \in Threads \ {t} : draft'[j][u] = draft[j][u]
      /\ seen'[j][t] = NoRow /\ \A u \in Threads \ {t} : seen'[j][u] = seen[j][u]
  BY DEF EndUpdate, Goto, TypeOK
<1>2. DraftSound(j)'
  BY <1>1, DraftKept
<1>3. RowShape(db[j])'
  BY <1>1 DEF JobInv, RowShape
<1>4. ClientKnowledge(j)'
  BY <1>1 DEF JobInv, ClientKnowledge, NoRow
<1>5. ThreadLabels(j)' /\ ProcessLife(j)' /\ RowMatchesWorker(j)'
  <2>1. CASE t = "start"
    BY <1>1, <2>1 DEF JobInv, ThreadLabels, Named, ProcessLife, RowMatchesWorker, EarlyLabels
  <2>2. CASE t = "worker"
    BY <1>1, <2>2 DEF JobInv, ThreadLabels, Named, ProcessLife, RowMatchesWorker, EarlyLabels,
       WorkerOps
  <2>3. CASE t = "progress"
    BY <1>1, <2>3 DEF JobInv, ThreadLabels, Named, ProcessLife, RowMatchesWorker, EarlyLabels
  <2>4. CASE t \in Clients
    BY <1>1, <2>4 DEF JobInv, ThreadLabels, Named, ProcessLife, RowMatchesWorker, EarlyLabels
  <2>5. QED
    BY <2>1, <2>2, <2>3, <2>4
<1>6. QED
  BY <1>2, <1>3, <1>4, <1>5 DEF JobInv

LEMMA UpdateInv ==
    ASSUME TypeOK, NEW j \in Jobs, JobInv(j), NEW t \in Threads, Update(j, t)
    PROVE  JobInv(j)'
<1>1. CASE UpdateRead(j, t)
  BY <1>1, UpdateReadInv
<1>2. CASE UpdateWrite(j, t)
  BY <1>2, UpdateWriteInv
<1>3. CASE UpdateConflict(j, t)
  <2>1. DraftSound(j)'
    BY <1>3, DraftKept DEF UpdateConflict, TypeOK
  <2>2. QED
    BY <1>3, <2>1 DEF UpdateConflict, worker, JobInv, ThreadLabels, Named, ProcessLife,
       RowMatchesWorker, RowShape, ClientKnowledge
<1>4. CASE UpdateGiveUp(j, t)
  <2>1. pc[j][t] \in Ops
    BY <1>4 DEF UpdateGiveUp, UsesWorkerContext, Ops, WorkerOps, JobInv, DraftSound
  <2>2. EndUpdate(j, t, AfterError(j, t)) /\ UNCHANGED <<db, proc>>
    BY <1>4 DEF UpdateGiveUp, worker
  <2>3. CASE t = "start"
    <3>1. pc[j][t] \in StartOps
      BY <2>1, <2>3 DEF JobInv, ThreadLabels, Ops, StartOps, WorkerOps, ProgressOps, ClientOps
    <3>2. \/ pc[j][t] = "record" /\ AfterError(j, t) = "kill"
          \/ pc[j][t] = "failLaunch" /\ AfterError(j, t) = "error"
      <4>1. CASE pc[j][t] = "record"
        BY <4>1 DEF AfterError, WorkerOps
      <4>2. CASE pc[j][t] = "failLaunch"
        BY <4>2 DEF AfterError, WorkerOps
      <4>3. QED
        BY <3>1, <4>1, <4>2 DEF StartOps
    <3>3. QED
      BY <2>2, <2>3, <3>2, UpdateEndsInv
  <2>4. CASE t = "worker"
    <3>1. pc[j][t] \in WorkerOps
      BY <2>1, <2>4 DEF JobInv, ThreadLabels, Ops, StartOps, WorkerOps, ProgressOps, ClientOps
    <3>2. AfterError(j, t) = "exit"
      BY <3>1 DEF AfterError, WorkerOps
    <3>3. QED
      BY <2>2, <2>4, <3>1, <3>2, UpdateEndsInv
  <2>5. CASE t = "progress" \/ t \in Clients
    <3>1. pc[j][t] \in ProgressOps \cup ClientOps
      BY <2>1, <2>5 DEF JobInv, ThreadLabels, Ops, StartOps, WorkerOps, ProgressOps, ClientOps
    <3>2. AfterError(j, t) = "idle"
      BY <3>1 DEF AfterError, WorkerOps, ProgressOps, ClientOps
    <3>3. QED
      BY <2>2, <2>5, <3>2, UpdateEndsInv
  <2>6. QED
    BY <2>3, <2>4, <2>5 DEF Threads
<1>5. QED
  BY <1>1, <1>2, <1>3, <1>4 DEF Update

(* Interrupting the worker kills it only before its row says anything.     *)
LEMMA InterruptInv ==
    ASSUME TypeOK, NEW j \in Jobs, JobInv(j), NEW t \in Threads, NEW label,
           Interrupt(j, t, label),
           \/ t = "start" /\ pc[j][t] = "kill" /\ label = "error"
           \/ t \in Clients /\ pc[j][t] = "signal" /\ label = "idle"
    PROVE  JobInv(j)'
<1> USE ThreadsType, ThreadsDiffer
<1>1. UNCHANGED <<db, draft, seen>>
  BY DEF Interrupt, rows
<1>2. /\ pc'[j][t] = label
      /\ \A u \in Threads \ {t, "worker"} : pc'[j][u] = pc[j][u]
      /\ \/ pc'[j]["worker"] = pc[j]["worker"] /\ proc'[j] = proc[j]
         \/ /\ pc[j]["worker"] = "boot" /\ proc[j] = "alive"
            /\ pc'[j]["worker"] = "idle" /\ proc'[j] = "dead"
  BY DEF Interrupt, TypeOK
<1>3. DraftSound(j)'
  <2>1. \A u \in Threads : draft'[j][u] = NoRow \/ UNCHANGED <<draft[j][u], pc[j][u], seen[j][u]>>
    BY <1>1, <1>2, NoDraft, OutsideUpdate
  <2>2. QED
    BY <1>1, <2>1, DraftKept
<1>4. RowShape(db[j])' /\ ClientKnowledge(j)'
  BY <1>1, <1>2 DEF JobInv, RowShape, ClientKnowledge
<1>5. ThreadLabels(j)'
  BY <1>2 DEF JobInv, ThreadLabels, Named
<1>6. ProcessLife(j)' /\ RowMatchesWorker(j)'
  BY <1>1, <1>2 DEF JobInv, ProcessLife, RowMatchesWorker, EarlyLabels
<1>7. QED
  BY <1>3, <1>4, <1>5, <1>6 DEF JobInv

LEMMA StartInv ==
    ASSUME TypeOK, NEW j \in Jobs, JobInv(j), Start(j)
    PROVE  JobInv(j)'
<1> USE ThreadsType, ThreadsDiffer
<1>1. CASE Create(j)
  <2>1. /\ db'[j] = [NoRow EXCEPT !.status = "queued", !.version = 1]
        /\ pc'[j]["start"] = "launch" /\ \A u \in Threads \ {"start"} : pc'[j][u] = pc[j][u]
        /\ UNCHANGED <<draft, seen, proc>>
    BY <1>1 DEF Create, Goto, TypeOK, worker
  <2>2. proc[j] = "none" /\ \A u \in Threads : pc[j][u] = "idle"
    BY <1>1 DEF Create, JobInv, ThreadLabels, ProcessLife, Named, Threads
  <2>3. DraftSound(j)'
    BY <2>1, <2>2, NoDraft, OutsideUpdate DEF DraftSound
  <2>4. /\ db'[j].status = "queued" /\ db'[j].started = FALSE /\ db'[j].pid = FALSE
        /\ db'[j].result = FALSE /\ db'[j].finished = FALSE
    BY <2>1 DEF NoRow
  <2>5. RowShape(db[j])'
    BY <2>4 DEF RowShape, Terminal, Verdicts
  <2>6. db[j].started = FALSE
    BY <2>2, <1>1 DEF JobInv, RowMatchesWorker, Create, TypeOK, Row
  <2>7. ThreadLabels(j)' /\ ProcessLife(j)' /\ RowMatchesWorker(j)'
    BY <2>1, <2>2, <2>4 DEF JobInv, ThreadLabels, Named, ProcessLife, RowMatchesWorker, EarlyLabels
  <2>8. ClientKnowledge(j)'
    BY <2>1, <2>2, <2>6 DEF JobInv, ClientKnowledge
  <2>9. QED
    BY <2>3, <2>5, <2>7, <2>8 DEF JobInv
<1>2. CASE Launch(j)
  <2>1. /\ UNCHANGED <<db, draft, seen>> /\ proc'[j] = "alive"
        /\ pc'[j]["start"] = "record" /\ pc'[j]["worker"] = "boot"
        /\ \A u \in Threads \ {"start", "worker"} : pc'[j][u] = pc[j][u]
    BY <1>2 DEF Launch, TypeOK, rows
  <2>2. proc[j] = "none" /\ pc[j]["start"] = "launch" /\ pc[j]["worker"] = "idle"
        /\ pc[j]["progress"] = "idle" /\ \A c \in Clients : pc[j][c] = "idle"
    BY <1>2 DEF Launch, JobInv, ThreadLabels, ProcessLife, Named
  <2>3. \A u \in Threads : pc[j][u] \notin Ops
    BY <2>2, OutsideUpdate DEF Threads
  <2>4. DraftSound(j)'
    BY <2>1, <2>3, NoDraft DEF DraftSound
  <2>5. ThreadLabels(j)' /\ ProcessLife(j)' /\ RowShape(db[j])' /\ ClientKnowledge(j)'
    BY <2>1, <2>2 DEF JobInv, ThreadLabels, Named, StartOps, ProcessLife, RowShape, ClientKnowledge
  <2>6. RowMatchesWorker(j)'
    BY <2>1, <2>2 DEF JobInv, RowMatchesWorker, EarlyLabels
  <2>7. QED
    BY <2>4, <2>5, <2>6 DEF JobInv
<1>3. CASE LaunchFails(j)
  <2>1. /\ UNCHANGED <<db, draft, seen, proc>> /\ pc'[j]["start"] = "failLaunch"
        /\ \A u \in Threads \ {"start"} : pc'[j][u] = pc[j][u]
        /\ pc[j]["start"] = "launch"
    BY <1>3 DEF LaunchFails, Goto, TypeOK, rows, worker
  <2>2. DraftSound(j)'
    BY <1>3, OutsideUpdate, DraftKeptGoto DEF LaunchFails, rows
  <2>3. ThreadLabels(j)' /\ ProcessLife(j)' /\ RowShape(db[j])' /\ ClientKnowledge(j)'
    BY <2>1 DEF JobInv, ThreadLabels, Named, StartOps, ProcessLife, RowShape, ClientKnowledge
  <2>4. RowMatchesWorker(j)'
    BY <2>1 DEF JobInv, RowMatchesWorker, EarlyLabels
  <2>5. QED
    BY <2>2, <2>3, <2>4 DEF JobInv
<1>4. CASE StartCancelled(j)
  <2>1. UNCHANGED <<db, proc>>
    BY <1>4 DEF StartCancelled, worker
  <2>2. QED
    BY <1>4, <2>1, UpdateEndsInv DEF StartCancelled
<1>5. CASE KillLaunched(j)
  BY <1>5, InterruptInv DEF KillLaunched
<1>6. CASE ServerDies(j)
  <2>1. UNCHANGED <<db, proc>>
    BY <1>6 DEF ServerDies, worker
  <2>2. QED
    BY <1>6, <2>1, UpdateEndsInv DEF ServerDies
<1>7. CASE Update(j, "start")
  BY <1>7, UpdateInv
<1>8. QED
  BY <1>1, <1>2, <1>3, <1>4, <1>5, <1>6, <1>7 DEF Start

(* A worker or client thread that only moves from one label to another.    *)
LEMMA GotoInv ==
    ASSUME TypeOK, NEW j \in Jobs, JobInv(j), NEW t \in Threads, NEW label,
           Goto(j, t, label), UNCHANGED <<db, draft, proc>>,
           \A u \in Threads \ {t} : UNCHANGED seen[j][u],
           \/ /\ t = "worker" /\ UNCHANGED seen
              /\ \/ pc[j][t] = "boot" /\ label = "get"
                 \/ pc[j][t] = "get" /\ label \in {"exit", "claim"}
                 \/ /\ pc[j][t] = "get" /\ label = "cancelEarly"
                    /\ db[j].status = "cancellation_requested"
                 \/ pc[j][t] = "running" /\ pc[j]["progress"] = "idle" /\ label = "finish"
           \/ /\ t = "progress" /\ UNCHANGED seen /\ label = "progress"
              /\ pc[j][t] = "idle" /\ pc[j]["worker"] = "running"
           \/ /\ t \in Clients /\ pc[j][t] \in {"idle", "judge"} /\ Named(j)
              /\ label \in {"idle", "judge", "cancel", "timeout", "gone"}
              /\ label = "timeout" => seen[j][t].started
              /\ label = "gone" => seen[j][t].pid /\ proc[j] # "alive"
              /\ seen'[j][t] \in {seen[j][t], NoRow, db[j]}
    PROVE  JobInv(j)'
<1> USE ThreadsType, ThreadsDiffer
<1>1. pc'[j][t] = label /\ \A u \in Threads \ {t} : pc'[j][u] = pc[j][u]
  BY DEF Goto, TypeOK
<1>2. pc[j][t] \notin Ops
  BY OutsideUpdate
<1>3. DraftSound(j)'
  BY <1>2, DraftKeptGoto
<1>4. RowShape(db[j])'
  BY DEF JobInv, RowShape
<1>5. CASE t = "worker"
  <2>1. ThreadLabels(j)' /\ ClientKnowledge(j)'
    BY <1>1, <1>5 DEF JobInv, ThreadLabels, Named, WorkerOps, ClientKnowledge
  <2>2. ProcessLife(j)' /\ RowMatchesWorker(j)'
    BY <1>1, <1>5 DEF JobInv, ProcessLife, RowMatchesWorker, EarlyLabels
  <2>3. QED
    BY <1>3, <1>4, <2>1, <2>2 DEF JobInv
<1>6. CASE t = "progress"
  <2>1. ThreadLabels(j)' /\ ClientKnowledge(j)'
    BY <1>1, <1>6 DEF JobInv, ThreadLabels, Named, ProgressOps, ClientKnowledge
  <2>2. ProcessLife(j)' /\ RowMatchesWorker(j)'
    BY <1>1, <1>6 DEF JobInv, ProcessLife, RowMatchesWorker, EarlyLabels
  <2>3. QED
    BY <1>3, <1>4, <2>1, <2>2 DEF JobInv
<1>7. CASE t \in Clients
  <2>1. ThreadLabels(j)'
    BY <1>1, <1>7 DEF JobInv, ThreadLabels, Named, ClientOps
  <2>2. proc[j] \in {"none", "alive", "dead"}
    BY DEF TypeOK
  <2>3. db[j].pid => proc[j] # "none"
    BY DEF JobInv, ProcessLife
  <2>4. ClientKnowledge(j)'
    BY <1>1, <1>7, <2>2, <2>3 DEF JobInv, ClientKnowledge, NoRow
  <2>5. ProcessLife(j)' /\ RowMatchesWorker(j)'
    BY <1>1, <1>7 DEF JobInv, ProcessLife, RowMatchesWorker, EarlyLabels
  <2>6. QED
    BY <1>3, <1>4, <2>1, <2>4, <2>5 DEF JobInv
<1>8. QED
  BY <1>5, <1>6, <1>7

LEMMA WorkerInv ==
    ASSUME TypeOK, NEW j \in Jobs, JobInv(j), Worker(j) \/ TimePasses(j)
    PROVE  JobInv(j)'
<1> USE ThreadsType, ThreadsDiffer
<1>1. CASE InstallHandler(j)
  BY <1>1, GotoInv DEF InstallHandler, rows, worker
<1>2. CASE WorkerGet(j)
  <2>1. /\ UNCHANGED <<db, draft, proc, seen>> /\ pc[j]["worker"] = "get"
        /\ \/ \E l \in {"exit", "claim"} : Goto(j, "worker", l)
           \/ Goto(j, "worker", "cancelEarly") /\ db[j].status = "cancellation_requested"
    BY <1>2 DEF WorkerGet, rows, worker
  <2>2. QED
    BY <2>1, GotoInv
<1>3. CASE Report(j)
  BY <1>3, GotoInv DEF Report, rows, worker
<1>4. CASE RunnerReturns(j)
  BY <1>4, GotoInv DEF RunnerReturns, rows
<1>5. CASE WorkerExits(j)
  <2>1. /\ UNCHANGED <<db, draft, seen>> /\ proc'[j] = "dead"
        /\ pc[j]["worker"] = "exit" /\ pc'[j]["worker"] = "idle"
        /\ \A u \in Threads \ {"worker"} : pc'[j][u] = pc[j][u]
    BY <1>5 DEF WorkerExits, Goto, TypeOK, rows
  <2>2. DraftSound(j)'
    BY <1>5, OutsideUpdate, DraftKeptGoto DEF WorkerExits, rows
  <2>3. ThreadLabels(j)' /\ RowShape(db[j])' /\ ClientKnowledge(j)'
    BY <2>1 DEF JobInv, ThreadLabels, Named, RowShape, ClientKnowledge
  <2>4. ProcessLife(j)' /\ RowMatchesWorker(j)'
    BY <2>1 DEF JobInv, ProcessLife, RowMatchesWorker, EarlyLabels
  <2>5. QED
    BY <2>2, <2>3, <2>4 DEF JobInv
<1>6. CASE WorkerKilled(j)
  <2>1. /\ UNCHANGED <<db, seen>> /\ proc[j] = "alive" /\ proc'[j] = "dead"
        /\ pc'[j]["worker"] = "idle" /\ pc'[j]["progress"] = "idle"
        /\ draft'[j]["worker"] = NoRow /\ draft'[j]["progress"] = NoRow
        /\ \A u \in Threads \ {"worker", "progress"} :
              pc'[j][u] = pc[j][u] /\ draft'[j][u] = draft[j][u]
    BY <1>6 DEF WorkerKilled, TypeOK
  <2>2. DraftSound(j)'
    BY <2>1, DraftKept
  <2>3. ThreadLabels(j)' /\ RowShape(db[j])' /\ ClientKnowledge(j)'
    BY <2>1 DEF JobInv, ThreadLabels, Named, RowShape, ClientKnowledge
  <2>4. ProcessLife(j)' /\ RowMatchesWorker(j)'
    BY <2>1 DEF JobInv, ProcessLife, RowMatchesWorker, EarlyLabels
  <2>5. QED
    BY <2>2, <2>3, <2>4 DEF JobInv
<1>7. CASE RunContextExpires(j)
  BY <1>7, Frame DEF RunContextExpires, rows, Untouched
<1>8. CASE Update(j, "worker") \/ Update(j, "progress")
  BY <1>8, UpdateInv
<1>9. CASE TimePasses(j)
  BY <1>9, Frame DEF TimePasses, rows, Untouched
<1>10. QED
  BY <1>1, <1>2, <1>3, <1>4, <1>5, <1>6, <1>7, <1>8, <1>9 DEF Worker, WorkerBoot

LEMMA ClientInv ==
    ASSUME TypeOK, NEW j \in Jobs, JobInv(j), NEW c \in Clients, Client(j, c)
    PROVE  JobInv(j)'
<1> USE ThreadsType, ThreadsDiffer
<1>1. CASE GetReads(j, c)
  <2>1. /\ seen'[j][c] = db[j] /\ \A u \in Threads \ {c} : seen'[j][u] = seen[j][u]
    BY <1>1 DEF GetReads, TypeOK
  <2>2. QED
    BY <1>1, <2>1, GotoInv DEF GetReads, rows, worker
<1>2. CASE Reconcile(j, c)
  <2>1. /\ UNCHANGED <<db, draft, proc>> /\ pc[j][c] = "judge"
        /\ \/ Goto(j, c, "timeout") /\ seen[j][c].started /\ UNCHANGED seen
           \/ Goto(j, c, "gone") /\ seen[j][c].pid /\ proc[j] # "alive" /\ UNCHANGED seen
           \/ Goto(j, c, "idle") /\ seen' = [seen EXCEPT ![j][c] = NoRow]
    BY <1>2 DEF Reconcile, Overdue, Gone, rows, worker
  <2>2. /\ seen'[j][c] \in {seen[j][c], NoRow}
        /\ \A u \in Threads \ {c} : seen'[j][u] = seen[j][u]
    BY <2>1 DEF TypeOK
  <2>3. Named(j)
    BY <2>1 DEF JobInv, ThreadLabels
  <2>4. QED
    BY <2>1, <2>2, <2>3, GotoInv
<1>3. CASE SignalWorker(j, c)
  BY <1>3, InterruptInv DEF SignalWorker
<1>4. CASE CancelCalled(j, c)
  BY <1>4, GotoInv DEF CancelCalled, rows, worker
<1>5. CASE ClientAborts(j, c)
  BY <1>5, UpdateEndsInv DEF ClientAborts, worker
<1>6. CASE Update(j, c)
  BY <1>6, UpdateInv
<1>7. QED
  BY <1>1, <1>2, <1>3, <1>4, <1>5, <1>6 DEF Client, Polls

(* Every step acts on one job and leaves the others alone.                 *)
LEMMA OneJobMoves ==
    ASSUME TypeOK, NEW j \in Jobs, NEW k \in Jobs \ {j},
           Start(j) \/ Worker(j) \/ TimePasses(j) \/ \E c \in Clients : Client(j, c)
    PROVE  Untouched(k)
<1>1. ASSUME NEW t \in Threads, NEW label, EndUpdate(j, t, label), UNCHANGED <<db, proc>>
      PROVE  Untouched(k)
  BY <1>1 DEF EndUpdate, Goto, Untouched, TypeOK
<1>2. ASSUME NEW t \in Threads, Update(j, t) PROVE Untouched(k)
  <2>1. CASE UpdateRead(j, t)
    BY <2>1 DEF UpdateRead, Untouched, TypeOK, worker
  <2>2. CASE UpdateWrite(j, t)
    BY <2>2 DEF UpdateWrite, EndUpdate, Goto, Untouched, TypeOK, worker
  <2>3. CASE UpdateConflict(j, t)
    BY <2>3 DEF UpdateConflict, Untouched, TypeOK, worker
  <2>4. CASE UpdateGiveUp(j, t)
    BY <2>4, <1>1 DEF UpdateGiveUp, worker
  <2>5. QED
    BY <1>2, <2>1, <2>2, <2>3, <2>4 DEF Update
<1>3. ASSUME NEW t \in Threads, NEW label, Interrupt(j, t, label) PROVE Untouched(k)
  BY <1>3 DEF Interrupt, Untouched, TypeOK, rows
<1>4. ASSUME NEW t \in Threads, NEW label, Goto(j, t, label), UNCHANGED <<db, draft, proc>>,
             UNCHANGED seen[k]
      PROVE  Untouched(k)
  BY <1>4 DEF Goto, Untouched, TypeOK
<1>5. CASE Start(j)
  <2>1. CASE Create(j)
    BY <2>1 DEF Create, Goto, Untouched, TypeOK, worker
  <2>2. CASE Launch(j)
    BY <2>2 DEF Launch, Untouched, TypeOK, rows
  <2>3. CASE LaunchFails(j)
    BY <2>3, <1>4, ThreadsType DEF LaunchFails, rows, worker
  <2>4. CASE StartCancelled(j)
    BY <2>4, <1>1, ThreadsType DEF StartCancelled, worker
  <2>5. CASE KillLaunched(j)
    BY <2>5, <1>3, ThreadsType DEF KillLaunched
  <2>6. CASE ServerDies(j)
    BY <2>6, <1>1, ThreadsType DEF ServerDies, worker
  <2>7. QED
    BY <1>5, <1>2, <2>1, <2>2, <2>3, <2>4, <2>5, <2>6, ThreadsType DEF Start
<1>6. CASE Worker(j)
  <2>1. CASE InstallHandler(j)
    BY <2>1, <1>4, ThreadsType DEF InstallHandler, rows, worker
  <2>2. CASE WorkerGet(j)
    BY <2>2, <1>4, ThreadsType DEF WorkerGet, rows, worker
  <2>3. CASE Report(j)
    BY <2>3, <1>4, ThreadsType DEF Report, rows, worker
  <2>4. CASE RunnerReturns(j)
    BY <2>4, <1>4, ThreadsType DEF RunnerReturns, rows
  <2>5. CASE WorkerExits(j)
    BY <2>5 DEF WorkerExits, Goto, Untouched, TypeOK, rows
  <2>6. CASE WorkerKilled(j)
    BY <2>6 DEF WorkerKilled, Untouched, TypeOK
  <2>7. CASE RunContextExpires(j)
    BY <2>7 DEF RunContextExpires, Untouched, rows
  <2>8. QED
    BY <1>6, <1>2, <2>1, <2>2, <2>3, <2>4, <2>5, <2>6, <2>7, ThreadsType DEF Worker, WorkerBoot
<1>7. CASE TimePasses(j)
  BY <1>7 DEF TimePasses, Untouched, rows
<1>8. ASSUME NEW c \in Clients, Client(j, c) PROVE Untouched(k)
  <2>1. c \in Threads
    BY ThreadsType
  <2>2. CASE GetReads(j, c)
    BY <2>1, <2>2, <1>4 DEF GetReads, TypeOK, rows, worker
  <2>3. CASE Reconcile(j, c)
    <3>1. \E label : Goto(j, c, label)
      BY <2>3 DEF Reconcile
    <3>2. UNCHANGED seen[k] /\ UNCHANGED <<db, draft, proc>>
      BY <2>3 DEF Reconcile, TypeOK, rows, worker
    <3>3. QED
      BY <2>1, <3>1, <3>2, <1>4
  <2>4. CASE SignalWorker(j, c)
    BY <2>1, <2>4, <1>3 DEF SignalWorker
  <2>5. CASE CancelCalled(j, c)
    BY <2>1, <2>5, <1>4 DEF CancelCalled, rows, worker
  <2>6. CASE ClientAborts(j, c)
    BY <2>1, <2>6, <1>1 DEF ClientAborts, worker
  <2>7. QED
    BY <1>8, <1>2, <2>1, <2>2, <2>3, <2>4, <2>5, <2>6 DEF Client, Polls
<1>9. QED
  BY <1>5, <1>6, <1>7, <1>8

LEMMA IInvInductive == IInv /\ [Next]_vars => IInv'
<1> SUFFICES ASSUME IInv, [Next]_vars PROVE IInv'
  OBVIOUS
<1>1. TypeOK /\ TypeOK' /\ \A j \in Jobs : JobInv(j)
  BY TypeInductive DEF IInv
<1>2. CASE Next
  <2>1. PICK j \in Jobs : Start(j) \/ Worker(j) \/ TimePasses(j) \/ \E c \in Clients : Client(j, c)
    BY <1>2 DEF Next
  <2>2. JobInv(j)'
    BY <1>1, <2>1, StartInv, WorkerInv, ClientInv
  <2>3. ASSUME NEW k \in Jobs \ {j} PROVE JobInv(k)'
    BY <1>1, <2>1, OneJobMoves, Frame
  <2>4. QED
    BY <1>1, <2>2, <2>3 DEF IInv
<1>3. CASE UNCHANGED vars
  <2>1. ASSUME NEW k \in Jobs PROVE JobInv(k)'
    BY <1>1, <1>3, Frame DEF vars, rows, worker, Untouched
  <2>2. QED
    BY <1>1, <2>1 DEF IInv
<1>4. QED
  BY <1>2, <1>3

(* The inductive invariant holds in every reachable state.                 *)
THEOREM InvariantHolds == Spec => []IInv
<1>1. Init => IInv
  BY InitType, InitInv DEF IInv
<1>2. QED
  BY <1>1, IInvInductive, PTL DEF Spec

-----------------------------------------------------------------------------
(* What the invariant gives.                                               *)

RowStep(j) == \/ db'[j] = db[j]
              \/ /\ db[j].status = "absent" /\ db[j].result = FALSE
                 /\ db'[j].status = "queued" /\ db'[j].result = FALSE
              \/ \E op \in Ops : Applies(op, db[j]) /\ LegalChange(op, db[j], db'[j])

(* The rows of all jobs are only changed by creations and legal changes,   *)
(* one job at a time.                                                      *)
LEMMA RowsChangeLegally ==
    ASSUME IInv, Next
    PROVE  \E j \in Jobs : RowStep(j) /\ \A k \in Jobs \ {j} : db'[k] = db[k]
<1>1. PICK j \in Jobs : Start(j) \/ Worker(j) \/ TimePasses(j) \/ \E c \in Clients : Client(j, c)
  BY DEF Next
<1>2. TypeOK /\ JobInv(j)
  BY DEF IInv
<1>3. \A k \in Jobs \ {j} : db'[k] = db[k]
  BY <1>1, <1>2, OneJobMoves DEF Untouched
<1> SUFFICES RowStep(j)
  BY <1>3
<1>4. \A t \in Threads : Update(j, t) => RowStep(j)
  <2> SUFFICES ASSUME NEW t \in Threads, Update(j, t) PROVE RowStep(j)
    OBVIOUS
  <2>1. CASE UpdateWrite(j, t)
    <3>1. db'[j] = draft[j][t]
      BY <1>2, <2>1 DEF UpdateWrite, TypeOK
    <3>2. pc[j][t] \in Ops /\ LegalChange(pc[j][t], db[j], draft[j][t])
      BY <1>2, <2>1, FreshIsLegal DEF UpdateWrite
    <3>3. Applies(pc[j][t], db[j])
      BY <1>2, <3>2, OpApplies
    <3>4. LegalChange(pc[j][t], db[j], db'[j])
      BY <3>1, <3>2, Zenon
    <3>5. QED
      BY <3>2, <3>3, <3>4, Zenon DEF RowStep
  <2>2. CASE UpdateRead(j, t) \/ UpdateConflict(j, t) \/ UpdateGiveUp(j, t)
    BY <2>2 DEF UpdateRead, UpdateConflict, UpdateGiveUp, RowStep
  <2>3. QED
    BY <2>1, <2>2 DEF Update
<1>5. CASE Start(j)
  <2>1. CASE Create(j)
    <3>1. db[j].status = "absent" /\ RowShape(db[j])
      BY <1>2, <2>1 DEF Create, JobInv, RowMatchesWorker
    <3>2. db[j].result = FALSE
      BY <1>2, <3>1 DEF RowShape, TypeOK, Row
    <3>3. db'[j].status = "queued" /\ db'[j].result = FALSE
      BY <1>2, <2>1 DEF Create, NoRow, TypeOK
    <3>4. QED
      BY <3>1, <3>2, <3>3 DEF RowStep
  <2>2. CASE Launch(j) \/ LaunchFails(j) \/ StartCancelled(j) \/ KillLaunched(j) \/ ServerDies(j)
    BY <2>2 DEF Launch, LaunchFails, StartCancelled, KillLaunched, Interrupt, ServerDies, rows,
       RowStep
  <2>3. QED
    BY <1>4, <1>5, <2>1, <2>2, ThreadsType, Zenon DEF Start
<1>6. CASE Worker(j)
  <2>1. CASE Update(j, "worker") \/ Update(j, "progress")
    BY <1>4, <2>1, ThreadsType, Zenon
  <2>2. CASE ~(Update(j, "worker") \/ Update(j, "progress"))
    BY <1>6, <2>2 DEF Worker, WorkerBoot, InstallHandler, WorkerGet, Report, RunnerReturns,
       WorkerExits, WorkerKilled, RunContextExpires, rows, RowStep
  <2>3. QED
    BY <2>1, <2>2
<1>7. CASE TimePasses(j)
  BY <1>7 DEF TimePasses, rows, RowStep
<1>8. ASSUME NEW c \in Clients, Client(j, c) PROVE RowStep(j)
  <2>1. CASE Update(j, c)
    BY <1>4, <2>1, ThreadsType
  <2>2. CASE ~Update(j, c)
    BY <1>8, <2>2 DEF Client, Polls, GetReads, Reconcile, SignalWorker, Interrupt, CancelCalled,
       ClientAborts, rows, RowStep
  <2>3. QED
    BY <2>1, <2>2
<1>9. QED
  BY <1>1, <1>5, <1>6, <1>7, <1>8

(* The first verdict written for a job is never changed or overwritten.    *)
THEOREM VerdictIsFinalHolds == Spec => VerdictIsFinal
<1> DEFINE A == \A j \in Jobs : Terminal(db[j].status) =>
                  db'[j] = [db[j] EXCEPT !.version = db'[j].version]
<1>1. ASSUME IInv, [Next]_vars PROVE [A]_vars
  <2>1. CASE Next
    <3>1. PICK j \in Jobs : RowStep(j) /\ \A k \in Jobs \ {j} : db'[k] = db[k]
      BY <1>1, <2>1, RowsChangeLegally
    <3>2. \A k \in Jobs : db[k] \in Row
      BY <1>1 DEF IInv, TypeOK
    <3>3. ASSUME NEW k \in Jobs, Terminal(db[k].status)
          PROVE  db'[k] = [db[k] EXCEPT !.version = db'[k].version]
      <4>1. db'[k] = db[k] \/ db'[k] = Bump(db[k])
        BY <3>1, <3>3 DEF RowStep, LegalChange, Terminal, Verdicts
      <4>2. QED
        BY <3>2, <4>1 DEF Bump, Row
    <3>4. QED
      BY <3>3
  <2>2. QED
    BY <1>1, <2>1
<1>2. QED
  BY <1>1, InvariantHolds, PTL DEF Spec, VerdictIsFinal

(* An accepted cancellation is never followed by a run or a completion.    *)
THEOREM CancelSticksHolds == Spec => CancelSticks
<1> DEFINE A == \A j \in Jobs : db[j].status = "cancellation_requested" =>
                  db'[j].status \notin {"absent", "queued", "running", "completed"}
<1>1. ASSUME IInv, [Next]_vars PROVE [A]_vars
  <2>1. CASE Next
    <3>1. PICK j \in Jobs : RowStep(j) /\ \A k \in Jobs \ {j} : db'[k] = db[k]
      BY <1>1, <2>1, RowsChangeLegally
    <3>2. QED
      BY <3>1 DEF RowStep, LegalChange, StatusStep, Verdicts
  <2>2. QED
    BY <1>1, <2>1
<1>2. QED
  BY <1>1, InvariantHolds, PTL DEF Spec, CancelSticks

(* A running row can always be concluded by Get.                           *)
THEOREM RunningIsRecoverableHolds == Spec => []RunningIsRecoverable
<1>1. IInv => RunningIsRecoverable
  BY DEF IInv, JobInv, RowShape, RunningIsRecoverable
<1>2. QED
  BY <1>1, InvariantHolds, PTL

(* No verdict but timed_out is given while the provider runs.              *)
THEOREM VerdictIsQuietHolds == Spec => []VerdictIsQuiet
<1>1. IInv => VerdictIsQuiet
  BY DEF IInv, JobInv, RowMatchesWorker, EarlyLabels, VerdictIsQuiet
<1>2. QED
  BY <1>1, InvariantHolds, PTL

(* The answer is stored exactly by a completed verdict.                    *)
THEOREM ResultMatchesVerdictHolds == Spec => []ResultMatchesVerdict
<1>1. IInv => ResultMatchesVerdict
  <2> SUFFICES ASSUME IInv, NEW j \in Jobs
               PROVE  /\ db[j].result = (db[j].status = "completed")
                      /\ db[j].finished = Terminal(db[j].status)
    BY DEF ResultMatchesVerdict
  <2>1. RowShape(db[j]) /\ db[j].result \in BOOLEAN /\ db[j].finished \in BOOLEAN
    BY DEF IInv, JobInv, TypeOK, Row
  <2>2. Terminal(db[j].status) \in BOOLEAN /\ (db[j].status = "completed") \in BOOLEAN
    BY DEF Terminal
  <2>3. QED
    BY <2>1, <2>2, Zenon DEF RowShape
<1>2. QED
  BY <1>1, InvariantHolds, PTL

(* The service implements the abstract life of its jobs.                   *)
THEOREM LifecycleImplemented == Spec => ImplementsLifecycle
<1> DEFINE st == [j \in Jobs |-> db[j].status]
           re == [j \in Jobs |-> db[j].result]
<1>1. Init => Lifecycle!Init
  BY DEF Init, Lifecycle!Init, NoRow
<1>2. ASSUME IInv, [Next]_vars PROVE [Lifecycle!Next]_(Lifecycle!vars)
  <2>1. CASE Next
    <3>1. PICK j \in Jobs : RowStep(j) /\ \A k \in Jobs \ {j} : db'[k] = db[k]
      BY <1>2, <2>1, RowsChangeLegally
    <3>2. /\ st' = [st EXCEPT ![j] = db'[j].status]
          /\ re' = [re EXCEPT ![j] = db'[j].result]
      BY <3>1
    <3>3. /\ RowShape(db[j]) /\ db[j] \in Row
      BY <1>2 DEF IInv, JobInv, TypeOK
    <3>4. CASE db'[j].status = db[j].status /\ db'[j].result = db[j].result
      <4>1. st' = st /\ re' = re
        BY <3>2, <3>4
      <4>2. QED
        BY <4>1 DEF Lifecycle!vars
    <3>5. CASE /\ db[j].status = "absent" /\ db[j].result = FALSE
               /\ db'[j].status = "queued" /\ db'[j].result = FALSE
      <4>1. re' = re
        BY <3>2, <3>5
      <4>2. Lifecycle!Submit(j)
        BY <3>2, <3>5, <4>1 DEF Lifecycle!Submit
      <4>3. QED
        BY <4>2 DEF Lifecycle!Next
    <3>6. CASE \E op \in Ops : LegalChange(op, db[j], db'[j])
      <4>1. StatusStep(db[j].status, db'[j].status) /\ RowShape(db'[j]) /\ db'[j] \in Row
        BY <3>6 DEF LegalChange
      <4>2. /\ db[j].result = (db[j].status = "completed")
            /\ db'[j].result = (db'[j].status = "completed")
        BY <3>3, <4>1 DEF RowShape, Row
      <4>3. CASE db'[j].status = db[j].status
        BY <3>4, <4>2, <4>3
      <4>4. CASE db[j].status = "queued" /\ db'[j].status = "running"
        BY ZenonT(30), <3>2, <4>2, <4>4 DEF Lifecycle!Next, Lifecycle!Begin
      <4>5. CASE db[j].status \in {"queued", "running"} /\ db'[j].status = "cancellation_requested"
        BY ZenonT(30), <3>2, <4>2, <4>5 DEF Lifecycle!Next, Lifecycle!RequestCancel
      <4>6. CASE db'[j].status \in Lifecycle!VerdictsFrom(db[j].status)
        BY ZenonT(30), <3>2, <4>2, <4>6 DEF Lifecycle!Next, Lifecycle!Conclude, Lifecycle!VerdictsFrom,
           Lifecycle!Verdicts
      <4>7. QED
        BY <4>1, <4>3, <4>4, <4>5, <4>6 DEF StatusStep, Verdicts, Lifecycle!VerdictsFrom,
           Lifecycle!Verdicts
    <3>7. QED
      BY <3>1, <3>4, <3>5, <3>6 DEF RowStep
  <2>2. QED
    BY <1>2, <2>1 DEF vars, rows, Lifecycle!vars
<1>3. QED
  BY <1>1, <1>2, InvariantHolds, PTL DEF Spec, ImplementsLifecycle, Lifecycle!Spec
-----------------------------------------------------------------------------
(* Why a job is cancelled: the causes are permanent, so it is enough that  *)
(* one exists whenever a draft, a label or the context says "cancel".      *)
Cause(j) == cancels[j] > 0 \/ pc[j]["start"] = "error"

RowHasCause(j, r) == /\ r.status = "cancellation_requested" => cancels[j] > 0
                     /\ r.status = "cancelled" => Cause(j)

CauseInv(j) ==
    /\ RowHasCause(j, db[j])
    /\ \A t \in Threads : draft[j][t] # NoRow => RowHasCause(j, draft[j][t])
    /\ ctxDone[j] => Cause(j) \/ Terminal(db[j].status)
    /\ \A c \in Clients : pc[j][c] = "cancel" => cancels[j] > 0
    /\ \A c \in Clients : pc[j][c] = "signal" => cancels[j] > 0 \/ Terminal(db[j].status)

(* A mutation turns a row into a cancelled one only if it was to be        *)
(* cancelled or the run ended by a cancelled context.                      *)
LEMMA MutateCancels ==
    ASSUME NEW op \in Ops, NEW r \in Row, NEW p \in BOOLEAN, NEW v \in Verdicts, Applies(op, r)
    PROVE  LET s == Bump(Mutate(op, r, p, v)) IN
           /\ s.status = "cancellation_requested" => r.status = s.status \/ op = "cancel"
           /\ s.status = "cancelled" =>
                 \/ r.status \in {"cancelled", "cancellation_requested"}
                 \/ op = "finish" /\ v = "cancelled" /\ ~Terminal(r.status)
<1> DEFINE s == Bump(Mutate(op, r, p, v))
<1>1. s.status = Mutate(op, r, p, v).status
  <2>1. Bump(Mutate(op, r, p, v)) \in Row
    BY MutateType
  <2>2. QED
    BY <2>1 DEF Bump
<1>2. CASE op \in {"record", "progress"}
  BY <1>1, <1>2 DEF Mutate, RecordPid, Row
<1>3. CASE op \in {"failLaunch", "timeout"}
  BY <1>1, <1>3 DEF Mutate, FailLaunch, TimeOut, Settle, Row
<1>4. CASE op = "claim"
  BY <1>1, <1>4 DEF Mutate, Claim, Row
<1>5. CASE op = "cancelEarly"
  BY <1>1, <1>5 DEF Mutate, CancelEarly, Settle, Applies, Row
<1>6. CASE op = "cancel"
  BY <1>1, <1>6 DEF Mutate, RequestCancel, Row
<1>7. CASE op = "gone"
  BY <1>1, <1>7 DEF Mutate, WorkerGone, Settle, Row
<1>8. CASE op = "finish"
  BY <1>1, <1>8 DEF Mutate, Finish, Settle, Row, Terminal, Verdicts
<1>9. QED
  BY <1>2, <1>3, <1>4, <1>5, <1>6, <1>7, <1>8 DEF Ops, StartOps, WorkerOps, ProgressOps, ClientOps

(* A step that gives no new reason to cancel keeps the old ones.           *)
LEMMA CauseKept ==
    ASSUME NEW j \in Jobs, CauseInv(j), db'[j] = db[j],
           cancels[j] > 0 => cancels'[j] > 0, Cause(j) => Cause(j)',
           ctxDone'[j] => ctxDone[j] \/ Cause(j)' \/ Terminal(db[j].status),
           \A t \in Threads : draft'[j][t] # NoRow => draft'[j][t] = draft[j][t],
           \A c \in Clients : pc'[j][c] \in {"cancel", "signal"} => \/ pc'[j][c] = pc[j][c]
                                                                  \/ cancels'[j] > 0
    PROVE  CauseInv(j)'
  BY DEF CauseInv, RowHasCause

(* Start never leaves "error", the label that follows a failed launch.     *)
LEMMA StartStaysFailed ==
    ASSUME TypeOK, NEW j \in Jobs, JobInv(j), NEW t \in Threads, Update(j, t)
    PROVE  /\ UNCHANGED <<cancels, ctxDone>>
           /\ pc[j]["start"] = "error" => pc'[j]["start"] = "error"
           /\ \A u \in Threads \ {t} : pc'[j][u] = pc[j][u]
<1> USE ThreadsType
<1>1. UNCHANGED <<cancels, ctxDone>>
  BY DEF Update, UpdateRead, UpdateWrite, UpdateConflict, UpdateGiveUp, worker, counts
<1>2. pc' = pc \/ (pc[j][t] \in Ops /\ \E label : Goto(j, t, label))
  <2>1. CASE UpdateWrite(j, t)
    BY <2>1 DEF UpdateWrite, EndUpdate, JobInv, DraftSound
  <2>2. CASE UpdateGiveUp(j, t)
    BY <2>2 DEF UpdateGiveUp, EndUpdate, UsesWorkerContext, JobInv, DraftSound, Ops, WorkerOps
  <2>3. QED
    BY <2>1, <2>2 DEF Update, UpdateRead, UpdateConflict
<1>3. \A u \in Threads \ {t} : pc'[j][u] = pc[j][u]
  BY <1>2 DEF Goto, TypeOK
<1>4. "error" \notin Ops
  BY DEF Ops, StartOps, WorkerOps, ProgressOps, ClientOps
<1>5. QED
  BY <1>1, <1>2, <1>3, <1>4

LEMMA UpdateCause ==
    ASSUME TypeOK, NEW j \in Jobs, JobInv(j), CauseInv(j), NEW t \in Threads, Update(j, t)
    PROVE  CauseInv(j)'
<1> USE ThreadsType, ThreadsDiffer
<1>1. /\ UNCHANGED <<cancels, ctxDone>>
      /\ Cause(j) => Cause(j)'
      /\ \A u \in Threads \ {t} : pc'[j][u] = pc[j][u]
  BY StartStaysFailed DEF Cause
<1>2. CASE UpdateRead(j, t)
  <2>1. /\ draft'[j][t] = Bump(Mutate(pc[j][t], db[j], seen[j][t].pid, RunVerdict(j)))
        /\ \A u \in Threads \ {t} : draft'[j][u] = draft[j][u]
        /\ UNCHANGED <<db, pc>> /\ pc[j][t] \in Ops
    BY <1>2 DEF UpdateRead, TypeOK
  <2>2. db[j] \in Row /\ seen[j][t].pid \in BOOLEAN /\ Applies(pc[j][t], db[j])
    BY <2>1, OpApplies DEF TypeOK, Row
  <2>3. /\ draft'[j][t].status = "cancellation_requested" =>
              db[j].status = "cancellation_requested" \/ pc[j][t] = "cancel"
        /\ draft'[j][t].status = "cancelled" =>
              \/ db[j].status \in {"cancelled", "cancellation_requested"}
              \/ RunVerdict(j) = "cancelled" /\ ~Terminal(db[j].status)
    BY <2>1, <2>2, MutateCancels, RunVerdictType
  <2>4. pc[j][t] = "cancel" => cancels[j] > 0
    BY DEF JobInv, ThreadLabels, StartOps, WorkerOps, ProgressOps, CauseInv, Threads
  <2>5. RunVerdict(j) = "cancelled" => ctxDone[j]
    BY DEF RunVerdict, TypeOK
  <2>6. RowHasCause(j, draft'[j][t])
    BY <2>3, <2>4, <2>5 DEF CauseInv, RowHasCause, Cause
  <2>7. QED
    BY <1>1, <2>1, <2>6 DEF CauseInv, RowHasCause, Cause
<1>3. CASE UpdateWrite(j, t)
  <2>1. /\ db'[j] = draft[j][t] /\ draft[j][t] # NoRow
        /\ pc'[j][t] = AfterUpdate(j, t, draft[j][t])
        /\ draft'[j][t] = NoRow /\ \A u \in Threads \ {t} : draft'[j][u] = draft[j][u]
    BY <1>3 DEF UpdateWrite, EndUpdate, Goto, TypeOK
  <2>2. pc[j][t] \in Ops /\ LegalChange(pc[j][t], db[j], db'[j])
    BY <1>3, <2>1, FreshIsLegal DEF UpdateWrite
  <2>3. Terminal(db[j].status) => Terminal(db'[j].status)
    BY <2>2 DEF LegalChange, StatusStep, Terminal, Verdicts
  <2>4. RowHasCause(j, db'[j])
    BY <2>1 DEF CauseInv
  <2>5. pc'[j][t] = "signal" => cancels[j] > 0 \/ Terminal(db'[j].status)
    <3>1. pc'[j][t] = "signal" => pc[j][t] = "cancel" \/ db'[j].status = "timed_out"
      BY <2>1, <2>2 DEF AfterUpdate, Ops, StartOps, WorkerOps, ProgressOps, ClientOps
    <3>2. pc[j][t] = "cancel" => cancels[j] > 0
      BY DEF JobInv, ThreadLabels, StartOps, WorkerOps, ProgressOps, CauseInv, Threads
    <3>3. QED
      BY <3>1, <3>2 DEF Terminal, Verdicts
  <2>6. pc'[j][t] # "cancel"
    BY <2>1, <2>2 DEF AfterUpdate, Ops, StartOps, WorkerOps, ProgressOps, ClientOps
  <2>7. QED
    BY <1>1, <2>1, <2>3, <2>4, <2>5, <2>6 DEF CauseInv, RowHasCause, Cause
<1>4. CASE UpdateConflict(j, t)
  BY <1>1, <1>4, CauseKept DEF UpdateConflict, TypeOK
<1>5. CASE UpdateGiveUp(j, t)
  <2>1. /\ pc'[j][t] = AfterError(j, t) /\ db' = db
        /\ draft'[j][t] = NoRow /\ \A u \in Threads \ {t} : draft'[j][u] = draft[j][u]
    BY <1>5 DEF UpdateGiveUp, EndUpdate, Goto, TypeOK
  <2>2. pc'[j][t] \notin {"cancel", "signal"}
    BY <2>1 DEF AfterError
  <2>3. QED
    BY <1>1, <2>1, <2>2, CauseKept
<1>6. QED
  BY <1>2, <1>3, <1>4, <1>5 DEF Update

(* An interrupt needs a client that had a reason, or a failed Start.       *)
LEMMA InterruptCause ==
    ASSUME TypeOK, NEW j \in Jobs, CauseInv(j), NEW t \in Threads, NEW label,
           Interrupt(j, t, label),
           \/ t = "start" /\ pc[j][t] = "kill" /\ label = "error"
           \/ t \in Clients /\ pc[j][t] = "signal" /\ label = "idle"
    PROVE  CauseInv(j)'
<1> USE ThreadsType, ThreadsDiffer
<1>1. UNCHANGED <<db, draft, cancels>>
  BY DEF Interrupt, rows, counts
<1>2. /\ pc'[j][t] = label
      /\ \A u \in Threads \ {t, "worker"} : pc'[j][u] = pc[j][u]
  BY DEF Interrupt, TypeOK
<1>3. Cause(j)' \/ Terminal(db[j].status)
  BY <1>1, <1>2 DEF CauseInv, Cause
<1>4. Cause(j) => Cause(j)'
  BY <1>1, <1>2 DEF Cause
<1>5. QED
  BY <1>1, <1>2, <1>3, <1>4, CauseKept

LEMMA StepCause ==
    ASSUME TypeOK, NEW j \in Jobs, JobInv(j), CauseInv(j),
           Start(j) \/ Worker(j) \/ TimePasses(j) \/ \E c \in Clients : Client(j, c)
    PROVE  CauseInv(j)'
<1> USE ThreadsType, ThreadsDiffer
<1>1. ASSUME NEW t \in Threads, NEW label, Goto(j, t, label), UNCHANGED <<db, draft, cancels>>,
             ctxDone' = ctxDone, label \notin {"cancel", "signal"},
             t = "start" => pc[j][t] # "error"
      PROVE  CauseInv(j)'
  <2>1. pc'[j][t] = label /\ \A u \in Threads \ {t} : pc'[j][u] = pc[j][u]
    BY <1>1 DEF Goto, TypeOK
  <2>2. Cause(j) => Cause(j)'
    BY <1>1, <2>1 DEF Cause
  <2>3. QED
    BY <1>1, <2>1, <2>2, CauseKept
<1>2. ASSUME NEW t \in Threads, NEW label, EndUpdate(j, t, label), UNCHANGED <<db, cancels, ctxDone>>,
             label \notin {"cancel", "signal"}, t = "start" => pc[j][t] # "error"
      PROVE  CauseInv(j)'
  <2>1. /\ pc'[j][t] = label /\ \A u \in Threads \ {t} : pc'[j][u] = pc[j][u]
        /\ draft'[j][t] = NoRow /\ \A u \in Threads \ {t} : draft'[j][u] = draft[j][u]
    BY <1>2 DEF EndUpdate, Goto, TypeOK
  <2>2. Cause(j) => Cause(j)'
    BY <1>2, <2>1 DEF Cause
  <2>3. QED
    BY <1>2, <2>1, <2>2, CauseKept
<1>3. CASE Start(j)
  <2>1. CASE Create(j)
    <3>1. /\ db'[j].status = "queued" /\ UNCHANGED <<draft, cancels, ctxDone>>
          /\ pc'[j]["start"] = "launch" /\ \A u \in Threads \ {"start"} : pc'[j][u] = pc[j][u]
          /\ pc[j]["start"] = "idle"
      BY <2>1 DEF Create, Goto, TypeOK, NoRow, worker, counts
    <3>2. db[j].status = "absent"
      BY <3>1 DEF JobInv, RowMatchesWorker
    <3>3. QED
      BY <3>1, <3>2 DEF CauseInv, RowHasCause, Cause, Terminal, Verdicts
  <2>2. CASE Launch(j)
    <3>1. /\ UNCHANGED <<db, draft, cancels, ctxDone>> /\ pc[j]["start"] = "launch"
          /\ \A u \in Threads \ {"start", "worker"} : pc'[j][u] = pc[j][u]
      BY <2>2 DEF Launch, TypeOK, rows, counts
    <3>2. QED
      BY <3>1, CauseKept DEF Cause
  <2>3. CASE LaunchFails(j)
    BY <2>3, <1>1 DEF LaunchFails, rows, worker, counts
  <2>4. CASE StartCancelled(j)
    BY <2>4, <1>2 DEF StartCancelled, worker, counts
  <2>5. CASE KillLaunched(j)
    BY <2>5, InterruptCause DEF KillLaunched
  <2>6. CASE ServerDies(j)
    BY <2>6, <1>2 DEF ServerDies, worker, counts
  <2>7. QED
    BY <1>3, <2>1, <2>2, <2>3, <2>4, <2>5, <2>6, UpdateCause DEF Start
<1>4. CASE Worker(j)
  <2>1. CASE InstallHandler(j)
    BY <2>1, <1>1 DEF InstallHandler, rows, worker, counts
  <2>2. CASE WorkerGet(j)
    <3>1. \E l \in {"exit", "cancelEarly", "claim"} : Goto(j, "worker", l)
      BY <2>2 DEF WorkerGet
    <3>2. QED
      BY <2>2, <3>1, <1>1 DEF WorkerGet, rows, worker, counts
  <2>3. CASE Report(j)
    BY <2>3, <1>1 DEF Report, rows, worker
  <2>4. CASE RunnerReturns(j)
    BY <2>4, <1>1 DEF RunnerReturns, rows, counts
  <2>5. CASE WorkerExits(j)
    BY <2>5, <1>1 DEF WorkerExits, rows, counts
  <2>6. CASE WorkerKilled(j)
    <3>1. /\ UNCHANGED <<db, cancels, ctxDone>>
          /\ draft'[j]["worker"] = NoRow /\ draft'[j]["progress"] = NoRow
          /\ \A u \in Threads \ {"worker", "progress"} :
                pc'[j][u] = pc[j][u] /\ draft'[j][u] = draft[j][u]
      BY <2>6 DEF WorkerKilled, TypeOK, counts
    <3>2. QED
      BY <3>1, CauseKept DEF Cause
  <2>7. CASE RunContextExpires(j)
    BY <2>7, CauseKept DEF RunContextExpires, rows, counts, Cause
  <2>8. QED
    BY <1>4, <2>1, <2>2, <2>3, <2>4, <2>5, <2>6, <2>7, UpdateCause DEF Worker, WorkerBoot
<1>5. CASE TimePasses(j)
  BY <1>5, CauseKept DEF TimePasses, rows, counts, Cause
<1>6. ASSUME NEW c \in Clients, Client(j, c) PROVE CauseInv(j)'
  <2>1. CASE GetReads(j, c)
    BY <2>1, <1>1 DEF GetReads, rows, worker, counts
  <2>2. CASE Reconcile(j, c)
    <3>1. \E l \in {"timeout", "gone", "idle"} : Goto(j, c, l)
      BY <2>2 DEF Reconcile
    <3>2. UNCHANGED <<db, draft, cancels, ctxDone>>
      BY <2>2 DEF Reconcile, rows, worker, counts
    <3>3. QED
      BY <3>1, <3>2, <1>1
  <2>3. CASE SignalWorker(j, c)
    BY <2>3, InterruptCause DEF SignalWorker
  <2>4. CASE CancelCalled(j, c)
    <3>1. /\ UNCHANGED <<db, draft, ctxDone>>
          /\ cancels'[j] > 0
          /\ \A u \in Threads \ {c} : pc'[j][u] = pc[j][u]
      BY <2>4, BoundsAssumption DEF CancelCalled, Goto, TypeOK, rows, worker
    <3>2. QED
      BY <3>1, CauseKept DEF Cause
  <2>5. CASE ClientAborts(j, c)
    BY <2>5, <1>2 DEF ClientAborts, worker
  <2>6. QED
    BY <1>6, <2>1, <2>2, <2>3, <2>4, <2>5, UpdateCause DEF Client, Polls
<1>7. QED
  BY <1>3, <1>4, <1>5, <1>6

(* What happens to one job is no reason to cancel another.                 *)
LEMMA CauseFrame ==
    ASSUME TypeOK, NEW j \in Jobs, NEW k \in Jobs \ {j}, CauseInv(k),
           Start(j) \/ Worker(j) \/ TimePasses(j) \/ \E c \in Clients : Client(j, c)
    PROVE  CauseInv(k)'
<1>1. Untouched(k)
  BY OneJobMoves
<1>2. cancels'[k] = cancels[k]
  <2>1. ASSUME NEW t, Update(j, t) PROVE cancels' = cancels
    BY <2>1 DEF Update, UpdateRead, UpdateWrite, UpdateConflict, UpdateGiveUp, counts
  <2>2. CASE Start(j)
    BY <2>1, <2>2 DEF Start, Create, Launch, LaunchFails, StartCancelled, KillLaunched, Interrupt,
       ServerDies, counts
  <2>3. CASE Worker(j) \/ TimePasses(j)
    BY <2>1, <2>3 DEF Worker, WorkerBoot, InstallHandler, WorkerGet, Report, RunnerReturns,
       WorkerExits, WorkerKilled, RunContextExpires, TimePasses, counts
  <2>4. CASE \E c \in Clients : Client(j, c)
    BY <2>1, <2>4 DEF Client, Polls, GetReads, Reconcile, SignalWorker, Interrupt, CancelCalled,
       ClientAborts, TypeOK, counts
  <2>5. QED
    BY <2>2, <2>3, <2>4
<1>3. ctxDone'[k] = ctxDone[k]
  <2>1. ASSUME NEW t, Update(j, t) PROVE ctxDone' = ctxDone
    BY <2>1 DEF Update, UpdateRead, UpdateWrite, UpdateConflict, UpdateGiveUp, worker
  <2>2. ASSUME NEW t, NEW label, Interrupt(j, t, label) PROVE ctxDone'[k] = ctxDone[k]
    BY <2>2 DEF Interrupt, TypeOK
  <2>3. CASE Start(j)
    BY <2>1, <2>2, <2>3 DEF Start, Create, Launch, LaunchFails, StartCancelled, KillLaunched,
       ServerDies, worker
  <2>4. CASE Worker(j) \/ TimePasses(j)
    BY <2>1, <2>4 DEF Worker, WorkerBoot, InstallHandler, WorkerGet, Report, RunnerReturns,
       WorkerExits, WorkerKilled, RunContextExpires, TimePasses, worker
  <2>5. CASE \E c \in Clients : Client(j, c)
    BY <2>1, <2>2, <2>5 DEF Client, Polls, GetReads, Reconcile, SignalWorker, CancelCalled,
       ClientAborts, worker
  <2>6. QED
    BY <2>3, <2>4, <2>5
<1>4. QED
  BY <1>1, <1>2, <1>3, CauseKept DEF Untouched, Cause

(* Nobody's job is cancelled unless a client asked or its Start failed.    *)
THEOREM CancelledHasCauseHolds == Spec => []CancelledHasCause
<1> DEFINE Inv == \A j \in Jobs : CauseInv(j)
<1>1. Init => Inv
  <2> SUFFICES ASSUME Init, NEW j \in Jobs PROVE CauseInv(j)
    OBVIOUS
  <2>1. /\ db[j] = NoRow /\ ~ctxDone[j]
        /\ \A t \in Threads : pc[j][t] = "idle" /\ draft[j][t] = NoRow
    BY DEF Init
  <2>2. NoRow.status = "absent"
    BY DEF NoRow
  <2>3. QED
    BY <2>1, <2>2, ThreadsType DEF CauseInv, RowHasCause
<1>2. IInv /\ Inv /\ [Next]_vars => Inv'
  <2> SUFFICES ASSUME IInv, Inv, [Next]_vars, NEW k \in Jobs PROVE CauseInv(k)'
    OBVIOUS
  <2>1. TypeOK /\ \A j \in Jobs : JobInv(j)
    BY DEF IInv
  <2>2. CASE Next
    <3>1. PICK j \in Jobs : Start(j) \/ Worker(j) \/ TimePasses(j) \/ \E c \in Clients : Client(j, c)
      BY <2>2 DEF Next
    <3>2. QED
      BY <2>1, <3>1, StepCause, CauseFrame
  <2>3. CASE UNCHANGED vars
    BY <2>3, CauseKept DEF vars, rows, worker, counts, Cause
  <2>4. QED
    BY <2>2, <2>3
<1>3. Inv => CancelledHasCause
  BY DEF CauseInv, RowHasCause, Cause, CancelledHasCause
<1>4. QED
  BY <1>1, <1>2, <1>3, InvariantHolds, PTL DEF Spec

-----------------------------------------------------------------------------
(* SessionLease and InteractiveDraft                                       *)

(* The generation, the timer and the callbacks stay in order.              *)
THEOREM LeaseInvariant == LeaseSpec => [](LeaseTypeOK /\ DeadlinesInOrder)
<1>1. LeaseInit => LeaseTypeOK /\ DeadlinesInOrder
  <2> SUFFICES ASSUME LeaseInit PROVE LeaseTypeOK /\ DeadlinesInOrder
    OBVIOUS
  <2>1. generation = 0 /\ timer = 0 /\ stopped = FALSE /\ queued = {} /\ event = "new"
    BY DEF LeaseInit
  <2>2. LeaseTypeOK
    <3>1. queued \subseteq Nat \ {0}
      BY <2>1
    <3>2. 0 \in Nat
      OBVIOUS
    <3>3. event \in Events /\ stopped \in BOOLEAN
      BY <2>1 DEF Events
    <3>4. QED
      BY <2>1, <3>1, <3>2, <3>3 DEF LeaseTypeOK
  <2>3. DeadlinesInOrder
    BY <2>1 DEF DeadlinesInOrder
  <2>4. QED
    BY <2>2, <2>3
<1>2. ASSUME LeaseTypeOK, DeadlinesInOrder, [LeaseNext]_leaseVars PROVE LeaseTypeOK' /\ DeadlinesInOrder'
  <2> USE DEF LeaseTypeOK, Events, DeadlinesInOrder, NextGeneration
  <2>1. CASE Arm
    BY <1>2, <2>1 DEF Arm
  <2>2. CASE ArmRejected
    BY <1>2, <2>2 DEF ArmRejected
  <2>3. CASE Pause
    BY <1>2, <2>3 DEF Pause
  <2>4. CASE Stop
    BY <1>2, <2>4 DEF Stop
  <2>5. CASE Fire
    BY <1>2, <2>5 DEF Fire
  <2>6. ASSUME NEW g \in queued, Expire(g) PROVE LeaseTypeOK' /\ DeadlinesInOrder'
    <3>1. CASE InForce(g)
      <4>1. /\ g = generation /\ queued' = queued \ {g} /\ timer' = 0 /\ stopped' = TRUE
            /\ generation' = generation + 1 /\ generation < MaxGeneration
            /\ event' = "expired"
        BY <2>6, <3>1 DEF Expire, InForce
      <4>2. LeaseTypeOK'
        BY <1>2, <4>1
      <4>3. DeadlinesInOrder'
        BY <1>2, <4>1
      <4>4. QED
        BY <4>2, <4>3
    <3>2. CASE ~InForce(g)
      BY <1>2, <2>6, <3>2 DEF Expire
    <3>3. QED
      BY <3>1, <3>2
  <2>7. CASE UNCHANGED leaseVars
    BY <1>2, <2>7 DEF leaseVars
  <2>8. QED
    BY <1>2, <2>1, <2>2, <2>3, <2>4, <2>5, <2>6, <2>7 DEF LeaseNext
<1>3. QED
  BY <1>1, <1>2, PTL DEF LeaseSpec

(* Every step of the lease is a step of the contract or leaves it alone:   *)
(* an accepted activity or a pause outlives every older deadline.          *)
THEOREM LeaseImplemented == LeaseSpec => ImplementsLease
<1>1. LeaseInit => Contract!Init
  BY DEF LeaseInit, Contract!Init, LeaseMode
<1>2. ASSUME LeaseTypeOK, DeadlinesInOrder, [LeaseNext]_leaseVars
      PROVE  [Contract!Next]_<<LeaseMode, event>>
  <2> USE DEF LeaseTypeOK, DeadlinesInOrder, NextGeneration, LeaseMode, Contract!Next
  <2>1. CASE Arm
    BY <1>2, <2>1 DEF Arm, Contract!Arm
  <2>2. CASE ArmRejected
    BY <1>2, <2>2 DEF ArmRejected, Contract!Reject
  <2>3. CASE Pause
    BY <1>2, <2>3 DEF Pause, Contract!Pause
  <2>4. CASE Stop
    BY <1>2, <2>4 DEF Stop, Contract!Stop
  <2>5. CASE Fire
    BY <1>2, <2>5 DEF Fire, Contract!Elapse
  <2>6. ASSUME NEW g \in queued, Expire(g) PROVE [Contract!Next]_<<LeaseMode, event>>
    <3>1. CASE InForce(g)
      BY <1>2, <2>6, <3>1 DEF Expire, InForce, Contract!Expire
    <3>2. CASE ~InForce(g)
      BY <1>2, <2>6, <3>2 DEF Expire, InForce
    <3>3. QED
      BY <3>1, <3>2
  <2>7. CASE UNCHANGED leaseVars
    BY <1>2, <2>7 DEF leaseVars
  <2>8. QED
    BY <1>2, <2>1, <2>2, <2>3, <2>4, <2>5, <2>6, <2>7 DEF LeaseNext
<1>3. QED
  BY <1>1, <1>2, LeaseInvariant, PTL DEF LeaseSpec, ImplementsLease, Contract!Spec

-----------------------------------------------------------------------------
DraftType == reservation \in [exists : BOOLEAN, version : Nat, submitVersion : Nat]

(* A fresh draft is newer than its last Enter.                             *)
DraftIsNewer == fresh => reservation.exists /\ reservation.submitVersion < reservation.version

DInv == DraftType /\ reservation.submitVersion <= reservation.version
                  /\ fresh \in BOOLEAN /\ DraftIsNewer

(* A draft with keystrokes after its last Enter outlives every late        *)
(* confirmation: ConfirmInteractiveSubmission spares a draft that was      *)
(* typed after the submission it confirms.                                 *)
THEOREM NewerDraftStaysHolds == DraftSpec => []NewerDraftStays
<1>0. NoReservation \in [exists : BOOLEAN, version : Nat, submitVersion : Nat]
      /\ NoReservation.submitVersion <= NoReservation.version
  BY DEF NoReservation
<1>1. DraftInit => DInv
  BY <1>0 DEF DraftInit, DInv, DraftType, DraftIsNewer
<1>2. DInv /\ [DraftNext]_draftVars => DInv'
  <2> SUFFICES ASSUME DInv, [DraftNext]_draftVars PROVE DInv'
    OBVIOUS
  <2>0. Edited \in [exists : BOOLEAN, version : Nat, submitVersion : Nat]
        /\ Edited.exists = TRUE
        /\ Edited.version = reservation.version + 1
        /\ Edited.submitVersion = reservation.submitVersion
    <3>1. reservation \in [exists : BOOLEAN, version : Nat, submitVersion : Nat]
      BY DEF DInv, DraftType
    <3>2. reservation.version + 1 \in Nat
      BY <3>1
    <3>3. Edited = [exists |-> TRUE, version |-> reservation.version + 1,
                    submitVersion |-> reservation.submitVersion]
      BY <3>1 DEF Edited
    <3> QED
      BY <3>1, <3>2, <3>3
  <2>1. CASE Type
    BY <2>0, <2>1 DEF Type, DInv, DraftType, DraftIsNewer
  <2>2. CASE Enter
    <3>1. reservation'.exists = TRUE /\ reservation'.version = reservation.version + 1
          /\ reservation'.submitVersion = reservation.version + 1 /\ DraftType'
      BY <2>0, <2>2 DEF Enter, DInv, DraftType
    <3>2. fresh' = FALSE
      BY <2>2 DEF Enter, DInv
    <3>3. reservation'.submitVersion <= reservation'.version
      BY <3>1 DEF DInv, DraftType
    <3> QED
      BY <3>1, <3>2, <3>3 DEF DInv, DraftIsNewer
  <2>3. CASE InterruptKey \/ ClearInteractiveDraft
    BY <1>0, <2>3 DEF InterruptKey, ClearInteractiveDraft, DInv, DraftType, DraftIsNewer
  <2>4. CASE ConfirmInteractiveSubmission
    <3>1. CASE reservation.submitVersion = reservation.version
      BY <1>0, <2>4, <3>1 DEF ConfirmInteractiveSubmission, DInv, DraftType, DraftIsNewer
    <3>2. CASE reservation.submitVersion # reservation.version
      BY <2>4, <3>2 DEF ConfirmInteractiveSubmission, DInv, DraftType, DraftIsNewer
    <3> QED
      BY <3>1, <3>2
  <2>5. CASE UNCHANGED draftVars
    BY <2>5 DEF draftVars, DInv, DraftType, DraftIsNewer
  <2> QED
    BY <2>1, <2>2, <2>3, <2>4, <2>5 DEF DraftNext
<1>3. DInv => NewerDraftStays
  BY DEF DInv, DraftIsNewer, NewerDraftStays
<1> QED
  BY <1>1, <1>2, <1>3, PTL DEF DraftSpec

-----------------------------------------------------------------------------
(* NativeReplies                                                           *)

ReplyType == /\ owners \in [Roots -> Claims]
             /\ durable \in [Roots -> Claims]
             /\ failure \in BOOLEAN
             /\ foreground \in [turn : ReplyTurns \cup {Nobody}, reply : SUBSET Roots]
             /\ published \in [foreground : SUBSET Roots, observer : SUBSET Roots]
             /\ spoiled \subseteq Roots

(* What the files say decides who may have published a root.  Memory and   *)
(* file agree, or Configure failed and memory knows nothing.  An           *)
(* unfinished claim belongs to the turn that runs.                         *)
Clean(r) ==
    /\ r \in published.observer => durable[r].owner = "observer"
    /\ r \in published.foreground => durable[r].owner = "foreground" /\ durable[r].committed
    /\ r \in foreground.reply => owners[r].owner = "foreground"
    /\ owners[r] = durable[r] \/ (failure /\ owners[r] = NoClaim)
    /\ ~failure => owners[r] = durable[r]
    /\ durable[r].owner = "foreground" => durable[r].turn # Nobody
    /\ Unfinished(owners[r]) => owners[r].turn = foreground.turn

ReplyInv == ReplyType /\ \A r \in Roots \ spoiled : Clean(r)

LEMMA ClaimTypes ==
    /\ NoClaim \in Claims
    /\ NoTurn \in [turn : ReplyTurns \cup {Nobody}, reply : SUBSET Roots]
    /\ NoClaim.owner = "none" /\ NoTurn.turn = Nobody /\ NoTurn.reply = {}
BY DEF NoClaim, Claims, NoTurn

(* What Settled and Restored return.                                       *)
LEMMA SettledClaim ==
    ASSUME NEW c \in Claims, NEW included
    PROVE  /\ Settled(c, included) \in Claims
           /\ included => Settled(c, included).owner = c.owner /\ Settled(c, included).committed
           /\ ~included => Settled(c, included).owner = "observer"
           /\ Settled(c, included).turn = c.turn
BY DEF Settled, Claims

LEMMA RestoredClaim ==
    ASSUME NEW c \in Claims
    PROVE  /\ Restored(c) \in Claims
           /\ ~Unfinished(Restored(c))
           /\ ~Unfinished(c) => Restored(c) = c
           /\ Restored(c).turn = c.turn
           /\ Restored(c).owner = "foreground" => c.owner = "foreground"
BY DEF Restored, Unfinished, Claims

LEMMA ForegroundReadsInv ==
    ASSUME ReplyInv, NEW q \in Roots, ForegroundReads(q) PROVE ReplyInv'
<1> USE DEF ReplyInv, ReplyType
<1>1. /\ foreground.turn \in ReplyTurns /\ foreground'.turn = foreground.turn
      /\ foreground' \in [turn : ReplyTurns \cup {Nobody}, reply : SUBSET Roots]
      /\ UNCHANGED <<failure, published>> /\ spoiled' \subseteq Roots /\ spoiled \subseteq spoiled'
  BY DEF ForegroundReads, Includes, Saved, NotSaved, Fails
<1>2. CASE UNCHANGED <<owners, durable>> /\ (q \in foreground'.reply /\ q \notin foreground.reply => q \in spoiled' \/ owners[q].owner = "foreground")
  <2>1. foreground'.reply \subseteq foreground.reply \cup {q}
    BY DEF ForegroundReads, Includes
  <2>2. ASSUME NEW r \in Roots \ spoiled' PROVE Clean(r)'
    BY <1>1, <1>2, <2>1, <2>2 DEF Clean, Unfinished
  <2> QED
    BY <1>1, <1>2, <2>2
<1>3. CASE /\ ~failure /\ ~Owned(q) /\ Saved(q, New("foreground", foreground.turn)) /\ Includes({q})
  <2> DEFINE c == New("foreground", foreground.turn)
  <2>1. c \in Claims /\ c.owner = "foreground" /\ ~c.committed /\ c.turn = foreground.turn
    BY <1>1 DEF New, Claims
  <2>2. /\ owners' = [owners EXCEPT ![q] = c] /\ durable' = [durable EXCEPT ![q] = c]
        /\ spoiled' = spoiled /\ foreground'.reply = foreground.reply \cup {q}
    BY <1>3 DEF Saved, Includes
  <2> HIDE DEF c
  <2>3. ReplyType'
    BY <1>1, <2>1, <2>2
  <2>4. ASSUME NEW r \in Roots \ spoiled' PROVE Clean(r)'
    <3>1. CASE r = q
      <4>1. owners'[r] = c /\ durable'[r] = c /\ Nobody # foreground.turn
        BY <1>1, <2>2, <3>1, NobodyIsNoTurn
      <4>2. r \notin published.observer /\ r \notin published.foreground
        BY <1>3, <2>2, <2>4, <3>1 DEF Clean, Owned
      <4> QED
        BY <1>1, <2>1, <4>1, <4>2 DEF Clean
    <3>2. CASE r # q
      BY <1>1, <2>2, <2>4, <3>2 DEF Clean, Unfinished
    <3> QED
      BY <3>1, <3>2
  <2> QED
    BY <2>3, <2>4
<1> QED
  BY <1>2, <1>3 DEF ForegroundReads, NotSaved, Fails, Includes

LEMMA ObserverReadsInv ==
    ASSUME ReplyInv, NEW q \in Roots, ObserverReads(q) PROVE ReplyInv'
<1> USE DEF ReplyInv, ReplyType
<1>1. /\ ~failure /\ UNCHANGED <<failure, foreground>>
      /\ spoiled' \subseteq Roots /\ spoiled \subseteq spoiled'
      /\ published' \in [foreground : SUBSET Roots, observer : SUBSET Roots]
      /\ published'.foreground = published.foreground
      /\ published'.observer \subseteq published.observer \cup {q}
  BY DEF ObserverReads, Saved, NotSaved, Fails
<1>2. CASE UNCHANGED <<owners, durable>> /\ (q \in published'.observer /\ q \notin published.observer => owners[q].owner = "observer")
  <2>1. ASSUME NEW r \in Roots \ spoiled' PROVE Clean(r)'
    BY <1>1, <1>2, <2>1 DEF Clean, Unfinished
  <2> QED
    BY <1>1, <1>2, <2>1
<1>3. CASE ~Owned(q) /\ Saved(q, New("observer", Nobody))
  <2> DEFINE c == New("observer", Nobody)
  <2>1. c \in Claims /\ c.owner = "observer"
    BY DEF New, Claims
  <2>2. /\ owners' = [owners EXCEPT ![q] = c] /\ durable' = [durable EXCEPT ![q] = c]
        /\ spoiled' = spoiled
    BY <1>3 DEF Saved
  <2> HIDE DEF c
  <2>3. ReplyType'
    BY <1>1, <2>1, <2>2
  <2>4. ASSUME NEW r \in Roots \ spoiled' PROVE Clean(r)'
    <3>1. CASE r = q
      <4>1. owners'[r] = c /\ durable'[r] = c
        BY <2>2, <3>1
      <4>2. r \notin published.foreground /\ r \notin foreground.reply
        BY <1>1, <1>3, <2>2, <2>4, <3>1 DEF Clean, Owned
      <4> QED
        BY <1>1, <2>1, <4>1, <4>2 DEF Clean, Unfinished
    <3>2. CASE r # q
      BY <1>1, <2>2, <2>4, <3>2 DEF Clean, Unfinished
    <3> QED
      BY <3>1, <3>2
  <2> QED
    BY <2>3, <2>4
<1> QED
  BY <1>2, <1>3 DEF ObserverReads, NotSaved, Fails

LEMMA SettleForegroundInv ==
    ASSUME ReplyInv, NEW accepted \in BOOLEAN, SettleForeground(accepted) PROVE ReplyInv'
<1> USE DEF ReplyInv, ReplyType
<1> DEFINE t == foreground.turn
           included == IF accepted THEN foreground.reply ELSE {}
           mine == {r \in Roots : owners[r].turn = t /\ Unfinished(owners[r])}
<1>1. PICK done \in SUBSET mine :
        /\ \/ done = mine /\ UNCHANGED <<spoiled, errors>>
           \/ done # mine /\ Fails(mine \ done)
        /\ owners'  = [r \in Roots |-> IF r \in done THEN Settled(owners[r], r \in included) ELSE owners[r]]
        /\ durable' = [r \in Roots |-> IF r \in done THEN owners'[r] ELSE durable[r]]
  BY DEF SettleForeground
<1>2. /\ published' = [published EXCEPT !.foreground = @ \cup included]
      /\ foreground' = NoTurn /\ UNCHANGED failure
  BY DEF SettleForeground
<1>3. /\ spoiled \subseteq spoiled' /\ spoiled' \subseteq Roots
      /\ \A r \in mine \ done : r \in spoiled'
  BY <1>1 DEF Fails
<1>4. included \subseteq foreground.reply
  OBVIOUS
<1>5. \A r \in Roots : Settled(owners[r], r \in included) \in Claims
  BY SettledClaim DEF ReplyType
<1>6. /\ published' \in [foreground : SUBSET Roots, observer : SUBSET Roots]
      /\ published'.observer = published.observer
      /\ published'.foreground = published.foreground \cup included
  BY <1>2, <1>4
<1>7. ReplyType'
  BY <1>1, <1>2, <1>3, <1>5, <1>6, ClaimTypes
<1>8. ASSUME NEW r \in Roots \ spoiled' PROVE Clean(r)'
  <2>0. Clean(r) /\ (r \in mine => r \in done) /\ owners[r] \in Claims
    BY <1>3, <1>8
  <2>1. CASE r \in done
    <3>1. /\ Unfinished(owners[r]) /\ owners[r] = durable[r]
          /\ owners[r].turn # Nobody /\ r \notin published.foreground /\ r \notin published.observer
      BY <2>0, <2>1, ClaimTypes DEF Clean, Unfinished
    <3>2. owners'[r] = Settled(owners[r], r \in included) /\ durable'[r] = owners'[r]
      BY <1>1, <2>1
    <3>3. /\ r \in included => owners'[r].owner = "foreground" /\ owners'[r].committed
          /\ r \notin included => owners'[r].owner = "observer"
          /\ owners'[r].turn = owners[r].turn
      <4> HIDE DEF included
      <4> QED
        BY <2>0, <3>1, <3>2 DEF Settled, Claims, Unfinished
    <3> HIDE DEF included
    <3> QED
      BY <1>2, <1>6, <3>1, <3>2, <3>3, ClaimTypes DEF Clean, Unfinished
  <2>2. CASE r \notin done
    <3>1. owners'[r] = owners[r] /\ durable'[r] = durable[r]
      BY <1>1, <2>2
    <3>2. ~Unfinished(owners[r])
      BY <2>0, <2>2 DEF Clean
    <3>3. r \in included => durable[r].owner = "foreground" /\ durable[r].committed
      BY <1>4, <2>0, <3>2, ClaimTypes DEF Clean, Unfinished
    <3> HIDE DEF included
    <3> QED
      BY <1>2, <1>6, <2>0, <3>1, <3>2, <3>3, ClaimTypes DEF Clean
  <2> QED
    BY <2>1, <2>2
<1> QED
  BY <1>7, <1>8

LEMMA RestartInv == ASSUME ReplyInv, Restart PROVE ReplyInv'
<1> USE DEF ReplyInv, ReplyType
<1>1. PICK read \in SUBSET Roots :
        /\ \/ read = Roots /\ failure' = FALSE /\ UNCHANGED <<spoiled, errors>>
           \/ /\ \E r \in Roots \ read : Unfinished(durable[r])
              /\ failure' = TRUE /\ Fails({})
        /\ owners'  = [r \in Roots |-> IF r \in read THEN Restored(durable[r]) ELSE NoClaim]
        /\ durable' = [r \in Roots |-> IF r \in read THEN Restored(durable[r]) ELSE durable[r]]
  BY DEF Restart
<1>2. spoiled' = spoiled /\ foreground' = NoTurn /\ published' = published
  BY <1>1 DEF Restart, Fails
<1>3. \A r \in Roots : Restored(durable[r]) \in Claims
  BY RestoredClaim
<1>4. ReplyType'
  BY <1>1, <1>2, <1>3, ClaimTypes
<1>5. ASSUME NEW r \in Roots \ spoiled' PROVE Clean(r)'
  <2>0. Clean(r) /\ durable[r] \in Claims
    BY <1>2, <1>5
  <2>1. durable[r].owner = "foreground" => durable[r].turn # Nobody
    BY <2>0, ClaimTypes DEF Clean
  <2>2. CASE r \in read
    <3>1. owners'[r] = Restored(durable[r]) /\ durable'[r] = Restored(durable[r])
      BY <1>1, <2>2
    <3> QED
      BY <1>2, <2>0, <2>1, <3>1, RestoredClaim, ClaimTypes DEF Clean, Unfinished
  <2>3. CASE r \notin read
    <3>1. owners'[r] = NoClaim /\ durable'[r] = durable[r] /\ failure'
      BY <1>1, <2>3
    <3> QED
      BY <1>2, <2>0, <3>1, ClaimTypes DEF Clean, Unfinished
  <2> QED
    BY <2>2, <2>3
<1> QED
  BY <1>4, <1>5

(* Through every claim, settlement, failed save and restart, the files say *)
(* who may have published a root that met no failed save.                  *)
THEOREM RepliesInvariant == ReplySpec => []ReplyInv
<1>1. ReplyInit => ReplyInv
  <2> SUFFICES ASSUME ReplyInit PROVE ReplyInv
    OBVIOUS
  <2>1. ReplyType
    BY ClaimTypes DEF ReplyInit, ReplyType
  <2>2. ASSUME NEW r \in Roots PROVE Clean(r)
    <3>1. /\ owners[r] = NoClaim /\ durable[r] = NoClaim /\ foreground.reply = {}
          /\ published.observer = {} /\ published.foreground = {}
      BY ClaimTypes DEF ReplyInit
    <3> QED
      BY <3>1, ClaimTypes DEF Clean, Unfinished
  <2> QED
    BY <2>1, <2>2 DEF ReplyInv
<1>2. ReplyInv /\ [ReplyNext]_replyVars => ReplyInv'
  <2> SUFFICES ASSUME ReplyInv, [ReplyNext]_replyVars PROVE ReplyInv'
    OBVIOUS
  <2>1. ASSUME NEW r \in Roots, ForegroundReads(r) \/ ObserverReads(r) PROVE ReplyInv'
    BY <2>1, ForegroundReadsInv, ObserverReadsInv
  <2>2. ASSUME NEW t \in ReplyTurns, BeginTurn(t) PROVE ReplyInv'
    BY <2>2, ClaimTypes DEF BeginTurn, ReplyInv, ReplyType, Clean, Unfinished
  <2>3. ASSUME NEW accepted \in BOOLEAN, SettleForeground(accepted) PROVE ReplyInv'
    BY <2>3, SettleForegroundInv
  <2>4. CASE Restart
    BY <2>4, RestartInv
  <2>5. CASE UNCHANGED replyVars
    BY <2>5 DEF replyVars, ReplyInv, ReplyType, Clean, Unfinished
  <2> QED
    BY <2>1, <2>2, <2>3, <2>4, <2>5 DEF ReplyNext
<1> QED
  BY <1>1, <1>2, PTL DEF ReplySpec

(* ForegroundMayPublish and the observer, who ask the same records, never  *)
(* both publish a root unless its records could not be saved.              *)
THEOREM OnePublisherHolds == ReplySpec => []OnePublisher
<1>1. ReplyInv => OnePublisher
  BY DEF ReplyInv, ReplyType, Clean, OnePublisher
<1> QED
  BY <1>1, RepliesInvariant, PTL

(* SettleForeground and Configure leave no root with a turn that is over.  *)
THEOREM ReleasedWithItsTurnHolds == ReplySpec => []ReleasedWithItsTurn
<1>1. ReplyInv => ReleasedWithItsTurn
  BY DEF ReplyInv, Clean, ReleasedWithItsTurn
<1> QED
  BY <1>1, RepliesInvariant, PTL

-----------------------------------------------------------------------------
(* ProjectFile                                                             *)

Files == [exists : BOOLEAN, text : BOOLEAN, block : BOOLEAN, created : BOOLEAN]
Contents == {"none", "user", "session"}

ProjectType == /\ file \in Files
               /\ rules \in Contents
               /\ held \in [Workers -> Nat]
               /\ owned \in [Workers -> [count : Nat, prior : Contents]]
               /\ user \in [text : BOOLEAN, rules : Contents]
               /\ strayed \in BOOLEAN
               /\ deaths \in Nat

(* The last session to release the block strips it.                        *)
BlockIsHeld == deaths = 0 /\ file.block => \E w \in Workers : held[w] > 0

(* Of the owned file, one process has the user's content, or the file has. *)
RulesAreKept ==
    ~strayed => /\ \A w \in Workers : owned[w].count > 0 =>
                       /\ owned[w].prior = user.rules
                       /\ \A v \in Workers : owned[v].count > 0 => v = w
                /\ (\A w \in Workers : owned[w].count = 0) => rules = user.rules

ProjectInv == ProjectType /\ file.text = user.text /\ BlockIsHeld /\ RulesAreKept

(* Writing and stripping the block leave the user's text alone.            *)
LEMMA BlockKeepsText ==
    ASSUME NEW f \in Files, NEW first \in BOOLEAN
    PROVE  /\ WriteBlock(f, first) \in Files /\ WriteBlock(f, first).text = f.text
           /\ StripBlock(f) \in Files /\ StripBlock(f).text = f.text /\ ~StripBlock(f).block
BY DEF WriteBlock, StripBlock, NoFile, Files

(* What a session does with the block.                                     *)
LEMMA SharedInv ==
    ASSUME ProjectInv, NEW w \in Workers, Acquire(w) \/ Release(w) \/ StripStale(w)
    PROVE  ProjectInv'
<1> USE DEF ProjectInv, ProjectType
<1>1. UNCHANGED <<rules, owned, user, strayed, deaths>>
  BY DEF Acquire, Release, StripStale
<1>2. RulesAreKept'
  BY <1>1 DEF RulesAreKept
<1>3. file' \in Files /\ file'.text = file.text
  BY BlockKeepsText DEF Acquire, Release, StripStale
<1>4. held' \in [Workers -> Nat]
  BY DEF Acquire, Release, StripStale
<1>5. BlockIsHeld'
  <2>1. CASE Acquire(w)
    <3>1. held'[w] > 0
      BY <2>1 DEF Acquire
    <3> QED
      BY <3>1 DEF BlockIsHeld
  <2>2. CASE Release(w)
    <3>1. CASE held[w] = 1
      BY <2>2, <3>1, BlockKeepsText DEF Release, BlockIsHeld
    <3>2. CASE held[w] # 1
      <4>1. held'[w] > 0
        BY <2>2, <3>2 DEF Release
      <4> QED
        BY <4>1 DEF BlockIsHeld
    <3> QED
      BY <3>1, <3>2
  <2>3. CASE StripStale(w)
    BY <2>3, BlockKeepsText DEF StripStale, BlockIsHeld
  <2> QED
    BY <2>1, <2>2, <2>3
<1> QED
  BY <1>1, <1>2, <1>3, <1>4, <1>5

(* What a session does with the file it owns.                              *)
LEMMA OwnedInv ==
    ASSUME ProjectInv, NEW w \in Workers, AcquireOwned(w) \/ ReleaseOwned(w)
    PROVE  ProjectInv'
<1> USE DEF ProjectInv, ProjectType
<1>1. UNCHANGED <<file, held, user, deaths>>
  BY DEF AcquireOwned, ReleaseOwned
<1>2. BlockIsHeld'
  BY <1>1 DEF BlockIsHeld
<1>3. CASE AcquireOwned(w)
  <2> DEFINE hold == [count |-> owned[w].count + 1, prior |-> IF owned[w].count = 0 THEN rules ELSE owned[w].prior]
  <2>1. /\ owned' = [owned EXCEPT ![w] = hold] /\ rules' = "session"
        /\ strayed' = (strayed \/ \E v \in Workers \ {w} : owned[v].count > 0)
    BY <1>3 DEF AcquireOwned
  <2>2. owned[w].count \in Nat /\ hold \in [count : Nat, prior : Contents] /\ hold.count > 0
    OBVIOUS
  <2>3. ProjectType'
    BY <1>1, <2>1, <2>2 DEF Contents
  <2>4. ASSUME ~strayed' PROVE hold.prior = user.rules /\ \A v \in Workers \ {w} : owned[v].count = 0
    <3>0. ~strayed /\ \A v \in Workers \ {w} : ~(owned[v].count > 0)
      BY <2>1, <2>4, Zenon
    <3>1. \A v \in Workers \ {w} : owned[v].count = 0
      BY <3>0
    <3>2. CASE owned[w].count = 0
      BY <3>0, <3>1, <3>2 DEF RulesAreKept
    <3>3. CASE owned[w].count # 0
      BY <2>2, <3>0, <3>3 DEF RulesAreKept
    <3> QED
      BY <3>1, <3>2, <3>3
  <2>5. RulesAreKept'
    <3>1. owned'[w] = hold /\ \A v \in Workers \ {w} : owned'[v] = owned[v]
      BY <2>1
    <3> HIDE DEF hold
    <3> QED
      BY <1>1, <2>2, <2>4, <3>1 DEF RulesAreKept
  <2> QED
    BY <1>1, <1>2, <2>3, <2>5 DEF ProjectInv
<1>4. CASE ReleaseOwned(w)
  <2>0. owned[w].count > 0 /\ UNCHANGED strayed
    BY <1>4 DEF ReleaseOwned
  <2>1. /\ owned' = [owned EXCEPT ![w] = IF @.count = 1 THEN NoHold ELSE [count |-> @.count - 1, prior |-> @.prior]]
        /\ rules' = IF owned[w].count = 1 THEN owned[w].prior ELSE rules
    BY <1>4 DEF ReleaseOwned
  <2>2. NoHold \in [count : Nat, prior : Contents] /\ NoHold.count = 0
    BY DEF NoHold, Contents
  <2>3. CASE owned[w].count = 1
    <3>1. owned'[w] = NoHold /\ rules' = owned[w].prior /\ \A v \in Workers \ {w} : owned'[v] = owned[v]
      BY <2>1, <2>3
    <3>2. ProjectType'
      BY <1>1, <2>0, <2>1, <2>2, <2>3
    <3>3. RulesAreKept'
      BY <1>1, <2>0, <2>1, <2>2, <3>1 DEF RulesAreKept
    <3> QED
      BY <1>1, <1>2, <3>2, <3>3
  <2>4. CASE owned[w].count # 1
    <3> DEFINE hold == [count |-> owned[w].count - 1, prior |-> owned[w].prior]
    <3>1. owned'[w] = hold /\ rules' = rules /\ \A v \in Workers \ {w} : owned'[v] = owned[v]
      BY <2>1, <2>4
    <3>2. hold \in [count : Nat, prior : Contents] /\ hold.count > 0 /\ hold.prior = owned[w].prior
      BY <2>0, <2>1, <2>4
    <3>3. ProjectType'
      BY <1>1, <2>0, <2>1, <2>4, <3>2
    <3> HIDE DEF hold
    <3>4. RulesAreKept'
      BY <1>1, <2>0, <2>1, <3>1, <3>2 DEF RulesAreKept
    <3> QED
      BY <1>1, <1>2, <3>3, <3>4
  <2> QED
    BY <2>3, <2>4
<1> QED
  BY <1>3, <1>4

(* A process dies without releasing anything.                              *)
LEMMA DiesInv == ASSUME ProjectInv, NEW w \in Workers, Dies(w) PROVE ProjectInv'
<1> USE DEF ProjectInv, ProjectType
<1>1. /\ UNCHANGED <<file, rules, user>> /\ deaths' \in Nat \ {0}
      /\ strayed' = (strayed \/ owned[w].count > 0)
      /\ owned' = [owned EXCEPT ![w] = NoHold] /\ held' = [held EXCEPT ![w] = 0]
  BY DEF Dies
<1>2. NoHold \in [count : Nat, prior : Contents] /\ NoHold.count = 0
  BY DEF NoHold, Contents
<1>3. ProjectType'
  BY <1>1, <1>2
<1>4. BlockIsHeld'
  BY <1>1 DEF BlockIsHeld
<1>5. RulesAreKept'
  <2>1. owned'[w] = NoHold /\ \A v \in Workers \ {w} : owned'[v] = owned[v]
    BY <1>1
  <2>2. ~strayed' => ~strayed /\ ~(owned[w].count > 0)
    BY <1>1, Zenon
  <2> QED
    BY <1>1, <1>2, <2>1, <2>2 DEF RulesAreKept
<1> QED
  BY <1>1, <1>3, <1>4, <1>5

(* The user edits the shared file.                                         *)
LEMMA UserEditsInv == ASSUME ProjectInv, UserEdits PROVE ProjectInv'
<1> USE DEF ProjectInv, ProjectType
<1>1. /\ UNCHANGED <<rules, held, owned, strayed, deaths>>
      /\ user' = [user EXCEPT !.text = file'.text]
  BY DEF UserEdits
<1>2. file' \in Files /\ (file'.block => file.block)
  <2>1. CASE file' = [file EXCEPT !.exists = TRUE, !.text = TRUE]
    BY <2>1 DEF Files
  <2>2. CASE file' = [file EXCEPT !.text = FALSE]
    BY <2>2 DEF Files
  <2>3. CASE file' = [file EXCEPT !.block = FALSE, !.created = FALSE]
    BY <2>3 DEF Files
  <2>4. CASE file' = NoFile
    BY <2>4 DEF Files, NoFile
  <2> QED
    BY <2>1, <2>2, <2>3, <2>4 DEF UserEdits
<1>3. file'.text \in BOOLEAN
  BY <1>2 DEF Files
<1>4. user' \in [text : BOOLEAN, rules : Contents] /\ user'.text = file'.text /\ user'.rules = user.rules
  BY <1>1, <1>3
<1>5. BlockIsHeld' /\ RulesAreKept'
  BY <1>1, <1>2, <1>4 DEF BlockIsHeld, RulesAreKept
<1> QED
  BY <1>1, <1>2, <1>4, <1>5

(* The user's text is never touched; the block goes with its last holder,  *)
(* and the owned file is restored unless a holder died or two processes    *)
(* held it.                                                                *)
THEOREM UsersContentStaysHolds == ProjectSpec => []UsersContentStays
<1>1. ProjectInit => ProjectInv
  <2> SUFFICES ASSUME ProjectInit PROVE ProjectInv
    OBVIOUS
  <2>1. PICK text \in BOOLEAN, content \in {"none", "user"} :
          /\ file = [NoFile EXCEPT !.exists = text, !.text = text]
          /\ rules = content
          /\ user = [text |-> text, rules |-> content]
    BY DEF ProjectInit
  <2>2. /\ file \in Files /\ file.text = text /\ ~file.block
        /\ user \in [text : BOOLEAN, rules : Contents] /\ user.text = text /\ user.rules = content
    BY <2>1 DEF NoFile, Files, Contents
  <2>3. /\ owned \in [Workers -> [count : Nat, prior : Contents]]
        /\ \A w \in Workers : owned[w].count = 0
    BY DEF ProjectInit, NoHold, Contents
  <2>4. held \in [Workers -> Nat] /\ strayed = FALSE /\ deaths = 0
    BY DEF ProjectInit
  <2> QED
    <3>1. ProjectType /\ file.text = user.text
      BY <2>1, <2>2, <2>3, <2>4 DEF ProjectType, Contents
    <3>2. BlockIsHeld
      BY <2>2 DEF BlockIsHeld
    <3>3. rules = user.rules
      BY <2>1, <2>2
    <3>4. \A w \in Workers : ~(owned[w].count > 0)
      BY <2>3
    <3>5. RulesAreKept
      BY <3>3, <3>4 DEF RulesAreKept
    <3> QED
      BY <3>1, <3>2, <3>5 DEF ProjectInv
<1>2. ProjectInv /\ [ProjectNext]_projectVars => ProjectInv'
  <2> SUFFICES ASSUME ProjectInv, [ProjectNext]_projectVars PROVE ProjectInv'
    OBVIOUS
  <2>1. CASE UNCHANGED projectVars
    BY <2>1 DEF projectVars, ProjectInv, ProjectType, BlockIsHeld, RulesAreKept
  <2>2. CASE UserEdits
    BY <2>2, UserEditsInv
  <2>3. ASSUME NEW w \in Workers,
               Acquire(w) \/ Release(w) \/ StripStale(w) \/ AcquireOwned(w) \/ ReleaseOwned(w) \/ Dies(w)
        PROVE  ProjectInv'
    BY <2>3, SharedInv, OwnedInv, DiesInv
  <2> QED
    BY <2>1, <2>2, <2>3 DEF ProjectNext
<1>3. ProjectInv => UsersContentStays
  BY DEF ProjectInv, ProjectType, BlockIsHeld, RulesAreKept, UsersContentStays, Unheld, OwnedCounts
<1> QED
  BY <1>1, <1>2, <1>3, PTL DEF ProjectSpec
=============================================================================
