# A verification project for llm-provider-mcp

TLA+ models of the stateful core of this repository: the durable job service
for delegated coding agents, the retained sessions of the CLI adapters on
terminals and on pipes, the broker that serialises what is typed into
terminals, and the ownership of native replies and projected files.  TLC checks
the models on small instances; TLAPS proves the properties that matter most
for every value of the constants.  Paths below are relative to the root of the
repository.

## 1. The system

The library gives one interface to HTTP model providers and to coding-agent
CLIs (Claude Code, Codex, Cursor, Pi, Agy, Muse).  The HTTP adapters turn one
call into one request and keep no state between calls.  The CLIs are long-lived
processes in tmux panes or behind pipes that outlive a call, are shared by
turns, by a person who types in the pane and by other server processes, and can
die at any time.  A delegation server runs such agents as durable background
jobs.  That is where the program is hard, and what is modelled.

| component | state it keeps | operations | correct when |
|---|---|---|---|
| job service, `pkg/codingagentjob` | a SQLite row per job with a version; a detached worker process and its pid; a goroutine that streams progress | `Manager.Start`, `Get` (with `reconcile`), `Cancel`, `RunWorker`, `Store.Update` | one verdict per job, never revised; a cancellation sticks; every job whose id was returned is concluded; nothing runs behind a completed, failed or cancelled row |
| delegation server, `pkg/codingagentmcp`, `cmd/llm-provider-mcp` | none of its own | JSON-RPC tools that call the manager; the worker's signal handler | as above |
| session lease, `adapters/internal/sessionlease` | timer, generation, stopped | `Arm`, `Pause`, `Stop`, the timer's callback | only the deadline in force ends a session, once; an ended lease takes no activity |
| owner registry, `adapters/internal/sessionregistry` | map from owner to session | `GetOrCreate`, `Get`, `Delete`, `DeleteIf` | a slot is removed only by who means that session |
| Codex terminal session, `adapters/codexcli` (tmux) | session objects with a mutex, an error, a lease, a terminal, a projected block in AGENTS.md; two registries | acquire, launch, turn, release, fail, close, expire, live input | a turn runs only in a usable session of its own scope; every terminal ends; input waits for the first prompt |
| Claude Code and Cursor terminal sessions, `adapters/claudecode`, `adapters/cursorcli` (tmux) | as Codex, without the projected block | as Codex; a session launched for something else is closed by owner and the acquisition starts over | as Codex, also for a change of tools |
| input broker, `pkg/tmuxinput` (broker, readiness) | a worker goroutine, a channel and two queues per terminal; readiness per terminal | `Do`, `MarkStarting`, `MarkReady`, `RemoveReadiness` | transactions on one terminal do not overlap, none is lost, order and priority hold, terminals do not disturb each other |
| interactive draft, `pkg/tmuxinput` (interactive) | per terminal a draft with two versions | note a key, note Enter, note an interrupt, confirm, clear | text a person typed stays reserved while it is in the composer |
| RPC sessions: Codex app-server and Pi | per owner a session with a turn mutex, a process, an idle timer, the active native turn and its steers | a call (launch or reuse, turn, follow-up turns), close by owner, the idle callback, steers, process death | a turn uses a process of its launch scope; no native turn runs unwatched; stale timers spare calls; processes end |
| Claude Agent SDK sessions, `adapters/claudecode` | a bridge process that is kept while Claude's own background tasks run, a drain that reads its lines, an idle timer, a waiter; the list of tasks shown | turn, park, take, drain, release, cancel, close | one reader of the lines; what a turn took nobody else closes; the end is told once; bridges end |
| Agy ACP sessions, `adapters/agycli` | per owner a process with a pump, a listener, a turn mutex; a watchdog per cancelled prompt | prompt (launch or reuse, turn, cancel), close, process death | one process per chat; a cancelled turn returns and disturbs no other; answers are complete and in order |
| Muse MSP sessions, `adapters/musecli` | a host process with a pump, a listener, the running turn and its steers, texts of turns Muse runs on its own | turn, steer, follow-up turn for missed steers, compaction, host requests | a steer is answered once; requests are answered; a turn sees its end |
| native replies, `pkg/nativereplies` | a claim per continuation root, in memory and in a file | `Configure`, `Claim`, `ForegroundMayPublish`, `SettleForeground` | a root has one publisher, also after a restart; none waits for a turn that is over |
| projected files, `pkg/projectfile` | marked blocks and owned files in the project, counts of holds per process | `Acquire`, `Release`, `StripStale`, `AcquireOwnedLeaseMode` | the user's content survives and comes back |
| native input, process shutdown, file locks, slots | receipts, process trees, lock files | submit and acknowledge; terminate; lock | not modelled |
| session transfer, native events, usage, pane capture | none or files | parsers and converters | not modelled |
| provider API, HTTP adapters, types | configuration | dispatch and translation | not modelled |

### How they interact

* The server calls `Manager.Start`, which creates the row, launches a worker
  process and stores its pid.  The worker claims the row, runs the provider and
  stores its verdict.  Server and worker share only the database and signals.
  `Get` concludes a job whose worker is dead or overdue.  All of them write
  through `Store.Update`: read, mutate, `UPDATE ... WHERE version = ?`, at most
  eight attempts.
* A Codex terminal turn gets its session from `codexPersistentRegistry`, waits for
  the session's mutex outside the registry's lock, and holds it to its end.
  Closing, expiry and the cancellation of the caller delete the owner's slot
  first and then wait for the same mutex.  Live input finds the terminal in a
  second registry, takes no session mutex, and renews the lease.
* Claude Code and Cursor use the same registries and lease in another order: to
  replace a session they unlock it, close whatever is registered for the owner
  and look again, where Codex closes the session it holds and keeps its slot.
* Everything typed into a terminal, the kill of a close included, goes through
  the broker.  A follow-up waits in the readiness gate until the turn that
  started the terminal has submitted its first prompt.
* The idle lease of a session is paused by a turn, armed by its release and
  by live input, and calls the close when it expires.
* On pipes a reader goroutine splits a process's output: responses go straight to
  the call that waits for them, everything else into a channel that a turn,
  a pump or a drain reads.  Closes act on the owner and do not take the turn
  mutex; idle callbacks do.
* The transcript reader of a foreground turn and the observer of the runtime both
  ask `nativereplies` before they publish a root.

### What is hard

Five goroutines in two processes write one row; any of them may act on a row it
read earlier.  A worker may be killed, or die before it installed its signal
handler.  A session may be closed, fail or be replaced while a turn waits for
it.  Timer callbacks that already fired cannot be cancelled.  A close has five
seconds to kill a terminal that another transaction is typing into.  A worker
goroutine retires while a request is on its way to it.  A response overtakes the
events before it, since the two travel on different ways.  A process is launched
while its session is closed, and ends while its last lines are still buffered.
`PROJECT.json` lists each hazard with its line and the properties that cover it.

## 2. Modules

| module | models | built on |
|---|---|---|
| `JobLifecycle` | abstract: the life of a job | |
| `CodingAgentJob` | `pkg/codingagentjob` | implements `JobLifecycle` |
| `Lease` | abstract: what a lease promises | |
| `SessionLease` | `sessionlease/lease.go` | implements `Lease` |
| `CodexSession` | Codex tmux sessions over registries, leases and readiness | uses the modes of `Lease` |
| `RetainedSession` | Claude Code's and Cursor's tmux sessions over registries and leases | |
| `InputBroker` | `tmuxinput/broker.go`, `readiness.go` | |
| `InteractiveDraft` | `tmuxinput/interactive.go` | |
| `RpcSession` | `codexcli_appserver*.go`, `picli_rpc*.go` | |
| `SdkSession` | `claudecode_sdk_session.go`, the SDK part of `claudecode_structured_adapter.go`, `claude_sdk_bridge.cjs` | |
| `AcpSession` | `agycli_acp.go`, `agycli_acp_wire.go` | |
| `MspSession` | `musecli_msp*.go` | |
| `NativeReplies` | `nativereplies/ownership.go` | |
| `ProjectFile` | `projectfile/projectfile.go` | |
| `Nothing` | the value `None` that the transports share | |
| `PartsProofs` | the proofs | `CodingAgentJob`, `SessionLease`, `InteractiveDraft`, `NativeReplies`, `ProjectFile` |
| `CodexSessionProofs`, `RetainedSessionProofs`, `InputBrokerProofs`, `RpcSessionProofs`, `SdkSessionProofs`, `AcpSessionProofs`, `MspSessionProofs` | the proofs | the module each is named after |
| `MCParts`, `MCTerminals`, `MCProgress`, `MCTransports`, `MCLive` | runs of several components | the modules they name |
| `MCCodexSession`, `MCInputBroker` | symmetry and model values | |

The modules `MCParts` to `MCLive` put components *side by side*: a variable
`component` chooses one in the initial state, only that one moves, and the
others keep one initial state.  The components of such a module share no state
in the code either, so nothing is lost, and their state spaces add up instead
of multiplying.  `MCParts` and `MCTerminals` take the modules with
the proofs and check the inductive invariants themselves; `MCTransports`, whose
runs are the largest, takes the bare models.  Each assumption of a theorem is
extended by one of the run modules, so that TLC evaluates it.

Definitions named `Faulty...` are one-bug variants of the definition after
them.  Nothing uses them; they document which bug a property would notice.

### CodingAgentJob

`db[j]` is the row, with the fields the properties tell apart: status, whether
a pid, a start time, a finish time and a result are stored, and the version.
`pc[j][t]` says where thread `t` (the start, the worker, its progress goroutine,
each client) is; a label that names a mutation (`claim`, `finish`, `timeout`,
...) is a `Store.Update` in progress.  `Update` has two steps: `UpdateRead`
(SELECT and mutation into `draft`) and `UpdateWrite` (the versioned UPDATE);
`UpdateConflict` starts over, up to `MaxAttempts`, then `UpdateGiveUp`.
`Mutate` holds the mutation functions one by one, with the early returns on
terminal rows where the code has them and without where it has not.  `proc`
is the operating system's view of the worker, `ctxDone` the worker's signal
context, `deadline` the run's timeout, `expired` the client's clock past start
plus timeout.  Environment: `WorkerKilled` at any point, `ServerDies` inside
Start, `ClientAborts`, contexts that end before a write.  A worker found
`alive` by `reconcile` may be dead one step later: `reconcile` reads the row
(`seen`), judges liveness, and only then updates.

### SessionLease and Lease

Every method holds the mutex throughout and is one action.  `Fire` is the Go
runtime starting the callback goroutine: from then on `Stop` of the timer does
nothing, which is why `queued` is a set of generations.  `Lease` has no
generation: a mode and the last answer.  The refinement maps `stopped` to
`dead`, a queued callback of the current generation to `due`, a running timer
to `armed`.

### CodexSession

One owner, since owners share no session.  A session object stands for a
newly allocated one once nobody refers to it (`Unreferenced`).  `pc[t]`, `at[t]`
say what a turn, a closer, a sender or a lease's callback does, and to which
session; each step is one operation on a registry, a lease, the mutex or tmux.
`proc[s]` distinguishes a terminal without the owner option (`bare`), with it
(`tagged`), one whose close gave up (`stranded`) and one whose launch failed after tmux had
started it (`lost`): the reaping before a launch kills the second and third
kind, nothing kills the last.  `gate[s]` is the terminal's readiness.  Lease
modes are those `SessionLease` was shown to implement, so the adapter is checked
over the promise and not over the timer.

### RetainedSession

The same for Claude Code and Cursor; `adapter` says which of the two a behaviour
follows.  `work[x]` says where a goroutine is, which session it holds, and what
the turn was called with; a close that a replacement calls goes on where `next`
says, with the acquisition.  `settings` are the tools and hooks that only Claude
Code compares.  Cursor's kill goes through the input broker and may give up
(`stranded`), Claude Code's does not.  A close by terminal is the close by owner
it delegates to.

### InputBroker

`lock` is the caller that blocks on a full channel with the broker's mutex held;
all other critical sections are single steps.  A worker wakes, collects all
that has arrived into two lists, executes one request and collects again;
its idle timer may fire at any time it waits (`TimerFires`), also with a request
in the channel, since a Go `select` chooses freely.  History variables record
the order of acceptance, what was begun, and how many normal transactions
overtook an interrupt.

### InteractiveDraft

`reservation` is the code's draft, beside the composer it speaks for, which is
external: whether it holds text, and how many native records of submitted
messages the caller has not confirmed.  An Enter may submit the text or only
select a menu item, as the comments of the code say.  The history variable
`fresh` records whether a key was typed since the last Enter.

### RpcSession

Codex app-server and Pi RPC have one design; `adapter` chooses, and the few
places where they differ (what a failed turn does to the session, steers and
follow-up turns) name it.  A session object has the turn mutex, its process,
the scope that process was launched for, the armed idle timer, the active
native turn and the steers that wait for their `userMessage` item.  Calls,
closers, idle callbacks and senders are goroutines with a place (`pc`) and what
they hold.  `process[p]` is the server's view: whether a native turn runs, how
many have run, what input it has queued and consumed.  Native turns that fail or
are interrupted drop queued input; a completed one leaves it to a follow-up
turn.  A sender registers its steer and writes the request (`Register`).  The
server takes or refuses the input whether or not the sender still waits
(`Steer`).  The sender hears it (`SteerAnswered`), or its context ends or the
connection closes first (`GiveUp`); on any error, also after the server took the
input, the steer is forgotten (`Forget`).  Labels: `taken` and `refused` are
answers on their way, `late` is a request whose sender has gone, `lost` is input
that was taken and forgotten.  Assumed of the server: it runs the follow-up
before the three seconds are over that the adapter waits for it, it accepts a
steer only for the turn that runs, and a `turn/start` that finds a turn nobody
follows is refused or ends that turn and starts the call's.  Launch-only calls
end where `Start` ends directly.

### SdkSession

One chat.  `kept` and `active` are the two maps of the adapter; `sdk[s]` has the
fields of a session and says where its drain, its close and its waiter are, and
which goroutines still mean to close or to kill it (`calls`): stale idle timers,
finished-task closes, released and cancelled turns.  `bridge[s]` is the
process, with the lines that are written and not read.  A turn takes the kept
session and decides (`TakeKept`, `Decide`), or launches one; at its answer it
parks, registers, evicts what was kept and starts the drain, in the order of
the code, and each may be overtaken.

### AcpSession

The slot of one chat and the session objects with process, pump and agent.  A
prompt looks the slot up outside the turn mutex, deletes and ends what it
cannot use, launches, registers, locks, prompts.  Chunks of an answer go
through the reader's queue, the pump's hand (the event with the listener it
read before) and the channel of the turn; the response does not.  What the
agent asks of the client is left out.

### MspSession

One session on a live host.  `native` numbers the host's turns, of the chat or
of its own (`Host`).  The pump has the hand of `AcpSession`; between turns
`handleIdleMuseMSP` answers requests, keeps texts and posts them at the end of
their turn.  A steer is on the list of the running turn, in the answer of
`turn/steer`, and in the journal, where the host rejects what it took and did
not read; the call waits for these verdicts and runs what was missed as one
more turn.  Assumed of the host: a rejection is in the journal before the two
seconds are over that the adapter waits for it, a turn that completes has written its
text, and one turn asks at most once.  Opening, replacing and closing the
session by owner follow the design of `AcpSession` and are left out, and so is
`InterruptMuseMSP`.

### NativeReplies

The claims of one provider session in memory (`owners`) and on disk
(`durable`).  The foreground turn, its reply and the observer belong to the
server: a turn begins, its reader asks for roots, and its settlement accepts or
refuses; the server runs one turn at a time and accepts a completion together
with its settlement.  Every save may fail, and a restart restores what can be
read: an unreadable unfinished claim fails `Configure` until the next restart.

### ProjectFile

One project folder with a shared file (user's text and marked block) and an
owned file.  Each process counts its own holds.  A call is one action: another
process or the user writing between its read and its write is not modelled.
Blank text counts as none.  The user does not edit the owned file while it is
held.

## 3. Runs

All bounds are named constants of the modules; the cfg files give the values.

| run | instance | distinct states | what it shows |
|---|---|---|---|
| `parts` | job: 1 job, 2 clients, 2 attempts; lease: 5 generations; draft: 4 versions; replies: 2 roots, 2 turns, 1 failed save, 2 restarts; project: 2 processes, 2 holds each, 2 edits, 1 death | 918 000 | `IInv`, one final verdict, sticking cancellations, quiet rows, result and verdict agree, `JobLifecycle` and `Lease` implemented; drafts stay reserved; one publisher per root; the user's content stays |
| `progress` | broker: first prompt, interrupt, follow-up, 2 workers, capacity 3; job: 1 job, 1 client | 313 000 | first prompt first; the broker's calls return; a returned job is concluded |
| `terminals` | Codex: 2 sessions, 2 scopes, 2 turns with 2 calls, by halves with closer and crash or with sender, and one call with everybody; Claude Code and Cursor: the same, the halves with 2 scopes or 2 settings; broker: 4 requests, 2 workers, capacity 2 | 2 400 000 | `Invariants`: the inductive invariants of the three proofs (section 4), with terminals accounted for, deadlines armed, input that waits for the first prompt and turns that own a session of their launch; the broker is exclusive, lossless and ordered, interrupts go first |
| `codex_liveness` | 2 sessions; five budgets of who calls: a turn with closer, sender and crash; by twos; 2 turns; 2 scopes | 91 000 | `TurnOwnsSession`, `ProcessIsAccountedFor`, `RetainedHasDeadline`, `FollowUpWaits` under their own names; closes return, terminals end, if turns do |
| `transports` | RPC: 2 sessions, 2 processes, 2 calls, callback, 2 scopes, 3 native turns, with a closer or with a sender (Codex); SDK: 1 session with an outside event and 2 changes of its tasks, or 2 sessions with 1, 2 turns; ACP: 2 sessions, 2 prompts, ender, 2 chunks; MSP: call, steer, 3 native turns | 1 880 000 | the safety of the four transports |
| `live` | the same four, smaller: no senders, 1 scope, 1 native turn; 1 SDK session; 2 prompts without ender; two calls on one Muse session with a turn of Muse's own, or with requests | 703 000 | RPC comes to rest, bridges end, stopped turns end, turns see their end |
| `codex_restore`, `broker_retire`, `rpc_orphan`, `sdk_dead_tasks`, `acp_watchdog`, `msp_requests` | small | | divergences, section 6 |

Why the bounds are enough.  Jobs share no state, so one job is the general case.
Two clients give every pair of racing Get and Cancel; the third and fourth
writers are the worker and its progress goroutine, the fifth is Start.
`MaxAttempts` is smaller than the code's eight, so the loss of an update for
conflicts happens within the bounds.  Five generations contain an arm, a fire,
a re-arm, a second fire, a pause and a stale callback in every order.  For
Codex, two turns, a closer and the expiry callbacks contain a session that is
waited for, torn down and replaced at once; an object that nobody refers to is
used again, so two objects also stand for longer successions of sessions.
Broker: capacity 2 is below the number of requests, so the channel fills; two
workers let one retire and be replaced.  In `progress` the capacity is the
number of requests, on purpose: with a full channel `CallsReturn` fails
(`broker_retire`).  RPC: two calls, two scopes and a closer give a session that
is replaced, closed in mid-launch and reused; three native turns give a turn,
the follow-up its late steer causes, and one after it.  A closer and a sender are
followed separately; the proofs have no such limit.  SDK: with one session
an outside event (crash, cancellation, release, close of the chat) may come
anywhere; with two, a turn evicts or refuses what the other left.  ACP: two
prompts launch at the same time or follow each other on one process, and two
chunks give a gap its chance.  MSP: three native turns are the call's, its
follow-up and one of Muse's own.  In `live` two calls share the Muse session, so the mutex and
the listener pass from one to the next while events of the first may be on
their way.  Each call needs a native turn, and a bound must not be what stops
it: `HostWakes` leaves a turn to every call that has none.  With two native turns a turn of
Muse's own therefore comes beside a call that needs no turn any more, and turns
of its own and requests are followed separately.  Replies and files: two roots, so that a
settlement can fail between them; two processes, so that holds overlap.
A run may end (a job is concluded, the bounded calls are used up), so deadlock
is not checked.  Symmetry is used in safety runs only, over interchangeable
model values; `terminals` and `transports` let components share model values so
that one permutation serves both.

### Fairness

* `CodingAgentJob!Fairness`: time passes; a launched worker reaches its claim and
  exits after its return; clients poll, as the server's instructions to them
  say.  Nothing is assumed of the provider, of Start, or of the worker's last
  write.
* `CodexSession!Fairness`: goroutines go on, since tmux commands and the waits
  for the composer and for the acceptance of a prompt have timeouts, and timers
  fire; strong fairness for taking a mutex, which Go hands over after 1 ms of
  starvation.  A running turn has no deadline by default: it ends when the CLI
  completes it, its caller cancels or its terminal is gone.  That turns end is
  therefore an assumption on the outside, and the last conjunct of the
  fairness.  No caller has to call and no terminal has to be killed.
* `InputBroker!Fairness`: callers, workers and the startup go on; strong
  fairness for a waiting worker with a request, since an idle timer it has just
  reset does not fire before the request is received for ever.  No context has
  to expire.
* `RpcSession!Fairness`: goroutines go on, a timer fires, a stopped process exits
  (it is killed), a call notices that its process is gone, and native turns and
  their follow-ups end.  A sender gets its answer or notices that its process is
gone.  No call, close, steer or crash has to come and no context has to end.
* `SdkSession!SdkFairness`: goroutines go on, timers fire, a bridge answers its turn
  and exits when it has nothing left to do or was stopped.  No background task
  has to end: a kept session is closed by its idle limit.
* `AcpSession!AcpFairness`: the watchdog's timer fires and a turn notices its
  response or the end of its process.  The agent need not answer.
* `MspSession!MspFairness`: the goroutines of the adapter go on; when a call has
  returned, one of those that wait gets the mutex (`LockNext`); a sender hears in
  the end; and the host writes and completes the turns it runs (unless it waits
  for the answer to a request), compacts, and rejects what it took and did not
  read.  No call has to begin.

In `progress` the fairness of a component is stated for the behaviours that
follow it; in `live` what is fair in one component is disabled while another
one is followed.

## 4. Proofs

`tlapm` proves, with no bound on the constants:

* `PartsProofs`, the job: `TypeCorrect`; `InvariantHolds` for `IInv`;
  `VerdictIsFinalHolds`, `CancelSticksHolds`, `RunningIsRecoverableHolds` (a
  running row names its worker and its start), `VerdictIsQuietHolds`,
  `ResultMatchesVerdictHolds`, `CancelledHasCauseHolds`; `LifecycleImplemented`.
* `PartsProofs`, the small parts: `LeaseInvariant`, `LeaseImplemented`;
  `NewerDraftStaysHolds`; `RepliesInvariant`, `OnePublisherHolds`,
  `ReleasedWithItsTurnHolds`; `UsersContentStaysHolds`.
* `CodexSessionProofs`: `CodexInvariant`, `CodexTypeCorrect`;
  `TurnOwnsSessionHolds`, `ProcessIsAccountedForHolds`,
  `RetainedHasDeadlineHolds`, `FollowUpWaitsHolds`.
* `RetainedSessionProofs`: `RetainedInvariant`, `RetainedTypeCorrect`;
  `RetainedTurnOwnsSession`, `RetainedTerminalAccountedFor`,
  `RetainedDeadlineHolds`.
* `InputBrokerProofs`: `BrokerInvariant`, `BrokerTypeCorrect`;
  `OneTransactionHolds`, `NothingLostHolds`, `InOrderHolds`,
  `InterruptsGoFirstHolds`, `FirstPromptFirstHolds`.
* `RpcSessionProofs`: `RpcInvariant`, `RpcTypeCorrect`; `TurnUsesItsScopeHolds`,
  `NoUnobservedTurnHolds`, `ExpirySparesCallsHolds`,
  `OnlyLateLaunchesEscapeHolds`.
* `SdkSessionProofs`: `SdkInvariant`, `SdkTypeCorrect`; `OneReaderHolds`,
  `ClosedOnceHolds`, `TakenIsLeftAloneHolds`.
* `AcpSessionProofs`: `AcpInvariant`, `AcpTypeCorrect`;
  `OnlyOverwrittenLeakHolds`, `AnswersHaveNoGapsHolds`.
* `MspSessionProofs`: `MspInvariant`, `MspTypeCorrect`;
  `SteersAreAnsweredHolds`.

So each safety invariant, action property and refinement that the passing runs
check is a theorem.  `Invariants` of `MCTerminals` states, of the component a
behaviour follows, what `BrokerInvariant`, `CodexInvariant` and
`RetainedInvariant` prove of it.

### Assumptions

They use named assumptions about the constants and no other.  For the job: the
bounds are natural numbers, clients are named unlike the other threads.  For
the terminals and the RPC sessions (`ThreadsAssumption`, `BudgetsAssumption`,
`ConstantsFit`, `RpcAssumption`): a goroutine has one role, `None` is none of
them and no object, budgets and bounds are of their types.  For the broker
(`RequestsAssumption`, `CapacityAssumption`): a request has a terminal, the
channel a place.  For the other transports (`SdkAssumption`, `AcpAssumption`,
`MspAssumption`): `None` is no session, process, turn, call or native turn,
`Host` is no call, bounds are of their types; how many there are of each is left
open.  For the replies: `Nobody` is no turn.  For the lease, drafts
and files none.  `ConstantsFit` is the hypothesis of each theorem of
`RetainedSessionProofs`, since that module is only instantiated; `MCTerminals`
assumes it of its instance, so that TLC evaluates it there.

### The job service

None of the properties is inductive: that a worker's blind `claim` cannot
revive a terminal row depends on where everybody else is.  `IInv` adds, for
each job, which labels each thread can have (`EarlyLabels` and their kind), that
a worker thread beyond its exit label has a process, what the row says while
the worker has not claimed it or is running it, what a client that concluded
"gone" or "overdue" knows that later steps cannot undo, and the link to
optimistic concurrency: *a draft whose version is still current is the mutation
of the committed row*.  So every successful write is a mutation of the current
row, `MutateLegal` says what a mutation may change where its caller may be, and
each action property is then a fact about one legal write.  The proof has one
lemma per group of actions (`UpdateReadInv`, `UpdateWriteInv`, `StartInv`, ...).
The refinement follows from the same legal writes, each of which is a step of
`JobLifecycle` or a stutter.  `CancelledHasCause` has an invariant of its own on
top of these (`CauseInv`): a request to cancel, in the row, in a draft or at a
client's label, goes back to a client's Cancel, and a worker whose context is done has
such a cause or was failed by its Start, unless the row is concluded already.

### The lease, replies and files

For the lease, `DeadlinesInOrder` is inductive with the types: queued callbacks
are at most the current generation and never that of the running timer, so a
callback in force is the one the abstract lease calls due.

For the replies, *what the files say decides who may have published*: for a
root that met no failed save, the observer has published it only if the file
names the observer, the foreground only if the file has its committed claim, and
memory and file agree unless `Configure` failed and memory knows nothing
(`Clean`).  A restart reads the files, so it cannot change the answer; an
unfinished claim belongs to the turn that runs.

For the files, the shared file keeps the user's text because writing and
stripping a block do (`BlockKeepsText`).  For the owned file, as long as no
holder died and no two processes held it at once, *at most one process has a
hold, and it has the user's content*; without a hold the file has it.

### The terminals

`TurnOwnsSession` is a statement about labels until one knows that the mutex
agrees with them: `MutexInv` says that a session's mutex has a goroutine as
holder exactly if that goroutine refers to the session and is at a label of
`Holding`.  So two goroutines cannot both act on a session, and what a turn
knows of the session it launches (`OwnsInv`, `NewInv`) or undoes (`FailedInv`)
is changed by itself alone.

That terminals are accounted for and deadlines armed rests on how a session
leaves the registry.  An expiry callback runs on a dead lease (`ExpiryInv`); a
registered session with a dead lease has somebody on the way to delete it
(`DeadInv`); who is beyond the deletion no longer has the registered session
(`ForgottenInv`).  A session in launch is registered, or whoever took it from
the registry waits for its mutex and will find the terminal the launch is about
to make (`NewInv`): this is what makes a close in mid-launch harmless here,
where in the RPC transports it is not.  For input, a terminal in startup has its gate shut
(`GateInv`).

In Claude Code and Cursor a replacement closes by owner whatever is registered
by then and starts over, so the session a turn ends up with need not be the one
it looked at first; `OwnsInv` says that it fits all the same, in its settings
too where the adapter compares them.  `ForgottenInv` holds from the wait for the
mutex on.  The rest of the argument is the same.

### The broker

The table and the workers agree (`TableInv`): a worker that is not gone is the
worker of the terminal it serves.  This alone gives `OneTransaction`.
`AcceptedInv` follows each request: accepted once, then in the channel or a list
of its terminal's worker, then begun, then answered.  It survives a retirement
because a worker only retires with empty lists (`ListsInv`) and, checked under the
mutex, an empty channel, and a caller that blocks on the channel holds that
mutex (`LockInv`).  Order: every list is sorted by arrival, what was collected
arrived before what is in the channel (`OrderInv`), and what is begun is closed
downwards for each terminal and priority (`BegunInOrder`).  An interrupt that
was overtaken once is in its worker's list before the worker chooses again
(`OvertakenInv`), so it is not overtaken twice.  `GateInv` keeps the readiness
gate shut until the first prompt is in or the startup was given up.

### The RPC sessions

The turn mutex has the holder it says (`MutexInv`, as above), and a session's
process was launched for the session's scope and belongs to no other session
(`RpcInv`).  A process that was just launched belongs to one call and no
session (`LaunchInv`), and a call that works has its session's process and scope
(`CallInv`): together they give `TurnUsesItsScope`.  `ExpirySparesCalls` follows, as an
idle callback closes under the same mutex a call uses the process under.

`NoUnobservedTurn` is the hard one.  A native turn ends on the server before
the call hears of it; in between a sender that still holds the old turn's number
may have its steer queued, and the server then starts a turn of its own that
nobody asked for.  If the sender gave up, its steer is forgotten and that turn
may run unwatched (section 6).  The property says that this is the only
way: every turn that runs is followed, unless an *earlier* turn took input whose
sender gave up (`GaveUp`).  The invariant therefore speaks of what *will* run: a
process of Codex that runs a turn, **or has queued input it will run**, has a
call that follows it, or a sender gave up (`ObservedInv`, with `LostBefore` for
a turn that runs and `Lost` for one that will).  To keep it when that call decides whether
it may leave, one needs that whatever is queued is also registered as a steer
of the call's session, or was given up (`FollowInv`), that a steer on its way is registered there
or will be refused, the process having gone on to another turn (`SteerInv`), and
that a failed turn leaves nothing queued (`QueueInv`).  A loss stays a loss and
only moves further into the past (`LossIsKept`, `LossComesBefore`).  Most steps leave the
followers alone (`SparesFollowers`), for which `SparedFollowers` proves the two
last conjuncts once; the proof has one lemma per action, `CallKeeps` to
`ExitKeeps`, among them `SteerKeeps`, `AnsweredKeeps` and `GiveUpKeeps`.

`OnlyLateLaunchesEscape` is about single steps from the invariant: a step that
closes or unregisters a session hands over its process to who closes it
(`HandsKept`, `MostStepsKeepHands` and a lemma for each action that hands one
over), and only `Attach` can put a process into a session nobody will look at.

### The Agent SDK sessions

Three questions decide who may touch a session: which turn uses it, who reads
its lines, and who has begun to end it.  `UserInv`: one turn uses a session, and
as long as it does nobody can take that session from `kept`, since the turn took
it out and puts it back only when it is done.  `DrainInv`: the drain is off
while a turn reads, and *due*, which is to say ordered and not started, from the
end of the reading until the one turn that parked the session starts it; with
`UserInv` that is `OneReader`.  `CloseInv`: whoever sets `closing` first tells
the end, whether it is `closeIfParked` or the waiter of the process; the others
find it set.  `TakenIsLeftAlone` is about the step that closes: it needs a parked
session (`OnlyParkedClose`), and taking one clears `parked` under the same
mutex.  A session that was not launched yet is nobody's (`FreshInv`), so a
launch cannot inherit a reader or a turn.

### The agy sessions

`OnlyOverwrittenLeak` is inductive once it is known where processes can be
(`PlaceInv`): who puts a process into the slot, takes it from there or ends it
refers to one that was launched, so that a process is in the slot, in the hands
of a prompt or of a close, or was overwritten by a second launch.

For `AnswersHaveNoGaps` the invariant follows every chunk: what the agent wrote
for a turn is first in the answer, then in the turn's channel, then in the
pump's hand, then in the reader's queue, numbered without a gap from one to the
next (`FlowInv`).  The four places are filled by three goroutines; that nothing
is inserted in the wrong place rests on `ListenerInv` (a running turn of a live
process is its listener, and the agent works for the listener) and on
`OriginInv` (what the pump holds for the listener it read before goes to the
turn it was written for, or to none that counts).  When the turn does not run
any more, only answer and channel count: the end may be missing, the middle may not.
Lemmas on `Numbered` say what `Append`, `Tail` and concatenation do to numbered
queues.

### The Muse session

`SteersAreAnswered` says that a message `turn/steer` took is read once, by a turn
of its call, whose text is in the call's answer.  `HolderInv` reduces the session to one
busy call, the one the pump listens for.  `SendInv`, `ListInv`, `ReadInv` and
`TrackInv` follow a message: it was sent to the turn of one call; it is on that
call's list until its sender hears no or the call has its verdict; it is read by
that turn, or was rejected and is the input of one later turn of the call; and
it is never forgotten unless the wait for verdicts ended early or the call
failed.  The rest is about the text: `AnswerInv` says that the text of every
earlier turn of a call is in its answer.  To keep it at the end of a turn one
has to know that the end never overtakes the text, although both pass the
events, the pump's hand and the channel of the call: `FlowInv`
says for each of the three that an end stands behind the text, or the text is
ahead in the next one.  `EventInv` excludes events of turns that have not begun.
The invariant was checked by TLC on small instances before it was proved.

### Only model-checked

The liveness properties, since liveness under fairness is out of the prover's
reach: `CallsReturn`, `ReturnedJobsSettle`, `CloseCompletes`, `TerminalsEnd`,
`ComesToRest`, `BridgesEnd`, `StoppedTurnsEnd`, `TurnsReturn`.

## 5. What is not modelled

Texts (prompts, progress, error messages), request validation, the doctor
report; process-id reuse; the Windows process check, which always answers
"alive" so that only the timeout concludes a job there; a worker that hangs
before its claim, which no timeout covers (the job's fairness excludes it).  In
the Codex terminal adapter: clean-up at process exit, the contents of the pane,
the reader of the transcript, several owners.  In the broker: a terminal name
used again.  In the RPC sessions: the interrupt request, compaction of a thread
(`compactAppThread`), questions, durable acknowledgements of steers, Pi's live
input.  In the SDK sessions: permissions, `StopTask` of a single task, usage.
In the Claude Code and Cursor terminals: sessions that are not retained, the
first prompt's gate (modelled for Codex), liveness (checked for Codex only),
retained replies.  The terminal transports of Pi, Agy and Muse have designs of
their own and are left out.  Other components are listed in `PROJECT.json` with the
reason.

Some steps are simpler than the code, without a property that could tell:

* A Codex turn whose context ended while it replaced a session of another scope
  returns; `CodexSession!CloseKills` also lets it go on to `acquire`.
* The release of a retained session has a branch for a retention of zero or
  less (`codexcli_interactive_adapter.go` 329-332, `cursorcli_tmux.go` 760-763).
  The retention is the constant `TmuxKillDelay`, 30 s
  (`tmux_lifecycle.go` 23), so that branch does not run and is left out.
* When an agy process ends (`AcpSession!Finish`), what its pump holds is dropped at
  once; in the code it may still reach a turn that is about to return.
* An error as the response to a prompt (`AcpSession!Complete`) is one of the outcomes
  of a response; its text is left out.
* A `turn/start` of Muse that fails closes the session in the same step
  (`MspSession!StartTurn`); in the code `session/leave` may take up to five
  seconds in between (`musecli_msp.go` 523-525), with the mutex held.

What is left is large in lines and small in protocol: the HTTP adapters, parsers
and launch helpers translate one value into another and keep nothing.

Hazards seen in the code that no module reaches: a durable acknowledgement of
Codex is not scoped to the steer it answers (`codexcli_appserver_events.go`
237-243); a full event queue ends an RPC process (`codexcli_appserver_rpc.go`
135, `musecli_msp_rpc.go` 154); `Broker.Do` may return its context's error for a
transaction that is written all the same (`broker.go` 137), so that a caller
that retries writes twice; a failed write of a prompt to an SDK bridge waits for
the exit of a process whose output nobody reads
(`claudecode_structured_adapter.go` 430-433).

## 6. Divergences found

Each of the first six is a run that TLC finds violated; `PROJECT.json` quotes
the lines.

* `codex_restore`: the teardown of a failed turn does not restore AGENTS.md.
* `broker_retire`: a caller blocks on the full channel of a terminal with the
  broker's mutex held.  All other callers wait with it; if the terminal's worker
  is just retiring it needs the mutex too, and nothing moves until a context
  ends.
* `rpc_orphan`: a close that comes while a call launches its process forgets the
  session before it has a process; nothing ends that process afterwards.
  `OnlyLateLaunchesEscape` says that this is the only way to lose one, which is
  proved for any number of processes.
* `sdk_dead_tasks`: the waiter of a dead bridge clears the list of tasks before
  the bridge's buffered lines are read, and these lines show them again.
* `acp_watchdog`: the timer of a cancelled prompt to agy is bound to the process
  and not to the prompt; it kills the process under the chat's next turn.
* `msp_requests`: a request of a turn that Muse runs on its own is dropped during
  a compaction, or left in the channel of a call that returns.

Further, without a run of their own:

* "Protocol/read errors must not leave an unobserved native turn running"
  (`codexcli_appserver_events.go` 22) and "Do not let cancellation leave an
  unobserved turn executing" (83): the code keeps this for the call, not for a
  sender.  `SendCodexAppServerInput` forgets its steer on any error
  (`codexcli_appserver.go` 513-523), also when its context ended after the
  request was written (`codexcli_appserver_rpc.go` 81-82).  A call starts a turn, a
  sender registers a steer, the server queues it, the sender gives up, the turn
  completes, the call finds no steer and returns
  (`codexcli_appserver_events.go` 262-277), and the server runs the input as a
  turn that nobody follows.  `NoUnobservedTurn` says that this is the only way,
  which is proved for any number of calls, senders and processes.
* A turn that waits for the mutex of a Codex terminal session under teardown gets
  it, because teardown never sets `initErr`
  (`acquireCodexInteractiveSession`: "Holding a pointer keeps the session
  valid"); so does one in Claude Code and Cursor.
* `CloseClaudeCodeInteractiveSessionByTmux` "closes the persistent Claude Code
  interactive session whose backing tmux session matches"
  (`claudecode_interactive_adapter.go` 2880): it looks that session up and then
  closes by owner, so that it may close the one that replaced it in between; the
  same holds in Cursor.  A turn that replaces a session to change its tools and
  finds another turn's session of the same tools in its place goes on in that
  session's transcript, not in the one it meant to resume (2805).
* After an Enter that selected a menu item, confirming an older message drops
  the reservation of the newer draft; `NewerDraftStays` is the part of the
  promise that is kept: a draft with a key after its last Enter stays.
* A close between the start of tmux and its owner option lets a second launch of
  the owner start beside the first, since its reaping cannot see that terminal;
  a turn that is replaced in the registry while it runs loses its terminal to
  the reaping of its successor.
* Events of agy go "in order, never dropped" (`agycli_acp_wire.go` 16-18), but
  the response does not wait for them: an answer may lack its end, which the
  next answer then begins with or nobody gets.  `AnswersHaveNoGaps` is the part
  that is kept.  Two prompts that launch at the same time leave one process
  behind; `OnlyOverwrittenLeak` says that this is the only way.  Both are proved
  for any number of prompts, processes and chunks.
* The text of a cancelled Muse turn that comes after its call is posted to the
  reply handler as a reply of "a turn it ran on its own".
* `ForegroundMayPublish` answers true on an error: a root that met a failed save
  may be published twice; `OnePublisher` excepts these.
* A process that dies, or overlaps with another, while it holds an owned file
  leaves the session's content to be taken for the user's; `UsersContentStays`
  excepts these.  A block that two processes hold is stripped by the first to
  finish.

## 7. Plan

1. (done) The job service with its abstract life cycle and proofs; the lease;
   Codex, Claude Code and Cursor terminal sessions; the input broker; drafts; native replies and
   projected files with proofs; RPC, SDK, ACP and MSP sessions.
2. Steers and receipts (`nativeinput`, Codex durable acknowledgements) composed
   with `RpcSession` and `InputBroker`.
3. An abstract session on a pipe (one process per chat, turns one at a time,
   a close ends it) implemented by `RpcSession` and `AcpSession` outside the
   launches their runs except.
4. `procshutdown`, `filelock`, `slotfs`: ordered shutdown and locks.
5. (done) Proofs about `CodexSession`, `RetainedSession`, `InputBroker`,
   `RpcSession`, and `CancelledHasCause`.
6. (done) Proofs about the other three transports: `SdkSession`, `AcpSession`,
   `MspSession`.
