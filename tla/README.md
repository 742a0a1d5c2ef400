# TLA+ specifications of the conductor and its workers

This directory specifies, model-checks and in part proves the system in this
repository: a *conductor* that takes CloudWatch alarms and Jira tickets from an
SQS queue, decides which of them deserve an agent, and launches one Fargate
*worker* per decision. The worker runs Codex on a task, publishes the outcome on
GitHub and uploads its results. A deployment replaces the conductor without
losing the workers it still waits for.

File names below are relative to `src/conductor-and-worker/` unless they say
otherwise; `go-conductor/` is `conductor/go-conductor/` and `go-worker/` is
`worker/go-worker/` there.

## 1. The system

| Component | Source | State it keeps | Operations |
|---|---|---|---|
| Scheduler | `go-conductor/go-db-scheduler/scheduler.go`, schema in `atlas/database.sql`, queries in `db-sqlc/queries/` | the SQLite tables `sqs_alarm_messages` and `sqs_ticket_messages` | insert an alarm, insert a ticket, `RunScheduling` |
| SQS poller | `go-conductor/poll.go` | one delivery offered on an unbuffered channel | receive, parse, offer, delete |
| Poll loop and process life | `go-conductor/main.go`, `use-sheduler.go` | the message and the decisions in hand | insert and schedule, delete, spawn each decision; start, drain, exit |
| Worker registry | `go-conductor/serverside-worker.go` | a map of workers, each with its events, under mutexes | register, record an event, remove, count |
| gRPC handlers | `go-conductor/grpcserver.go`, `file-transfer.go` | none of their own | handshake, work files, upload, shutdown, Codex error |
| Launcher | `go-conductor/prepare-spawn.go`, `spawnfunctions.go`, `spawn_fargate.go` | none; ECS keeps the task | prepare files, `RunTask` |
| Shutdown gate | `go-conductor/shutdowngate.go` | the request file and the signal file | watch, stop polling, count, signal |
| File transfer | `sharedlib/file_transfer_chunks.go`, both `file-transfer.go` | indices and byte counts of one stream | stat, read and send, receive, finish |
| Worker main program | `go-worker/worker.go`, `worker-runtime.go`, `worker-files-github.go` | files under `/worker/work`, attempt count | turns, validation, correction, publication, upload, reports |
| Reading of JSON | `go-conductor/go-db-scheduler/scheduler.go`, `go-worker/extract-transcript-text.go` | none | classify a body, flatten a description, extract a transcript |
| Deployment | `src/infra/ad-hoc/debian-agent-operation/inside/deploy-conductor.sh`, `conductor/docker-entrypoint.sh`, `src/.github/workflows/conductor.yml` | container state, two files | request, wait, recreate, verify |

How they interact. The poller goroutine hands deliveries to the poll loop over a
channel. The loop calls the scheduler (an insert that commits by itself, then a
transaction), deletes the message, and calls `spawnWorker`, which registers the
worker *before* it asks ECS for a task. The worker calls back over gRPC; each
handler runs on a goroutine of its own and shares the registry with the loop
and with the gate. The gate polls a file that the deployment script writes,
cancels the context of poller and loop, and ends the process when the registry
holds no active worker. The script waits for a second file and for the container
to stop, then recreates the container.

What is hard:

* **No transaction spans the steps.** Insert, decision, delete and launch are
  four effects in three systems. SQS delivers again, statements fail, and the
  process may end between any two of them.
* **Chains are recomputed from all of history** at every pass, by a sort and a
  walk, while new rows extend chains that were decided long ago.
* **Four kinds of goroutine share the registry**, and the gate decides on a
  snapshot of it that the process may end.
* **ECS may start a task and still report an error**, and a worker may die
  without a word.
* **Streams break, files change, reads are short**, and the end of an archive
  is recognised by an exact byte count.
* **The agent is arbitrary**: a turn may leave any combination of files, or
  undo what was valid, and the program must still say something true at the end.
* **Two scripts may run at once**, and each reads two facts at two moments; a
  conductor that starts overwrites the file in which it is asked to stop.
* **A restart forgets the registry** while the tasks of its workers run on.
* **A Go map has no order**, and the text of a ticket is collected from one, twice.

What makes each component correct: the scheduler starts at most one agent per
alarm chain and per stored ticket, and never marks a row without a decision; the
poll loop never loses a message; the gate never ends the process under a launched
worker; a received archive is the whole file; no decision is given to two agents,
and a ticket that nothing happens to has one that ends; the text an agent is
given is all of the ticket's; what a worker reports agrees with what it has
published; a deployment does not remove a conductor that has work.

The hazards, each with its line, are listed in `PROJECT.json` with the properties
aimed at them.

## 2. The modules

| Module | Models | Built on |
|---|---|---|
| `AlarmChains` | what an alarm chain is, declaratively, and what a pass decides | |
| `Scheduler` | the two tables and `RunScheduling` as one atomic step: the abstract specification of the scheduler | `AlarmChains` |
| `SchedulingPass` | `RunScheduling` statement by statement: sort, walk, flush, ticket loop, commit, rollback | extends `Scheduler`, whose step it replaces by its own, and implements it |
| `Pipeline` | queue, poller, poll loop, drain, exit, crash, restart, around the scheduler | uses the actions of `Scheduler` as the steps on the tables, and instantiates its theorems |
| `Registry` | registry, `spawnWorker`, handlers, workers' calls, gate, ECS, crash and restart of the process | implements the conductor of `Deploy` and, for each worker, `WorkerCalls` |
| `Conductor` | `Pipeline` and `Registry` as one process | extends `Registry`, instantiates `Pipeline` with its theorems, implements both |
| `Texts` | classification of bodies, flattening of descriptions, extraction of transcripts | |
| `FileTransfer` | one chunked transfer over one gRPC stream | implements the upload of `WorkerCalls` |
| `WorkerCalls` | the calls between one worker and its conductor, as both sides take them to be: their order and how each may fail | |
| `WorkerRun` | the start of the worker's container, its main program and the agent it drives | implements `WorkerCalls` |
| `Deploy` | deployment scripts, container, database file, signal files, the conductor's gate | |
| `SchedulerProofs`, `SchedulingPassProofs`, `PipelineProofs`, `ConductorProofs`, `TextsProofs`, `FileTransferProofs`, `WorkerRunProofs`, `DeployProofs` | theorems about the module of the same name, `ConductorProofs` also about `Registry` | that module; `SchedulingPassProofs` also on `SchedulerProofs` |

`MC*.tla` and `MC*.cfg` instantiate them for TLC. Operators whose names carry a
suffix after an underscore and whose comment begins with *Wrong:* are defective
variants of the definition that follows them; no specification uses them. Each
property has one that breaks it (`PROJECT.json`, `mutants`), which shows that
the property is not vacuous.

### Correspondence with the code

**AlarmChains.** The code sorts rows by account, time and id and starts a new
chain when `alarmRowsAreChained` fails between neighbours. Here `Before` is that
order within an account and `Linked` the test. A chain `Starts` at a row to
which no earlier row links; because `Linked` only depends on the distance in
time, this is the row at which the walk flushes. `SameChain` says no chain
starts between two rows. `ToDecide` is `processAlarmChain`: the newest row of
every chain with no decided row. Time is counted in units of `chainWindow /
Window`, so distances below, at and above the window all occur.

**Scheduler.** `alarms` and `tickets` are sets of records with the columns that
control anything (id, account, `received_at`, `is_chained`,
`returned_spawn_decision_for_chained_set`). Region, alarm name and raw JSON do
not influence a decision and are left out. `issued` is a history variable: every
decision returned, with the number of its pass. A pass that fails is a stutter.
`Tick` moves the host's clock, by which `received_at` is stamped
(`CURRENT_TIMESTAMP`), on by one or back by at most `StepBack`.

**SchedulingPass.** `pc`, `rows`, `current` and `decisions` are the local
variables of `RunScheduling` and `scheduleAlarms`; `txAlarms` and `txTickets` are
what the open transaction sees; the operators on them are the five statements
of the generated queries. `SortKey` is the string order of the account
numbers. `Rollback` may happen at any point: it is any failing statement,
the failing commit, and the death of the process.

**Pipeline.** `queue` is external: a message is unsent, visible, in flight or
gone. `IsIncident`, `IsTicket` and `Unsupported` are the three shapes that
`parseIncomingMessageForScheduling` tells apart. `loop` holds the stage of the poll loop, the delivery with a flag saying
whether its receipt handle is still the current one, and the decisions it has yet
to launch. `Recheck` is the guard after the select (`main.go`, 178-186);
`CallSucceeds` and `CallFails` model the polling context: after the drain has
cancelled it no call that takes it succeeds. `DeleteFails` continues to the spawn
block, as the code does. The steps on the tables are the actions of `Scheduler`
themselves; that the code does these, statement by statement, is shown by
`SchedulingPass`. `Exit` does not wait for the poll loop, as `main` does
not. A restart keeps the tables and the queue, nothing else.

**Registry.** Each action is one critical section or one external call; only
`Register` takes two together, the insertion of the worker and the record of
`spawnStarted`: the code never reads that event, so nothing happens otherwise
when something comes between the two.
`spawn` is the position inside `spawnWorker`; `task` is the ECS task together
with the program in it; `BuildRunTaskInputFails` is a launch that ends before ECS
is asked, `LaunchFails` one that ECS may have served all the same; `rpc` is the handler serving the worker. The two-part end
of a worker (record `safelyEnded`, then remove) is two actions, as in
`registerWorkerSafelyEnded` and `waitFargateAndDeregister`. Transfers are two
actions, the check and the end, since the registry may change in between. `Crash` ends the process anywhere; `Start`
empties the registry and leaves the tasks of the old process, from then on
`orphans`, to find that out. Worker names are drawn at random from a space large enough to be taken as distinct.

**Conductor.** The phase of `Pipeline` is read off the process and the cancelled
context of `Registry`. `RegisterFor` is the step in which the loop hands a
decision to `spawnWorker`; `job` remembers which. While `spawn` is not idle the
loop is inside the call. The gate's cancellation, the exit, a crash and a
restart are joint steps. Disturbances of the pipeline (`upsets`) and of the
registry (`faults`) are counted apart.

**Texts.** A document is a function from places to values: the place of a value
is the sequence of positions on the way to it from the root. The two recursive
functions of the code are a state machine whose step is the body of one call;
`agenda` holds the places whose calls are still owed, the next one first, so that
walking a value replaces its place by those of the values in it. An array
gives them in its own order, a Go map in any (`Orders`). `Insert` is
`parseIncomingMessageForScheduling` up to the flattening, `Store` the insert or the
refusal of a ticket without text, `Schedule` the second reading by the pass,
`Decide` its end. The text of a ticket is known by the places of its parts (`text`
the one when it was stored, `textParts` the one being collected), since trimming
and joining touch white space at the ends of parts only. The transcript
(`output`) is a sequence of characters, since its line ends matter; a word is known
by the place and the position it has in the document. What the walks should find
(`TicketTexts`, `EarlierItem`, `Earlier`, `OwnOf`, `WordsOf`) is said by places and
walks nothing. `MCTexts` converts nested JSON values into documents.

**FileTransfer.** The content of a file is the sequence of its byte positions,
so that a lost, repeated or misplaced byte shows. A file that changes changes its
length: one that is overwritten in place, or truncated and filled up again, looks
like the original, as it does to the code, which compares lengths. `SendChunk(n)` allows short
reads; `final` is the code's comparison of two counts. Upload is modelled with
its reply; the download uses the same two functions. `CallStage` is what
the main program and the registry see of the upload: under way, answered, or dead.

**WorkerRun.** The container starts with the commands of `entrypoint.sh`, which
fetch two secrets and log in twice; under `set -e` the first failure ends it. The agent is the nondeterministic choice of `artifacts'` in
`Turn`. Artifacts are abstracted to what the program tests; `repo = "none"` stands for
each of the errors `findOptionalWorkerGitRepo` swallows (no repository, several,
an unreadable directory). `Call` is a call
with its two outcomes; where a failed call may have taken effect all the same
(`gh`, the upload, the reports), both are possible. Reading logs and copying
the ending report into the upload directory are part of the steps they belong to.

**WorkerCalls.** `stage` is how far the worker has come, `delivered` and `told`
what the conductor has stored and recorded. The worker's side reads `stage` off
its program counter, the conductor's side off the task's state and the recorded
events; what neither sees of the other (that an upload was stored although it
returned an error, that an end was recorded and its answer lost) are choices of
the calls.

**Deploy.** The script is line by line a program counter; both files and
`docker inspect` are read in steps of their own. A container that starts makes
the database unless the file is there (`CreateDatabase`), may be killed half-way
(`BootInterrupted`), and serves only after `CheckDatabase` has compared the schema.
`ComposeFails` is a failing `docker compose`, before or after it has removed the
old container; under `set -e` it ends the script. `overlapped`, `wanted` and `asked` are
history variables: `wanted` says whether a request was written since the container
was made, `asked` says whether a script has asked, whether it did so
before the conductor had initialised the request file (`InitializeRequestFile`
overwrites what it finds), and whether a gate has passed since. The registry is
reduced to `busy`: some task has been asked for and its worker has not ended. That
this is what the registry does is `GateImplementsDeploy`.

## 3. What is checked

| Run | Instance | Question | Distinct states |
|---|---|---|---|
| `scheduler` | 2 accounts, 4 alarms, 1 ticket, clock 0-3, window 1, 3 passes | one decision per chain and ticket, decisions are apart, passes are idempotent; the inductive invariant | 223 823 |
| `scheduling_pass` | 2 accounts, 3 alarms, 1 ticket, clock 0-3 that may be set back by 2, 2 passes | the walk implements the one-step pass; marks and decisions agree in mid-transaction; a decided row's chain has a decision even with such a clock | 479 708 |
| `pipeline` | 1 alarm, 1 ticket, 1 unsupported message, up to 4 rows of each table, clock 0-1, window 0, 2 disturbances | no message is lost; no more passes lose their decisions than there were disturbances; every message is decided in the end | 130 731 |
| `conductor` | 1 ticket, up to 3 rows, 2 workers, 2 faults and 1 disturbance, request or crash | gate, phantom workers, unknown tasks; each worker is served as `WorkerCalls` says; one agent per row, one agent per undisturbed message and one more per disturbance; a drain completes, a ticket is served; the gate implements that of `Deploy`; the inductive invariant of `Registry` | 344 423 |
| `conductor_alarm` | 1 alarm, up to 3 rows, clock 0-2, window 1, 2 workers, 1 fault and 2 disturbances | agents of one account are about alarms more than the window apart, while redelivery extends or leaves a chain whose agent runs | 1 376 610 |
| `texts` | 1 953 documents of up to three levels, each as ticket and as transcript; all combinations of the fields that classify a body | every text once, arrays keep order, both readings agree, the transcript is in order | 100 590 |
| `file_transfer` | files of 1-5 bytes, chunks of 2, 2 disturbances | accepted means whole; undisturbed transfers succeed and both ends stop; an upload is one call of `WorkerCalls` | 13 777 |
| `worker_run` | 4 attempts | what is published and reported fits what the agent left; the calls are those of `WorkerCalls`; the inductive invariant; the worker ends | 2 672 |
| `worker_run_false` | same | *violated*: see findings | |
| `deploy` | 2 scripts, 3 deployments, 1 crash | signals are fresh; no conductor drains that nobody asked to; requests stand, and a script that waits forever waits for agents; deployments that do not overlap replace no busy conductor; the inductive invariant | 23 224 |
| `deploy_overlap`, `deploy_signal` | 2 scripts, 1 script | *violated*: see findings | |

Why these bounds are enough to be interesting:

* *Window 1, clock up to 3*: distances 0, 1 (equal to the window) and 2 or more
  (over it) occur; four alarms form one long chain, two chains, or a chain that
  later rows extend after its decision, next to a second account. Three passes:
  one that decides, one that must not decide again, and one after an extension.
* *Clock set back*: a later row may sort before rows decided in an earlier pass
  and merge two chains. `OneDecisionPerChain` does not hold then (two decided
  chains may become one), which is why its theorem assumes a monotone clock;
  `DecidedChainHasDecision` does.
* *Window 0, clock up to 1 in the pipeline*: rows of the same moment chain and
  rows of different moments do not, so a redelivered alarm may join the chain of
  its first row or start another.
* *Two disturbances of the pipeline*: a crash or failed statement plus a
  redelivery is enough for a stale receipt handle, a second row for one message,
  and a decision that is never launched. The bounds on rows and passes are large
  enough that they are never what stops a retry.
* *Two workers*: one being launched while the other is in a handler, ending, or
  an orphan of the process before, and the gate counts; two are also what it
  takes for two agents on one decision. With one disturbance the ticket is
  delivered, stored and decided twice. The theorems are for any number.
* *One alarm in two windows* (`conductor_alarm`): its redeliveries are stored at
  moments 0 to 2, within the window of an earlier row, exactly at it, and beyond,
  so that one burst and two bursts both come with an agent of the first launched.
* *Documents of three levels*: a document of an array of paragraphs of texts is
  what Jira sends; pairs of every shape (empty, blank, an escape, a word, a line)
  in arrays and in objects with and without a text of their own are all below.
* *Five bytes in chunks of two*: files of a multiple of the chunk size, with a
  short last chunk, and shorter than a chunk; files that grow or shrink between
  stat and the last read.
* *Four attempts* is the code's own constant.
* *Two scripts, three deployments*: one script may run twice, so that it meets
  what an earlier, timed-out deployment left behind.

`CHECK_DEADLOCK FALSE` is set everywhere because every model may really stop:
the bounds are reached, the process has exited, the transfer is over.

### Fairness

* `Pipeline`: the loop's goroutine runs (weak fairness of its steps, failures
  excluded unless the drain forces them); the visibility timeout passes when
  nobody works on a message; SQS eventually hands out each visible message
  (strong fairness, since the poller asks only while its hands are free); a
  conductor that is down is started again. The last is an assumption about people:
  compose has `restart: "no"`, and a deployment or an operator starts it. Nothing
  is assumed of the end of a drain: the gate's loop (`shutdowngate.go`, 47-51)
  waits as long as a worker is registered, forever if one has died silently,
  and polling has stopped by then. `EveryMessageDecided` therefore speaks of the
  behaviours in which the conductor is not left draining for good.
* `Conductor`: the same, and of `Registry` that the goroutines, the gate's among
  them, run, `RunTask`
  returns, ECS answers, and a worker that lives makes its calls. Deaths and
  errors are never required. `DrainCompletes` excuses a drain only if a worker has
  died silently, so it does not bear on what happens then; `EveryTicketServed` is about
  a ticket that no disturbance touches.
* `FileTransfer`: reads and the stream make progress. `WorkerRun`: calls return;
  the code bounds the number of turns and not the time one takes.
* `Deploy`: a container that starts goes on, the gate reads the file every five
  seconds, the script goes on. That agents end and that the script's deadline
  passes are *not* assumed: `WaitsOnlyForAgents` says that what keeps a script
  waiting can then only be an agent (or a request made too early, which
  `main.go`, 71-76, overwrites, or a second script).

## 4. What is proved

Every module of the conductor, the two readers of JSON, the transfer, the worker
and the deployment have proofs, each for every value of the constants. They rest on the named
assumptions of the modules and on nothing else unless a table says so.

### Scheduler

`SchedulerProofs`, for every window, every set of accounts and bodies and every
bound:

| Theorem | Says | Assumes |
|---|---|---|
| `TypeCorrect` | `Spec => []TypeOK` | |
| `TicketInvariance` | `Spec => []TInv` | |
| `TicketsAreDecidedOnce` | `Spec => []TicketDecidedOnce` | |
| `RowsAreDecidedOnce` | `Spec => []OneDecisionPerRow` | |
| `AtLeastOnce` | `Spec => []DecidedChainHasDecision` | |
| `Idempotent` | `Spec => PassIsIdempotent` | |
| `Invariance` | `Spec => []IInv` | `StepBack = 0` |
| `AtMostOnce` | `Spec => []OneDecisionPerChain` | `StepBack = 0` |
| `Apart` | `Spec => []DecisionsAreApart` | `StepBack = 0` |

All also rest on the named assumptions of the modules (the bounds and the window
are natural numbers, descriptions are texts).

The argument. None of the alarm properties is inductive, and they come in two
layers.

Whatever the clock does (`AnyClockInv`):

* `IdsAreKeys`: an id names one row, and `NewId` is fresh.
* `DecidedIsChained`, `DecisionsAreAboutDecidedRows`: a decision is about a row
  that exists and is marked, so a row with a decision is not decided again.
* `EverySetHasEnds`: every non-empty set of rows of an account has a first and a
  last row in the order of the sort, so that every chain has a row
  `processAlarmChain` can pick. Over finite sets this is an induction; stated as
  an invariant it needs none, since the ends of a set with one more row are the
  old ones or that row (`NewRowKeepsEnds`).
* `DecidedChainHasDecision`: a row that is inserted among old ones may join
  chains and never separates one (`NewRowSeparatesNone`), so a chain with a
  decision stays, perhaps as a part of a longer one.

With a clock that is never set back (`AlarmInv`), in addition:

* `RowsInOrder`: order by id agrees with order by time. A new row is therefore
  the last of its account in the sort, so that inserting it changes no chain
  among the old rows (`NewRowLeavesChains`); this is where a clock that is set
  back breaks the proof, and the property.
* `RowsNotInFuture`: needed for the row above to be the last.

`SameChainIsEquivalence`, `LinkedRowsShareChain` and `NewestIsUnique` are the
facts about chains themselves, and `MarkingLeavesChains` says that writing flags
changes no chain. `TInv` is the corresponding invariant for tickets, which does
not mention the clock. `IInv`, which TLC checks in the run `scheduler`, is
`AlarmInv` and `TInv`.

`SchedulingPassProofs`, about the pass statement by statement:

| Theorem | Says | Assumes |
|---|---|---|
| `WalkFollowsChains` | `PassSpec => []PassInv` | |
| `WalkImplementsScheduler` | `PassSpec => ImplementsScheduler` | |
| `MarksGoWithDecisions` | `PassSpec => []CollectedDecisionsAreMarked` | |
| `WalkDecidesEveryChain` | `PassSpec => []DecidedChainHasDecision` | |
| `WalkDecidesNoChainTwice` | `PassSpec => []OneDecisionPerChain` | `StepBack = 0` |

The argument. The query's result is *some* sequence that lists the table in the
order of the sort (`SortKey` is one-to-one); how a sort finds it is not needed.
Between two rows of the walk (`WalkInv`): `current` and the rows still to come
are adjacent pieces of that sequence, `current` is a chain from its first row
on, every chain is wholly before, wholly in, or after `current`, and the open
transaction differs from the table by `MarkAll` of the chains before. A row that
does not link to the last one starts a chain (`BrokenLinkStartsChain`: what lies
between them in the sort is nothing), one that does link starts none
(`LinkedRowStartsNone`), so a flush sees exactly one whole chain
(`CompleteChainIsChain`) and decides it as `ToDecide` does
(`CompleteChainIsDecided`, `FlushHandlesChain`). After the last flush the walk has
done `MarkAll` of the whole table; the ticket loop has a similar, simpler
invariant (`TicketsInv`), and the commit is then `RunScheduling`
(`CommitIsRunScheduling`) while every other step leaves the tables alone. The
theorems of `SchedulerProofs` carry over to the detailed pass.

### Registry

In `ConductorProofs`, for every set of workers and every number of faults:

| Theorem | Says |
|---|---|
| `Invariance` | `Spec => []IInv` |
| `TypeCorrect` | `Spec => []TypeOK` |
| `GateWaits` | `Spec => []GateWaitsForWorkers` |
| `OrderOfEvents` | `Spec => []EventsComeInOrder` |
| `NoPhantoms` | `Spec => []NoPhantomWorker` |
| `UnknownTasks` | `Spec => []UnknownTaskOnlyAfterFailedLaunch` |
| `ProtocolKept` | `Spec => WorkersKeepProtocol` |
| `GateRefines` | `Spec => GateImplementsDeploy` |

That the gate waits is not inductive: the gate counts before it writes the
signal, and a worker might be launched in between. `GateInv` says why none is:
polling has stopped before the count, so the only worker that may still come is
the one in `spawn`, and it is in the registry, hence counted, from `Register`
on. `RegistryInv` ties the registry to the launches, `SpawnInv` describes the
worker in hand, and `WorkerInv` reads off a worker's events how far its calls
have come; the last is needed because a handler may outlive the worker's entry.
`WorkerInv` also ties handlers to tasks (a
worker in an upload is at work, and no live worker outside its last call has an
end recorded), so that the two critical sections of an end cannot be entered
twice and `ProtocolKept` holds of each worker, whoever else takes steps
(`OthersDoNotCall`, `CallsKeepProtocol`). A part of the order in `WorkersKeepProtocol`
and `EventsComeInOrder` is the worker's own (`Calls`, which `WorkerRun` shows its
program to keep): the conductor itself checks the handshake, and does not refuse an
upload from a worker that has not asked for its files. Its share is that no
restart, removal or overlap of handlers makes two stories of one worker. For `GateRefines` each step is matched with one of
`Deploy`'s conductor: a launch with `SpawnWorker`, the end of the last worker
with `WorkersEnd`, the gate's steps with its gate's (`WorkOnlyByLaunch`,
`OtherStepsLeaveTheGate`).

### Pipeline and Conductor

| Theorem | Says |
|---|---|
| `PipelineProofs!SchedulerHolds` | `Spec => []` of the guarantees of `Scheduler` about the pipeline's tables |
| `PipelineProofs!Invariance` | `Spec => []IInv` |
| `PipelineProofs!NothingLost` | `Spec => []NoMessageLost` |
| `PipelineProofs!LossesAreBounded` | `Spec => [](LossInv /\ LossesNeedDisturbances)` |
| `PipelineProofs!StoresAreBounded` | `Spec => []StoreInv` |
| `ConductorProofs!ImplementsPipeline` | `ConductorSpec => P!Spec` |
| `ConductorProofs!ImplementsRegistry` | `ConductorSpec => Spec` |
| `ConductorProofs!PipelineHolds` | `ConductorSpec => []PipelineFacts`: what is proved of `Pipeline` and `Scheduler` |
| `ConductorProofs!RegistryHolds` | `ConductorSpec =>` what is proved of `Registry` |
| `ConductorProofs!JobInvariance` | `ConductorSpec => [](TodoInv /\ JobInv)` |
| `ConductorProofs!OneAgent` | `ConductorSpec => []OneAgentPerRow` |
| `ConductorProofs!AgentsApart` | `ConductorSpec => []AgentsAreApart` |
| `ConductorProofs!AgentsAreBounded` | `ConductorSpec => []AgentsNeedUpsets` |

`Pipeline` instantiates `SchedulerProofs`, and `Conductor` instantiates
`PipelineProofs`, so that the theorems come with the definitions. They hold there
under the assumptions of the instantiated modules, which the assumptions of
`Pipeline` imply (`SchedulerAssumed`) and `ConductorAssumption` states. The
pipeline's clock is monotone, hence `StepBack = 0` is met there.

`NoMessageLost` is about the moment of the delete. `LoopInv` says what the loop
has done to the message in its hands by each stage: stored before the pass,
decided before the delete. That a redelivered message leaves the first row
where it is makes it inductive (`RowsInv` types the tables).

`LossesNeedDisturbances` says what the design accepts and no more: a decision may
be lost after it has been marked and before an agent exists, and then a
disturbance is to blame, one for each pass. It is not inductive, for a drain
cancels the context of launches that have yet to fail. `LossInv` counts these as
lost already (`AtRisk`), at the price of the one disturbance that the drain is
(`RiskIsPaid`); that the loop holds decisions of one pass only, and none between
the spawn block and the next pass (`OnePassInHand`), is why one is enough.

`AgentsNeedUpsets` says that a message has no more agents than it met
disturbances, and one. Agents are bounded by rows, and rows by disturbances:

* *Rows.* `Cardinality(stored[m]) <= 1 + faults` is not inductive: a delivery in
  flight may still store a row, and nothing in that bound says whether it has been
  paid for. `StoreInv` is a credit argument. `StoresAhead(m)` is how many more
  inserts of `m` the state already promises (the message is unsent or visible, or
  will be again, or a delivery of it is held or being worked on), and
  `Cardinality(stored[m]) + StoresAhead(m) <= 1 + faults` is kept by every step:
  an insert moves one from the right summand to the left, and only a step that
  counts as a disturbance adds a promise. `HandsFree` keeps poller and loop
  from holding the same message twice without a disturbance.
* *Agents.* The decision a worker was started for names its row, and
  `OneDecisionPerRow` and `OneAgentPerRow` make the map from agents to rows
  one-to-one (`AgentsAreNoMoreThanRows`).

`OneAgentPerRow` needs to know that a decision is new when it is registered.
`TodoInv`: what the loop has in hand has been returned by some pass, and none of
it has a started worker but the one `spawnWorker` is busy with; a new pass
returns decisions with a number no earlier one has, so they differ from all
that came before. `JobInv` says that no two started workers have one decision; that
two decisions are never about one row is `RowsAreDecidedOnce` of the scheduler.
`AgentsAreApart` is the same argument with `DecisionsAreApart`: a burst of alarms
within the chain window has one agent, whatever fails. The run `conductor_alarm` checks it.

### Texts

`TextsProofs`, for documents of any depth and width and every order in which maps
hand out their fields:

| Theorem | Says |
|---|---|
| `Invariance` | `Spec => []IInv` |
| `TextsOnce` | `Spec => []EveryTextOnce` |
| `OrderKept` | `Spec => []ArraysKeepOrder` |
| `ReadingsAgree` | `Spec => []BothReadingsAgree` |
| `TranscriptKept` | `Spec => []TranscriptInOrder` |

They assume of the input what a JSON decoder delivers (`TextsAssumption`): every
value but the root is nested in one that has it among its own, an object has one
field named `text`, and only arrays have values without names.

The argument. None of the four is inductive; they speak of the end of a walk.
What recursion would prove by induction over the document is here an induction
over the steps of the walk, with `Owed` in the place of the induction hypothesis:
a value is owed when the agenda has it or one above it. A call owes afterwards
what it owed before but for the value it walks (`OwedAfterCall`, from the
agenda's places never being above each other). Then:

* `PartsInv`: the parts collected are exactly the texts whose object is not owed,
  each once; no owed value precedes a part in an array, and the agenda itself
  is in the order of the arrays (`ItemsAfterCall`, `ClearAfterCall`,
  `OwnAfterParts`, `CollectedAfterCall`). When nothing is owed this is `EveryTextOnce`
  and `ArraysKeepOrder` (`WholeWhenDone`), whatever order was chosen at each map.
* `AgreementInv`: if the document leaves no choice (`InOneOrder`), the second reading
  is at each step a prefix of the first: a text that a call collects can only be the
  next one, since any other would have to come after one that is still owed
  (`AgreementAfterCall`). A prefix with all the texts is the whole (`WholePrefix`).
* `TranscriptInv`: the words written are exactly those not owed, all stand before
  whatever is owed, and the agenda is in the order of the document
  (`InOrderAfterCall`, `WrittenAfterCall`). That a text begins on a new line,
  and leaves those before it apart, is `AppendTextFacts` and `LinesAfterLine`.

The run `texts` checks the four properties; with `IInv` as a fifth invariant TLC
confirms it on the same 100 590 states.

### FileTransfer

| Theorem | Says |
|---|---|
| `Invariance` | `Spec => []IInv` |
| `AcceptedIsWhole` | `Spec => []AcceptedIsWholeFile` |
| `UploadRefines` | `Spec => UploadIsOneCall` |

`OrderInv`: what has arrived, the chunks under way and what is still to be read
follow each other without a gap; `ChunkInv`: each chunk is a run of successive
bytes and final only if it reaches the size that `Stat` reported; `FinalInv`:
after the final chunk the receiver has that many bytes. Counters, not contents,
decide what is final, so the invariant must tie one to the other. (TLC confirms
`IInv` on the instance of the run `file_transfer`, which checks the properties.)

`UploadIsOneCall` maps an upload to the call `ResultsStored` or `Dies` of `WorkerCalls`.
The call happens when both ends are done: a sender that has failed may still
have its results stored by a receiver that has everything, so its step is
not over before the receiver's is (`CallStage`). Each end, once done, stays so
(`EndsStay`), and a reply is only sent of stored results. Together with `ProtocolKept` of the
registry and of the worker, program, stream and handlers meet in `WorkerCalls`.

### Deploy

| Theorem | Says |
|---|---|
| `Invariance` | `Spec => []IInv` |
| `SignalFresh` | `Spec => []SignalIsFresh` |
| `DrainRequested` | `Spec => []DrainWasRequested` |
| `RequestKept` | `Spec => []RequestStands` |
| `LoneReplacement` | `Spec => JobsFinishBeforeLoneReplacement` |

`SignalInv` says that the signal file, and what a script has read of it, can only
be true when every request so far has been answered by a gate; `LoneInv` that a
script without a rival finds the conductor stopped at the two lines before the
replacement, and past its initialisation while it waits; `DrainInv` that only the
start of a conductor takes a request back, and that what a conductor reads after it
has made its request file anew was written since its container came to be.

### WorkerRun

`WorkerRunProofs`, for every number of attempts:

| Theorem | Says |
|---|---|
| `Invariance` | `Spec => []IInv` |
| `TypeCorrect` | `Spec => []TypeOK` |
| `PublicationFits` | `Spec => []PublicationFitsOutcome` |
| `SafeEnd` | `Spec => []SafeEndIsComplete` |
| `ProtocolKept` | `Spec => KeepsProtocol` |

The argument: from an accepting validation on nothing touches the artifacts
(`AcceptedInv`), so what the publication reads is what was accepted; nothing is
published before (`GitHubInv`); and a failed call leads straight to an end
(`FailureInv`), so that the step from which the safe end is reported is only
reached with the link written exactly when something was published (`LinkInv`).
`LinkInv` also says that nothing is stored before the last call but one, and
nothing told before the last: every path makes each call once, in the order of
`WorkerCalls` (`StepKeepsProtocol`). The program and the registry thus meet in one
specification: what `Registry` lets a worker do is what `WorkerRun` does.

### Only model-checked

Liveness, which is beyond the prover: `EveryMessageDecided`, `EveryTicketServed`,
`DrainCompletes`, `WaitsOnlyForAgents`, `TransferEnds`, `WorkerEnds`. Every other
property of a passing run is a theorem.

## 5. Findings

1. **A false marker may end as an error** (`worker_run_false`). `worker-plan-1.md`,
   34, calls false "a valid agent outcome". A false marker is accepted without
   looking at report and title; building the issue then fails for lack of them,
   and the worker reports a Codex error.
2. **Overlapping deployments replace a busy conductor** (`deploy_overlap`).
3. **A safe shutdown may be reported as unsafe** (`deploy_signal`): the file is
   read before the container is inspected.

Not a finding: a crash, a failed launch or a drain between the commit of a decision
and its launch drops the job. `src/docs/scheduling-system-desc.md` accepts this (13 and
278: avoiding a second agent comes first), and the "current jobs" for which `main.go`,
27-28, waits are those of running workers. `LossesNeedDisturbances` bounds it.

One difference is followed rather than listed: the design document of the
scheduler says the text of a ticket decision is the raw body; the code hands out
the flattened description and falls back to the body. So do `Schedule` and `Decide`
(stage `raw`), and `EveryTextOnce` says that no stored ticket comes to that.

## 6. What is not modelled

* The grammar of JSON: `Texts` starts from the value a decoder makes of a body.
  The alarm parser in `parse_message.go` is not called by the conductor.
* Zip packing, the fields of the ECS request, worker names,
  the content of the database schema: sequential I/O or pure functions whose only
  effect on the rest is to succeed or fail, which the models include (`Unzip`,
  `BuildRunTaskInputFails`, `CheckDatabase`).
* The local Docker launcher and the debugging mode of the worker, which the
  deployed system does not use; generated code; Terraform; test applications.
* Wall-clock durations: timeouts are events that may happen.

## 7. Plan

Done: every module of section 2, the composition of pipeline, registry and gate,
and the proofs of section 4.

Next, in this order:

1. The download of work files, whose receiver unpacks in the worker and ends the
   container on an error, as a second instance of `FileTransfer`.
2. What `WorkerCalls` promises by itself (a safe end only after a delivery, one end
   at most), as theorems both sides cite.
