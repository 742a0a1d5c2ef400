------------------------------ MODULE Registry ------------------------------
(***************************************************************************)
(* The worker registry of the conductor (serverside-worker.go) and the     *)
(* four parties that use it concurrently: the poll loop that spawns        *)
(* workers, the gRPC handlers (grpcserver.go), the workers that call them, *)
(* and the shutdown gate (shutdowngate.go) that waits for the registry to  *)
(* empty before the process ends.                                          *)
(*                                                                         *)
(* Every action is one critical section of a mutex, or one call; Register  *)
(* alone takes two of them together.  The process may crash between any    *)
(* two and be started again: the registry is gone then, while the tasks of *)
(* its workers run on.                                                     *)
(***************************************************************************)
EXTENDS Integers, FiniteSets

CONSTANTS
    Workers,            \* names that GenerateWorkerName draws, each once
    None,               \* no worker
    MaxFaults           \* bound: silent deaths, launch errors, crashes

ASSUME RegistryAssumption == None \notin Workers /\ MaxFaults \in Nat

VARIABLES
    registry,           \* the workers registered
    events,             \* the events recorded for each worker
    spawn,              \* spawnWorker: where it is, and for which worker
    stopped,            \* PollDone is closed, the polling context cancelled
    request,            \* the content of the shutdown request file
    gate,               \* where shutdownGate is
    ready,              \* the safe-shutdown file has been written
    up,                 \* the conductor process exists
    task,               \* the ECS task of each worker and its program
    rpc,                \* the handler that serves the worker's call
    launched,           \* history: workers this process has launched
    orphans,            \* history: workers that earlier processes registered
    faults              \* history: number of faults so far

poll == <<spawn, launched>>
shut == <<stopped, request, gate, ready, up, orphans>>
vars == <<registry, events, poll, shut, task, rpc, faults>>

Event == {"spawnStarted", "badlyEnded", "handshakeSucceeded",
          "gotFilesSucceeded", "uploadedFilesSucceeded", "codexError",
          "safelyEnded"}

TaskState == {"none", "requested", "refused",               \* at ECS
              "booting", "shaken", "working", "uploaded",   \* alive
              "ended", "dead"}

Alive(w) == task[w] \in {"booting", "shaken", "working", "uploaded"}

has(w, e) == e \in events[w]

recordEvent(w, e) == events' = [events EXCEPT ![w] = @ \cup {e}]

Fault == faults < MaxFaults /\ faults' = faults + 1

SetTask(w, s) == task' = [task EXCEPT ![w] = s]
SetRpc(w, h) == rpc' = [rpc EXCEPT ![w] = h]

-----------------------------------------------------------------------------

Init ==
    /\ registry = {}
    /\ events = [w \in Workers |-> {}]
    /\ spawn = [at |-> "idle", worker |-> None]
    /\ stopped = FALSE /\ request = FALSE
    /\ gate = "watch" /\ ready = FALSE /\ up = TRUE
    /\ task = [w \in Workers |-> "none"]
    /\ rpc = [w \in Workers |-> "none"]
    /\ launched = {} /\ orphans = {}
    /\ faults = 0

(*************************** spawnWorker, poll loop ************************)

At(stage) == up /\ spawn.at = stage
Goto(stage) == spawn' = [spawn EXCEPT !.at = stage]

(* registerSpawnedWorker and the event spawnStarted, two critical sections *)
(* in one step: between them the gate counts the worker as it does after   *)
(* them, and no task exists that could call a handler.  The loop may still *)
(* have decisions in hand when the drain begins.                           *)
Register(w) ==
    /\ At("idle") /\ events[w] = {} /\ w \notin registry
    /\ registry' = registry \cup {w}
    /\ recordEvent(w, "spawnStarted")
    /\ spawn' = [at |-> "registered", worker |-> w]
    /\ UNCHANGED <<launched, shut, task, rpc, faults>>

(* The request cannot be built, or the AWS configuration not be loaded:    *)
(* RunTask is not called.                                                  *)
BuildRunTaskInputFails ==
    /\ At("registered") /\ Fault
    /\ Goto("failed")
    /\ UNCHANGED <<registry, events, launched, shut, task, rpc>>

(* Wrong: the launcher is given a context that the gate does not cancel.   *)
Launch_uncancelled ==
    /\ At("registered")
    /\ Goto("launching") /\ SetTask(spawn.worker, "requested")
    /\ UNCHANGED <<registry, events, launched, shut, rpc, faults>>

(* The launcher calls RunTask.  With a cancelled context nothing is sent.  *)
Launch ==
    /\ At("registered")
    /\ IF stopped
       THEN Goto("failed") /\ UNCHANGED task
       ELSE Goto("launching") /\ SetTask(spawn.worker, "requested")
    /\ UNCHANGED <<registry, events, launched, shut, rpc, faults>>

LaunchReturns ==
    /\ At("launching") /\ task[spawn.worker] \notin {"requested", "refused"}
    /\ launched' = launched \cup {spawn.worker}
    /\ spawn' = [at |-> "idle", worker |-> None]
    /\ UNCHANGED <<registry, events, shut, task, rpc, faults>>

(* Wrong: a failed launch is not recorded before the worker is removed.    *)
LaunchFails_unrecorded ==
    /\ At("launching")
    /\ IF task[spawn.worker] = "refused" \/ stopped
       THEN UNCHANGED faults ELSE Fault
    /\ Goto("removing")
    /\ UNCHANGED <<registry, events, launched, shut, task, rpc>>

(* ECS refuses; or the context is cancelled while the call is under way;   *)
(* or the answer is lost or malformed.  In the last two cases the task may *)
(* be running all the same.                                                *)
LaunchFails ==
    /\ At("launching")
    /\ IF task[spawn.worker] = "refused" \/ stopped
       THEN UNCHANGED faults ELSE Fault
    /\ Goto("failed")
    /\ UNCHANGED <<registry, events, launched, shut, task, rpc>>

RecordBadlyEnded ==
    /\ At("failed")
    /\ recordEvent(spawn.worker, "badlyEnded")
    /\ Goto("removing")
    /\ UNCHANGED <<registry, launched, shut, task, rpc, faults>>

(* Wrong: the worker that could not be launched stays registered.          *)
RemoveFailed_forgotten ==
    /\ At("removing")
    /\ spawn' = [at |-> "idle", worker |-> None]
    /\ UNCHANGED <<registry, events, launched, shut, task, rpc, faults>>

RemoveFailed ==
    /\ At("removing")
    /\ registry' = registry \ {spawn.worker}
    /\ spawn' = [at |-> "idle", worker |-> None]
    /\ UNCHANGED <<events, launched, shut, task, rpc, faults>>

(******************************* ECS (external) ****************************)

EcsStarts(w) ==
    /\ task[w] = "requested"
    /\ SetTask(w, "booting")
    /\ UNCHANGED <<registry, events, poll, shut, rpc, faults>>

EcsRefuses(w) ==
    /\ task[w] = "requested"
    /\ SetTask(w, "refused")
    /\ UNCHANGED <<registry, events, poll, shut, rpc, faults>>

(************************* Worker calls and handlers ***********************)

Calls(w, state) == up /\ task[w] = state /\ rpc[w] = "none"

(* getRequiredWorker finds no such worker, or hasEvent no handshake: the   *)
(* call fails and the worker exits.                                        *)
Rejected(w) == w \notin registry

WorkerStartsHandshake(w) ==
    /\ Calls(w, "booting")
    /\ IF Rejected(w)
       THEN SetTask(w, "dead") /\ UNCHANGED events
       ELSE SetTask(w, "shaken") /\ recordEvent(w, "handshakeSucceeded")
    /\ UNCHANGED <<registry, poll, shut, rpc, faults>>

(* A call that is checked first, and then served while the registry may    *)
(* change: the handler keeps its pointer to the worker.                    *)
BeginTransfer(w, state, handler) ==
    /\ Calls(w, state)
    /\ IF Rejected(w) \/ ~ has(w, "handshakeSucceeded")
       THEN SetTask(w, "dead") /\ UNCHANGED rpc
       ELSE SetRpc(w, handler) /\ UNCHANGED task
    /\ UNCHANGED <<registry, events, poll, shut, faults>>

(* The handler is done, and the worker sees the stream end.                *)
EndTransfer(w, handler, event, state) ==
    /\ up /\ rpc[w] = handler
    /\ recordEvent(w, event)
    /\ SetRpc(w, "none") /\ SetTask(w, state)
    /\ UNCHANGED <<registry, poll, shut, faults>>

WorkerRequestsWorkFiles(w) == BeginTransfer(w, "shaken", "files")
WorkFilesSent(w) == EndTransfer(w, "files", "gotFilesSucceeded", "working")

WorkerUploadsFiles(w) == BeginTransfer(w, "working", "upload")
(* Wrong: the worker is removed when its upload is complete.               *)
UploadReceived_removes(w) ==
    /\ up /\ rpc[w] = "upload"
    /\ recordEvent(w, "uploadedFilesSucceeded")
    /\ registry' = registry \ {w}
    /\ SetRpc(w, "none") /\ SetTask(w, "uploaded")
    /\ UNCHANGED <<poll, shut, faults>>

UploadReceived(w) ==
    EndTransfer(w, "upload", "uploadedFilesSucceeded", "uploaded")

(* WorkerStartsShutdown and WorkerSendsCodexError: the event is recorded   *)
(* in one critical section ...                                             *)
RecordEnd(w, state, event, handler) ==
    /\ Calls(w, state)
    /\ IF Rejected(w)
       THEN SetTask(w, "dead") /\ UNCHANGED <<events, rpc>>
       ELSE recordEvent(w, event) /\ SetRpc(w, handler) /\ UNCHANGED task
    /\ UNCHANGED <<registry, poll, shut, faults>>

(* ... and the worker removed in another; if it is gone by then, the call  *)
(* returns an error.                                                       *)
Deregister(w, handler) ==
    /\ up /\ rpc[w] = handler
    /\ registry' = registry \ {w}
    /\ SetRpc(w, "none")
    /\ SetTask(w, IF w \in registry THEN "ended" ELSE "dead")
    /\ UNCHANGED <<events, poll, shut, faults>>

(* Wrong: the worker does not upload first.                                *)
WorkerStartsShutdown_early(w) == RecordEnd(w, "working", "safelyEnded", "ending")

WorkerStartsShutdown(w) == RecordEnd(w, "uploaded", "safelyEnded", "ending")
waitFargateAndDeregister(w) == Deregister(w, "ending")

WorkerSendsCodexError(w) == RecordEnd(w, "working", "codexError", "failing")
deregisterFailed(w) == Deregister(w, "failing")

(* The worker's process ends without a word: a panic, log.Fatalf before or *)
(* after its Codex work, the task stopped by ECS.  A stream it had open    *)
(* ends with an error in its handler.                                      *)
SilentDeath(w) ==
    /\ Alive(w) /\ rpc[w] \in {"none", "files", "upload"}
    /\ Fault
    /\ SetTask(w, "dead") /\ SetRpc(w, "none")
    /\ UNCHANGED <<registry, events, poll, shut>>

(* The conductor is gone: the next call, or the one under way, fails.      *)
LosesConductor(w) ==
    /\ ~ up /\ Alive(w)
    /\ SetTask(w, "dead") /\ SetRpc(w, "none")
    /\ UNCHANGED <<registry, events, poll, shut, faults>>

(******************************* shutdownGate ******************************)

(* The deployment writes true to the request file.                         *)
RequestShutdown ==
    /\ up /\ ~ request
    /\ request' = TRUE
    /\ UNCHANGED <<registry, events, poll, stopped, gate, ready, up, orphans, task, rpc, faults>>

(* The file reads true: polling is stopped, once, before the first count.  *)
GateStopsPolling ==
    /\ up /\ gate = "watch" /\ request
    /\ stopped' = TRUE
    /\ gate' = "count"
    /\ UNCHANGED <<registry, events, poll, request, ready, up, orphans, task, rpc, faults>>

(* Wrong: only workers that have shaken hands count.                       *)
ActiveWorkers_shaken ==
    {w \in registry : has(w, "handshakeSucceeded") /\ ~ has(w, "safelyEnded")}

ActiveWorkers == {w \in registry : ~ has(w, "safelyEnded")}

GateCounts ==
    /\ up /\ gate = "count"
    /\ gate' = IF ActiveWorkers = {} THEN "write" ELSE "watch"
    /\ UNCHANGED <<registry, events, poll, stopped, request, ready, up, orphans, task, rpc, faults>>

(* The file is written, or writing fails; main returns either way, with    *)
(* handlers and the poll loop wherever they are.                           *)
GateExits ==
    /\ up /\ gate = "write"
    /\ ready' \in BOOLEAN
    /\ up' = FALSE
    /\ UNCHANGED <<registry, events, poll, stopped, request, gate, orphans, task, rpc, faults>>

(***************************** Crash and restart ***************************)

Crash ==
    /\ up /\ Fault
    /\ up' = FALSE
    /\ UNCHANGED <<registry, events, poll, stopped, request, gate, ready, orphans, task, rpc>>

(* A new process with an empty registry.  The streams of the old one have  *)
(* broken, and the workers that used them have exited.  The deployment has *)
(* removed the signal file.                                                *)
Start ==
    /\ ~ up /\ up' = TRUE
    /\ registry' = {} /\ launched' = {}
    /\ spawn' = [at |-> "idle", worker |-> None]
    /\ stopped' = FALSE /\ request' = FALSE /\ gate' = "watch" /\ ready' = FALSE
    /\ orphans' = {w \in Workers : events[w] # {}}
    /\ task' = [w \in Workers |-> IF rpc[w] # "none" THEN "dead" ELSE task[w]]
    /\ rpc' = [w \in Workers |-> "none"]
    /\ UNCHANGED <<events, faults>>

-----------------------------------------------------------------------------

SpawnStep ==
    Launch \/ LaunchReturns \/ LaunchFails \/ RecordBadlyEnded \/ RemoveFailed

EcsStep(w) == EcsStarts(w) \/ EcsRefuses(w)

WorkerStep(w) ==
    \/ WorkerStartsHandshake(w)
    \/ WorkerRequestsWorkFiles(w) \/ WorkFilesSent(w)
    \/ WorkerUploadsFiles(w) \/ UploadReceived(w)
    \/ WorkerStartsShutdown(w) \/ waitFargateAndDeregister(w)
    \/ WorkerSendsCodexError(w) \/ deregisterFailed(w)
    \/ LosesConductor(w)

GateStep == GateStopsPolling \/ GateCounts \/ GateExits

Next ==
    \/ \E w \in Workers : \/ Register(w) \/ EcsStep(w)
                          \/ WorkerStep(w) \/ SilentDeath(w)
    \/ SpawnStep \/ BuildRunTaskInputFails
    \/ RequestShutdown
    \/ GateStep
    \/ Crash \/ Start

Spec == Init /\ [][Next]_vars

(***************************************************************************)
(* The goroutines of the conductor run; RunTask returns; ECS answers; a    *)
(* worker that lives finishes its work and its calls.                      *)
(***************************************************************************)
Fairness ==
    /\ WF_vars(SpawnStep) /\ WF_vars(GateStep)
    /\ \A w \in Workers : WF_vars(EcsStep(w)) /\ WF_vars(WorkerStep(w))

FairSpec == Spec /\ Fairness

-----------------------------------------------------------------------------

TypeOK ==
    /\ registry \subseteq Workers
    /\ events \in [Workers -> SUBSET Event]
    /\ spawn \in [at : {"idle", "registered", "launching", "failed", "removing"},
                  worker : Workers \cup {None}]
    /\ stopped \in BOOLEAN /\ request \in BOOLEAN
    /\ ready \in BOOLEAN /\ up \in BOOLEAN
    /\ gate \in {"watch", "count", "write"}
    /\ task \in [Workers -> TaskState]
    /\ rpc \in [Workers -> {"none", "files", "upload", "ending", "failing"}]
    /\ launched \subseteq Workers /\ orphans \subseteq Workers
    /\ faults \in 0 .. MaxFaults

Finished(w) == has(w, "safelyEnded") \/ has(w, "codexError")

GatePassed == gate = "write" \/ ready

(***************************************************************************)
(* Once the gate has decided to end the process, and so whenever it has    *)
(* written the safe-shutdown file, every worker the process has launched   *)
(* has reported its end: no spawn slips past the count, in whatever order  *)
(* the poll loop and the gate run.                                         *)
(***************************************************************************)
GateWaitsForWorkers == GatePassed => \A w \in launched : Finished(w)

(***************************************************************************)
(* The events of a worker are recorded in the order of the protocol: its   *)
(* files only after its handshake, its upload only after its files, a      *)
(* Codex error only after its files, and a safe end, after which the gate  *)
(* no longer waits for it, only after its upload.  A set of events has no  *)
(* order of its own: the order is that no reachable state has the later of *)
(* two events without the earlier, so the earlier was recorded before.     *)
(***************************************************************************)
EventsComeInOrder ==
    \A w \in Workers :
        /\ has(w, "gotFilesSucceeded") => has(w, "handshakeSucceeded")
        /\ has(w, "uploadedFilesSucceeded") => has(w, "gotFilesSucceeded")
        /\ has(w, "codexError") => has(w, "gotFilesSucceeded")
        /\ has(w, "safelyEnded") => has(w, "uploadedFilesSucceeded")

(***************************************************************************)
(* serverside_worker_test.go: a failed launch does not "leave a phantom    *)
(* active worker behind".  When no spawn is under way, every registered    *)
(* worker was launched.                                                    *)
(***************************************************************************)
NoPhantomWorker ==
    spawn.at = "idle" => registry \subseteq launched

(***************************************************************************)
(* A task that runs without being registered can only come from a launch   *)
(* that reported an error, or from an earlier process: the registry never  *)
(* forgets a live worker whose launch succeeded, whatever handlers and the *)
(* loop do at the same time.                                               *)
(***************************************************************************)
UnknownTaskOnlyAfterFailedLaunch ==
    \A w \in Workers :
        Alive(w) /\ w \notin registry => has(w, "badlyEnded") \/ w \in orphans

(***************************************************************************)
(* The inductive invariant.  The worker that spawnWorker is busy with is   *)
(* not yet launched; once its launch is under way it stays registered      *)
(* until it has reported its end.                                          *)
(***************************************************************************)
SpawnInv ==
    /\ spawn.at # "idle" =>
          /\ spawn.worker \in Workers \ (launched \cup orphans)
          /\ has(spawn.worker, "spawnStarted")
    /\ spawn.at = "registered" =>
          /\ spawn.worker \in registry
          /\ task[spawn.worker] = "none" /\ rpc[spawn.worker] = "none"
    /\ spawn.at = "launching" =>
          spawn.worker \in registry \/ Finished(spawn.worker)
    /\ spawn.at = "removing" => has(spawn.worker, "badlyEnded")

(* The registry holds launched workers and the one being spawned, and a    *)
(* launched worker leaves it only when it has reported its end.            *)
RegistryInv ==
    /\ \A w \in registry : w \in launched \/ (spawn.at # "idle" /\ w = spawn.worker)
    /\ \A w \in launched :
          has(w, "spawnStarted") /\ (w \in registry \/ Finished(w))
    /\ \A w \in orphans :
          has(w, "spawnStarted") /\ w \notin registry \cup launched

(* How far a worker has come shows in its events.                          *)
WorkerInv(w) ==
    /\ task[w] # "none" => has(w, "spawnStarted")
    /\ events[w] # {} => has(w, "spawnStarted")
    /\ rpc[w] # "none" => Alive(w) /\ w \notin orphans
    /\ task[w] = "requested" \/ Alive(w) =>
          w \in registry \/ has(w, "badlyEnded") \/ w \in orphans
    /\ task[w] \in {"shaken", "working", "uploaded"} \/ rpc[w] \in {"files", "upload"}
          => has(w, "handshakeSucceeded")
    /\ task[w] \in {"working", "uploaded"} \/ rpc[w] = "upload"
          => has(w, "gotFilesSucceeded")
    /\ task[w] = "uploaded" => has(w, "uploadedFilesSucceeded")
    /\ rpc[w] = "files" => task[w] = "shaken"
    /\ rpc[w] = "upload" => task[w] = "working"
    /\ rpc[w] = "ending" => has(w, "safelyEnded") /\ task[w] = "uploaded"
    /\ rpc[w] = "failing" => has(w, "codexError") /\ task[w] = "working"
    /\ task[w] \notin {"ended", "dead"} /\ rpc[w] \notin {"ending", "failing"}
          => ~ Finished(w)

(* The registered workers for which ECS has been asked.                    *)
AtWork ==
    {w \in registry :
        /\ ~ has(w, "safelyEnded")
        /\ w \in launched \/ (spawn.at = "launching" /\ w = spawn.worker)}

(* Polling stops before the first count, and no launch begins after it.    *)
GateInv ==
    /\ gate \in {"count", "write"} => stopped
    /\ ready => gate = "write"
    /\ gate = "write" => AtWork = {}
    /\ ready => ~ up

IInv ==
    /\ TypeOK /\ SpawnInv /\ RegistryInv
    /\ \A w \in Workers : WorkerInv(w)
    /\ EventsComeInOrder /\ GateInv

-----------------------------------------------------------------------------

(* The conductor of Deploy: its phases and whether it has agents at work,  *)
(* with the script and the rest of the host left alone.                    *)
D == INSTANCE Deploy WITH
        conductor <- IF up THEN IF stopped THEN "draining" ELSE "serving"
                     ELSE IF gate = "write" THEN "leaving" ELSE "stopped",
        busy <- up /\ AtWork # {},
        request <- IF request THEN "true" ELSE "false",
        database <- "complete",
        Scripts <- {}, MaxRuns <- 0, MaxCrashes <- 0,
        pc <- [s \in {} |-> "idle"], seen <- [s \in {} |-> FALSE],
        asked <- [s \in {} |-> "no"], outcome <- [s \in {} |-> "none"],
        runs <- 0, crashes <- 0, overlapped <- FALSE, wanted <- FALSE

(***************************************************************************)
(* What Deploy takes for granted of the conductor is what registry, poll   *)
(* loop and gate do together: agents start only while it serves, and it    *)
(* leaves a drain only when none is at work.                               *)
(***************************************************************************)
GateImplementsDeploy ==
    [][D!ConductorStep \/ RequestShutdown \/ Crash \/ Start]_(D!vars)

-----------------------------------------------------------------------------

(* What the registry and ECS know of a worker, as its calls show it.       *)
Stage(w) ==
    IF task[w] \in {"none", "requested", "refused"} THEN "booting" ELSE task[w]

Told(w) ==
    IF has(w, "safelyEnded") THEN "safelyEnded"
    ELSE IF has(w, "codexError") THEN "codexError" ELSE "nothing"

Contract(w) == INSTANCE WorkerCalls WITH
                stage <- Stage(w), told <- Told(w),
                delivered <- has(w, "uploadedFilesSucceeded")

(***************************************************************************)
(* Seen from each of its workers the conductor keeps to the protocol,      *)
(* whatever its other goroutines do: a worker has one end recorded at      *)
(* most, a safe one only after its upload, and nothing more once it has    *)
(* died, been turned away or lost its conductor.                           *)
(***************************************************************************)
WorkersKeepProtocol ==
    /\ \A w \in Workers : Contract(w)!Init
    /\ [][\A w \in Workers : [Contract(w)!Next]_(Contract(w)!vars)]_vars

-----------------------------------------------------------------------------

DiedSilently(w) == w \in registry /\ task[w] = "dead"

(***************************************************************************)
(* A requested shutdown completes, unless a worker died without telling:   *)
(* such a worker stays registered and the gate waits for it forever.       *)
(***************************************************************************)
DrainCompletes == request ~> (~ up \/ \E w \in Workers : DiedSilently(w))

=============================================================================
