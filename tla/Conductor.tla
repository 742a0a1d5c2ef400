------------------------------ MODULE Conductor ------------------------------
(***************************************************************************)
(* The whole conductor: the message pipeline (Pipeline) and the worker     *)
(* registry with its gate (Registry) are one process.  The poll loop hands *)
(* each decision of the scheduler to spawnWorker; the gate that stops      *)
(* polling cancels the context of both; exit, crash and start happen to    *)
(* both.                                                                   *)
(***************************************************************************)
EXTENDS Registry

CONSTANTS
    AlarmMsgs, TicketMsgs, JunkMsgs, Account, Window,       \* as in Pipeline
    MaxAlarms, MaxTickets, MaxTime, MaxPasses,
    MaxUpsets           \* bound: disturbances of the pipeline, requests, crashes

VARIABLES
    queue, held, loop, alarms, tickets, now, pass, issued, stored, spawned,
    upsets,             \* history: disturbances of the pipeline
    job                 \* history: the decision of each worker

pipeline ==
    <<queue, held, loop, alarms, tickets, now, pass, issued, stored, spawned, upsets>>
all == <<vars, pipeline, job>>

(* The pipeline with its theorems.  The drain and each launch that fails   *)
(* are disturbances of it too: they come on top of MaxUpsets.              *)
P == INSTANCE PipelineProofs WITH
        phase <- IF up THEN IF stopped THEN "draining" ELSE "up" ELSE "down",
        faults <- upsets,
        MaxFaults <- MaxUpsets + Cardinality(Workers) + 2

ASSUME ConductorAssumption == P!PipelineAssumption

NoJob == [type |-> "none"]

ConductorInit ==
    /\ Init
    /\ P!Init
    /\ job = [w \in Workers |-> NoJob]

-----------------------------------------------------------------------------

(* A disturbance that the bound still admits.                              *)
MayUpset == upsets < MaxUpsets

(* A step of one half alone.                                               *)
Alone(A) == A /\ UNCHANGED <<pipeline, job>>

(* A step of the pipeline alone: it may be the last disturbance.           *)
Along(A) == UNCHANGED <<vars, job>> /\ A /\ (upsets' # upsets => MayUpset)

(* The decision in hand is that of the worker being spawned.               *)
InHand == job[spawn.worker]

(* prepareWorkerSpawnConfig and the start of spawnWorker: the loop takes   *)
(* one of its decisions at a time.                                         *)
RegisterFor(w, d) ==
    /\ loop.at = "spawn" /\ d \in loop.todo
    /\ Register(w)
    /\ job' = [job EXCEPT ![w] = d]
    /\ UNCHANGED pipeline

(* spawnWorker returns to the loop.                                        *)
LaunchSucceedsFor ==
    LaunchReturns /\ P!Spawn(InHand) /\ UNCHANGED job

LaunchFailsFor ==
    /\ RemoveFailed
    /\ P!SpawnFails(InHand)
    /\ UNCHANGED job

(* The gate cancels the context that poller, loop and launcher use.        *)
Drain ==
    /\ GateStopsPolling
    /\ IF stopped THEN UNCHANGED pipeline ELSE P!Drain
    /\ UNCHANGED job

Exit == GateExits /\ P!Exit /\ UNCHANGED job

CrashBoth == MayUpset /\ Crash /\ P!Crash /\ UNCHANGED job

Restart == Start /\ P!Start /\ UNCHANGED job

(* The poll loop is in spawnWorker until it returns.                       *)
BetweenSpawns == spawn.at = "idle"

PollerStep ==
    \/ \E m \in P!Msgs : P!Receive(m) \/ P!ReceiveFails(m)
    \/ P!PollerStops

QueueStep == \E m \in P!Msgs : P!Send(m) \/ P!VisibilityExpires(m)

LoopStep ==
    \/ P!Take \/ P!Recheck \/ P!LoopEnds
    \/ P!Insert \/ P!InsertFails \/ P!Schedule \/ P!ScheduleFails
    \/ P!Delete \/ P!DeleteFails
    \/ BetweenSpawns /\ P!SpawnsDone

(* prepareWorkerSpawnConfig fails: no worker is registered.                *)
PrepareFails ==
    BetweenSpawns /\ \E d \in loop.todo : P!SpawnFails(d) /\ upsets' # upsets

RegistryStep ==
    \/ Launch \/ LaunchFails \/ BuildRunTaskInputFails \/ RecordBadlyEnded
    \/ \E w \in Workers : EcsStep(w) \/ WorkerStep(w) \/ SilentDeath(w)
    \/ GateCounts
    \/ MayUpset /\ RequestShutdown

ConductorNext ==
    \/ Along(QueueStep) \/ Along(PollerStep) \/ Along(LoopStep)
    \/ Along(PrepareFails) \/ Along(P!Tick)
    \/ Alone(RegistryStep)
    \/ \E w \in Workers, d \in loop.todo : RegisterFor(w, d)
    \/ LaunchSucceedsFor \/ LaunchFailsFor
    \/ Drain \/ Exit \/ CrashBoth \/ Restart

ConductorSpec == ConductorInit /\ [][ConductorNext]_all

(***************************************************************************)
(* The fairness of Registry and Pipeline: the goroutines of the process    *)
(* run, calls return, ECS answers, workers that live finish, SQS delivers  *)
(* what is visible, and a conductor that is down is started again.         *)
(***************************************************************************)
SpawnWorkerStep ==
    \/ \E w \in Workers, d \in loop.todo : RegisterFor(w, d)
    \/ Alone(Launch \/ LaunchFails \/ RecordBadlyEnded)
    \/ LaunchSucceedsFor \/ LaunchFailsFor

Fair ==
    /\ WF_all(SpawnWorkerStep) /\ WF_all(Along(LoopStep))
    /\ WF_all(Drain \/ Alone(GateCounts) \/ Exit) /\ WF_all(Restart)
    /\ \A w \in Workers : WF_all(Alone(EcsStep(w))) /\ WF_all(Alone(WorkerStep(w)))
    /\ \A m \in P!Msgs :
          /\ WF_all(Along(P!VisibilityExpires(m) /\ ~ P!InProcess(m)))
          /\ SF_all(Along(P!Receive(m)))

FairConductor == ConductorSpec /\ Fair

-----------------------------------------------------------------------------

(* The workers that ever had a task, and those of them with an alarm.      *)
Agents == {w \in Workers : task[w] # "none"}
AlarmAgents == {w \in Agents : job[w].type = "INCIDENT"}

(***************************************************************************)
(* No row of the database has two tasks: a launch that reports an error    *)
(* although its task runs is not tried again, and neither a restart, a     *)
(* redelivery nor a later pass brings the row back.                        *)
(***************************************************************************)
OneAgentPerRow ==
    \A v, w \in Agents :
        job[v].type = job[w].type /\ job[v].row = job[w].row => v = w

(***************************************************************************)
(* Two agents of one account start from alarms more than the chain window  *)
(* apart: whatever crashes, fails or is delivered again, a burst of alarms *)
(* has one agent.                                                          *)
(***************************************************************************)
AgentsAreApart ==
    \A v, w \in AlarmAgents : \A r, s \in alarms :
        v # w /\ r.id = job[v].row /\ s.id = job[w].row /\ r.acct = s.acct
            => ~ P!Sched!Linked(r, s)

About(d, m) ==
    \/ m \in TicketMsgs /\ d.type = "TICKET" /\ d.row \in stored[m]
    \/ m \in AlarmMsgs /\ d.type = "INCIDENT" /\ d.row \in stored[m]

AgentsOf(m) == {w \in Agents : About(job[w], m)}

(***************************************************************************)
(* One message starts one agent, and one more for each disturbance of the  *)
(* pipeline at most: across restarts and redeliveries an agent is never    *)
(* started twice for a message that nothing went wrong with.               *)
(***************************************************************************)
AgentsNeedUpsets == \A m \in P!Msgs : Cardinality(AgentsOf(m)) <= 1 + upsets

(***************************************************************************)
(* A ticket that reaches the queue has an agent that works on it and ends  *)
(* in good order, unless something went wrong: a disturbance, a shutdown,  *)
(* a launch that failed, a worker that died.                               *)
(***************************************************************************)
EveryTicketServed ==
    \A m \in TicketMsgs :
        queue[m] = "visible" ~>
            (\E w \in AgentsOf(m) : task[w] = "ended") \/ upsets + faults > 0

-----------------------------------------------------------------------------
(* The inductive invariant behind OneAgentPerRow.                          *)

Started(w) == has(w, "spawnStarted")

(* The decisions in the loop's hands are new, but for the one that         *)
(* spawnWorker is busy with; the process takes them with it.               *)
TodoInv ==
    /\ DOMAIN loop = {"at", "msg", "fresh", "todo"} /\ DOMAIN job = Workers
    /\ loop.todo \subseteq issued /\ (~ up => loop.todo = {})
    /\ \A w \in Workers : Started(w) =>
          /\ job[w] \in issued
          /\ job[w] \in loop.todo => spawn.at # "idle" /\ spawn.worker = w

JobInv == \A v, w \in Workers : Started(v) /\ Started(w) /\ job[v] = job[w] => v = w

=============================================================================
