---------------------------- MODULE ConductorProofs ----------------------------
(***************************************************************************)
(* First the registry by itself: it keeps its inductive invariant, for any *)
(* set of workers and any number of faults, and with it the safety         *)
(* properties its run checks.  Each lemma keeps one conjunct of the        *)
(* invariant, action by action.                                            *)
(*                                                                         *)
(* Then the conductor, which is a registry and a pipeline at once, so that *)
(* what holds of each half holds of the process; and across the two halves *)
(* no decision of the scheduler ever has two tasks.                        *)
(***************************************************************************)
EXTENDS Conductor, FiniteSetTheorems, TLAPS

(***************************************************************************)
(* Every action keeps the types.                                           *)
(***************************************************************************)
LEMMA TypeStep ==
    ASSUME TypeOK, SpawnInv, [Next]_vars PROVE TypeOK'
<1> USE RegistryAssumption DEF TypeOK, SpawnInv, Event, TaskState
<1>1. ASSUME NEW w \in Workers, Register(w) PROVE TypeOK'
  BY <1>1 DEF Register, At, recordEvent, shut
<1>2. ASSUME Launch PROVE TypeOK'
  BY <1>2 DEF Launch, At, Goto, SetTask, shut
<1>3. ASSUME LaunchReturns PROVE TypeOK'
  BY <1>3 DEF LaunchReturns, At, shut
<1>4. ASSUME LaunchFails \/ BuildRunTaskInputFails PROVE TypeOK'
  BY <1>4 DEF LaunchFails, BuildRunTaskInputFails, At, Goto, Fault, shut
<1>5. ASSUME RecordBadlyEnded PROVE TypeOK'
  BY <1>5 DEF RecordBadlyEnded, At, Goto, recordEvent, shut
<1>6. ASSUME RemoveFailed PROVE TypeOK'
  BY <1>6 DEF RemoveFailed, At, shut
<1>7. ASSUME NEW w \in Workers, EcsStep(w) PROVE TypeOK'
  BY <1>7 DEF EcsStep, EcsStarts, EcsRefuses, SetTask, poll, shut
<1>8. ASSUME NEW w \in Workers, WorkerStep(w) PROVE TypeOK'
  BY <1>8 DEF WorkerStep, WorkerStartsHandshake, WorkerRequestsWorkFiles,
              WorkFilesSent, WorkerUploadsFiles, UploadReceived,
              WorkerStartsShutdown, waitFargateAndDeregister,
              WorkerSendsCodexError, deregisterFailed, LosesConductor,
              BeginTransfer, EndTransfer, RecordEnd, Deregister, Rejected,
              SetTask, SetRpc, recordEvent, Calls, poll, shut
<1>9. ASSUME NEW w \in Workers, SilentDeath(w) PROVE TypeOK'
  BY <1>9 DEF SilentDeath, Alive, Fault, SetTask, SetRpc, poll, shut
<1>10. ASSUME RequestShutdown \/ GateStep PROVE TypeOK'
  BY <1>10 DEF RequestShutdown, GateStep, GateStopsPolling, GateCounts,
               GateExits, ActiveWorkers, poll
<1>11. ASSUME UNCHANGED vars PROVE TypeOK'
  BY <1>11 DEF vars, poll, shut
<1>12. ASSUME Crash PROVE TypeOK'
  <2> USE <1>12 DEF Crash, Fault, poll
  <2>1. faults' \in 0 .. MaxFaults
    <3>1. faults < MaxFaults /\ faults' = faults + 1
      OBVIOUS
    <3>2. faults \in 0 .. MaxFaults
      OBVIOUS
    <3> QED
      BY <3>1, <3>2, SMT
  <2>2. /\ up' \in BOOLEAN
        /\ UNCHANGED <<registry, events, spawn, stopped, request, gate, ready>>
        /\ UNCHANGED <<task, rpc, launched, orphans>>
    OBVIOUS
  <2> QED
    BY <2>1, <2>2
<1>13. ASSUME Start PROVE TypeOK'
  <2> USE <1>13 DEF Start
  <2>1. spawn' \in [at : {"idle", "registered", "launching", "failed", "removing"},
                    worker : Workers \cup {None}]
    OBVIOUS
  <2>2. /\ events' \in [Workers -> SUBSET Event]
        /\ task' \in [Workers -> TaskState]
        /\ rpc' \in [Workers -> {"none", "files", "upload", "ending", "failing"}]
    OBVIOUS
  <2>3. registry' \subseteq Workers /\ launched' \subseteq Workers
        /\ orphans' \subseteq Workers
    OBVIOUS
  <2> QED
    BY <2>1, <2>2, <2>3
<1> QED
  BY <1>1, <1>2, <1>3, <1>4, <1>5, <1>6, <1>7, <1>8, <1>9, <1>10, <1>11,
     <1>12, <1>13 DEF Next, SpawnStep

(***************************************************************************)
(* Every action keeps what is known of the worker being spawned.           *)
(***************************************************************************)
LEMMA SpawnInvStep ==
    ASSUME IInv, TypeOK', [Next]_vars PROVE SpawnInv'
<1> USE RegistryAssumption
    DEF IInv, TypeOK, SpawnInv, RegistryInv, WorkerInv, Event, TaskState,
        has, Finished, Alive
<1>1. ASSUME NEW w \in Workers, Register(w) PROVE SpawnInv'
  BY <1>1 DEF Register, At, recordEvent, shut
<1>2. ASSUME Launch PROVE SpawnInv'
  BY <1>2 DEF Launch, At, Goto, SetTask, shut
<1>3. ASSUME LaunchReturns PROVE SpawnInv'
  BY <1>3 DEF LaunchReturns, At, shut
<1>4. ASSUME LaunchFails \/ BuildRunTaskInputFails PROVE SpawnInv'
  BY <1>4 DEF LaunchFails, BuildRunTaskInputFails, At, Goto, Fault, shut
<1>5. ASSUME RecordBadlyEnded PROVE SpawnInv'
  BY <1>5 DEF RecordBadlyEnded, At, Goto, recordEvent, shut
<1>6. ASSUME RemoveFailed PROVE SpawnInv'
  BY <1>6 DEF RemoveFailed, At, shut
<1>7. ASSUME NEW w \in Workers, EcsStep(w) PROVE SpawnInv'
  BY <1>7 DEF EcsStep, EcsStarts, EcsRefuses, SetTask, poll, shut
<1>8. ASSUME NEW w \in Workers, WorkerStep(w) PROVE SpawnInv'
  BY <1>8 DEF WorkerStep, WorkerStartsHandshake, WorkerRequestsWorkFiles,
              WorkFilesSent, WorkerUploadsFiles, UploadReceived,
              WorkerStartsShutdown, waitFargateAndDeregister,
              WorkerSendsCodexError, deregisterFailed, LosesConductor,
              BeginTransfer, EndTransfer, RecordEnd, Deregister, Rejected,
              SetTask, SetRpc, recordEvent, Calls, poll, shut
<1>9. ASSUME NEW w \in Workers, SilentDeath(w) PROVE SpawnInv'
  BY <1>9 DEF SilentDeath, Alive, Fault, SetTask, SetRpc, poll, shut
<1>10. ASSUME RequestShutdown \/ GateStep PROVE SpawnInv'
  BY <1>10 DEF RequestShutdown, GateStep, GateStopsPolling, GateCounts,
               GateExits, ActiveWorkers, poll
<1>11. ASSUME UNCHANGED vars PROVE SpawnInv'
  BY <1>11 DEF vars, poll, shut
<1>12. ASSUME Crash \/ Start PROVE SpawnInv'
  BY <1>12 DEF Crash, Start, Fault, poll
<1> QED
  BY <1>1, <1>2, <1>3, <1>4, <1>5, <1>6, <1>7, <1>8, <1>9, <1>10, <1>11,
     <1>12 DEF Next, SpawnStep

(***************************************************************************)
(* Every action keeps the registry in step with the launches.              *)
(***************************************************************************)
LEMMA RegistryInvStep ==
    ASSUME IInv, TypeOK', [Next]_vars PROVE RegistryInv'
<1> USE RegistryAssumption
    DEF IInv, TypeOK, SpawnInv, RegistryInv, WorkerInv, Event, TaskState,
        has, Finished, Alive
<1>1. ASSUME NEW w \in Workers, Register(w) PROVE RegistryInv'
  BY <1>1 DEF Register, At, recordEvent, shut
<1>2. ASSUME Launch PROVE RegistryInv'
  BY <1>2 DEF Launch, At, Goto, SetTask, shut
<1>3. ASSUME LaunchReturns PROVE RegistryInv'
  BY <1>3 DEF LaunchReturns, At, shut
<1>4. ASSUME LaunchFails \/ BuildRunTaskInputFails PROVE RegistryInv'
  BY <1>4 DEF LaunchFails, BuildRunTaskInputFails, At, Goto, Fault, shut
<1>5. ASSUME RecordBadlyEnded PROVE RegistryInv'
  BY <1>5 DEF RecordBadlyEnded, At, Goto, recordEvent, shut
<1>6. ASSUME RemoveFailed PROVE RegistryInv'
  BY <1>6 DEF RemoveFailed, At, shut
<1>7. ASSUME NEW w \in Workers, EcsStep(w) PROVE RegistryInv'
  BY <1>7 DEF EcsStep, EcsStarts, EcsRefuses, SetTask, poll, shut
<1>8. ASSUME NEW w \in Workers, WorkerStep(w) PROVE RegistryInv'
  BY <1>8 DEF WorkerStep, WorkerStartsHandshake, WorkerRequestsWorkFiles,
              WorkFilesSent, WorkerUploadsFiles, UploadReceived,
              WorkerStartsShutdown, waitFargateAndDeregister,
              WorkerSendsCodexError, deregisterFailed, LosesConductor,
              BeginTransfer, EndTransfer, RecordEnd, Deregister, Rejected,
              SetTask, SetRpc, recordEvent, Calls, poll, shut
<1>9. ASSUME NEW w \in Workers, SilentDeath(w) PROVE RegistryInv'
  BY <1>9 DEF SilentDeath, Alive, Fault, SetTask, SetRpc, poll, shut
<1>10. ASSUME RequestShutdown \/ GateStep PROVE RegistryInv'
  BY <1>10 DEF RequestShutdown, GateStep, GateStopsPolling, GateCounts,
               GateExits, ActiveWorkers, poll
<1>11. ASSUME UNCHANGED vars PROVE RegistryInv'
  BY <1>11 DEF vars, poll, shut
<1>12. ASSUME Crash \/ Start PROVE RegistryInv'
  BY <1>12 DEF Crash, Start, Fault, poll
<1> QED
  BY <1>1, <1>2, <1>3, <1>4, <1>5, <1>6, <1>7, <1>8, <1>9, <1>10, <1>11,
     <1>12 DEF Next, SpawnStep

(***************************************************************************)
(* Every action keeps each worker's progress and events in step.           *)
(***************************************************************************)
LEMMA WorkerInvStep ==
    ASSUME IInv, TypeOK', [Next]_vars PROVE (\A v \in Workers : WorkerInv(v))'
<1> USE RegistryAssumption
    DEF IInv, TypeOK, SpawnInv, RegistryInv, WorkerInv, Event, TaskState, has, Alive, Finished
<1>1. ASSUME NEW w \in Workers, Register(w) PROVE (\A v \in Workers : WorkerInv(v))'
  BY <1>1 DEF Register, At, recordEvent, shut
<1>2. ASSUME Launch PROVE (\A v \in Workers : WorkerInv(v))'
  BY <1>2 DEF Launch, At, Goto, SetTask, shut
<1>3. ASSUME LaunchReturns PROVE (\A v \in Workers : WorkerInv(v))'
  BY <1>3 DEF LaunchReturns, At, shut
<1>4. ASSUME LaunchFails \/ BuildRunTaskInputFails
      PROVE (\A v \in Workers : WorkerInv(v))'
  BY <1>4 DEF LaunchFails, BuildRunTaskInputFails, At, Goto, Fault, shut
<1>5. ASSUME RecordBadlyEnded PROVE (\A v \in Workers : WorkerInv(v))'
  BY <1>5 DEF RecordBadlyEnded, At, Goto, recordEvent, shut
<1>6. ASSUME RemoveFailed PROVE (\A v \in Workers : WorkerInv(v))'
  BY <1>6 DEF RemoveFailed, At, shut
<1>7. ASSUME NEW w \in Workers, EcsStep(w) PROVE (\A v \in Workers : WorkerInv(v))'
  BY <1>7 DEF EcsStep, EcsStarts, EcsRefuses, SetTask, poll, shut
<1>8. ASSUME NEW w \in Workers, WorkerStep(w) PROVE (\A v \in Workers : WorkerInv(v))'
  <2> USE DEF SetTask, SetRpc, poll, shut
  <2>1. CASE WorkerStartsHandshake(w)
    BY <2>1 DEF WorkerStartsHandshake, Calls, Rejected, recordEvent
  <2>2. CASE WorkerRequestsWorkFiles(w) \/ WorkerUploadsFiles(w)
    BY <2>2 DEF WorkerRequestsWorkFiles, WorkerUploadsFiles, BeginTransfer,
                Calls, Rejected
  <2>3. ASSUME NEW h \in {"files", "upload"}, rpc[w] = h,
               NEW e \in Event, NEW t \in {"working", "uploaded"},
               EndTransfer(w, h, e, t),
               h = "files" => e = "gotFilesSucceeded" /\ t = "working",
               h = "upload" => e = "uploadedFilesSucceeded" /\ t = "uploaded"
        PROVE  (\A v \in Workers : WorkerInv(v))'
    <3>1. TAKE v \in Workers
    <3>2. CASE v # w
      BY <2>3, <3>2 DEF EndTransfer, recordEvent
    <3>3. CASE v = w
      <4>1. events'[w] = events[w] \cup {e} /\ rpc'[w] = "none" /\ task'[w] = t
        BY <2>3 DEF EndTransfer, recordEvent
      <4>2. WorkerInv(w) /\ registry' = registry
        BY <2>3 DEF EndTransfer
      <4> QED
        BY <2>3, <3>3, <4>1, <4>2
    <3> QED
      BY <3>2, <3>3
  <2>4. CASE WorkFilesSent(w) \/ UploadReceived(w)
    BY <2>3, <2>4 DEF WorkFilesSent, UploadReceived, EndTransfer
  <2>5. CASE WorkerStartsShutdown(w) \/ WorkerSendsCodexError(w)
    BY <2>5 DEF WorkerStartsShutdown, WorkerSendsCodexError, RecordEnd, Calls,
                Rejected, recordEvent
  <2>6. CASE waitFargateAndDeregister(w) \/ deregisterFailed(w)
    BY <2>6 DEF waitFargateAndDeregister, deregisterFailed, Deregister
  <2>7. CASE LosesConductor(w)
    BY <2>7 DEF LosesConductor
  <2> QED
    BY <1>8, <2>1, <2>2, <2>3, <2>4, <2>5, <2>6, <2>7 DEF WorkerStep
<1>9. ASSUME NEW w \in Workers, SilentDeath(w) PROVE (\A v \in Workers : WorkerInv(v))'
  BY <1>9 DEF SilentDeath, Alive, Fault, SetTask, SetRpc, poll, shut
<1>10. ASSUME RequestShutdown \/ GateStep PROVE (\A v \in Workers : WorkerInv(v))'
  BY <1>10 DEF RequestShutdown, GateStep, GateStopsPolling, GateCounts,
               GateExits, ActiveWorkers, poll
<1>11. ASSUME UNCHANGED vars PROVE (\A v \in Workers : WorkerInv(v))'
  BY <1>11 DEF vars, poll, shut
<1>12. ASSUME Crash \/ Start PROVE (\A v \in Workers : WorkerInv(v))'
  BY <1>12 DEF Crash, Start, Fault, poll
<1> QED
  BY <1>1, <1>2, <1>3, <1>4, <1>5, <1>6, <1>7, <1>8, <1>9, <1>10, <1>11,
     <1>12 DEF Next, SpawnStep

(***************************************************************************)
(* No event is recorded before the one that the protocol puts before it.   *)
(***************************************************************************)
LEMMA OrderStep ==
    ASSUME IInv, TypeOK', [Next]_vars PROVE EventsComeInOrder'
<1> USE RegistryAssumption
    DEF IInv, TypeOK, SpawnInv, WorkerInv, EventsComeInOrder, Event,
        TaskState, has, Alive
<1>1. ASSUME NEW w \in Workers, Register(w) PROVE EventsComeInOrder'
  BY <1>1 DEF Register, At, recordEvent, shut
<1>2. ASSUME Launch PROVE EventsComeInOrder'
  BY <1>2 DEF Launch, At, Goto, SetTask, shut
<1>3. ASSUME LaunchReturns PROVE EventsComeInOrder'
  BY <1>3 DEF LaunchReturns, At, shut
<1>4. ASSUME LaunchFails \/ BuildRunTaskInputFails PROVE EventsComeInOrder'
  BY <1>4 DEF LaunchFails, BuildRunTaskInputFails, At, Goto, Fault, shut
<1>5. ASSUME RecordBadlyEnded PROVE EventsComeInOrder'
  BY <1>5 DEF RecordBadlyEnded, At, Goto, recordEvent, shut
<1>6. ASSUME RemoveFailed PROVE EventsComeInOrder'
  BY <1>6 DEF RemoveFailed, At, shut
<1>7. ASSUME NEW w \in Workers, EcsStep(w) PROVE EventsComeInOrder'
  BY <1>7 DEF EcsStep, EcsStarts, EcsRefuses, SetTask, poll, shut
<1>8. ASSUME NEW w \in Workers, WorkerStep(w) PROVE EventsComeInOrder'
  BY <1>8 DEF WorkerStep, WorkerStartsHandshake, WorkerRequestsWorkFiles,
              WorkFilesSent, WorkerUploadsFiles, UploadReceived,
              WorkerStartsShutdown, waitFargateAndDeregister,
              WorkerSendsCodexError, deregisterFailed, LosesConductor,
              BeginTransfer, EndTransfer, RecordEnd, Deregister, Rejected,
              SetTask, SetRpc, recordEvent, Calls, poll, shut
<1>9. ASSUME NEW w \in Workers, SilentDeath(w) PROVE EventsComeInOrder'
  BY <1>9 DEF SilentDeath, Alive, Fault, SetTask, SetRpc, poll, shut
<1>10. ASSUME RequestShutdown \/ GateStep PROVE EventsComeInOrder'
  BY <1>10 DEF RequestShutdown, GateStep, GateStopsPolling, GateCounts,
               GateExits, ActiveWorkers, poll
<1>11. ASSUME UNCHANGED vars PROVE EventsComeInOrder'
  BY <1>11 DEF vars, poll, shut
<1>12. ASSUME Crash \/ Start PROVE EventsComeInOrder'
  BY <1>12 DEF Crash, Start, Fault, poll
<1> QED
  BY <1>1, <1>2, <1>3, <1>4, <1>5, <1>6, <1>7, <1>8, <1>9, <1>10, <1>11,
     <1>12 DEF Next, SpawnStep

(***************************************************************************)
(* Every action keeps what is known once the gate has decided.             *)
(***************************************************************************)
LEMMA GateInvStep ==
    ASSUME IInv, TypeOK', [Next]_vars PROVE GateInv'
<1> USE RegistryAssumption
    DEF IInv, TypeOK, SpawnInv, RegistryInv, WorkerInv, GateInv, AtWork,
        Event, TaskState, has, Finished, Alive
<1>1. ASSUME NEW w \in Workers, Register(w) PROVE GateInv'
  BY <1>1 DEF Register, At, recordEvent, shut
<1>2. ASSUME Launch PROVE GateInv'
  BY <1>2 DEF Launch, At, Goto, SetTask, shut
<1>3. ASSUME LaunchReturns PROVE GateInv'
  BY <1>3 DEF LaunchReturns, At, shut
<1>4. ASSUME LaunchFails \/ BuildRunTaskInputFails PROVE GateInv'
  BY <1>4 DEF LaunchFails, BuildRunTaskInputFails, At, Goto, Fault, shut
<1>5. ASSUME RecordBadlyEnded PROVE GateInv'
  BY <1>5 DEF RecordBadlyEnded, At, Goto, recordEvent, shut
<1>6. ASSUME RemoveFailed PROVE GateInv'
  BY <1>6 DEF RemoveFailed, At, shut
<1>7. ASSUME NEW w \in Workers, EcsStep(w) PROVE GateInv'
  BY <1>7 DEF EcsStep, EcsStarts, EcsRefuses, SetTask, poll, shut
<1>8. ASSUME NEW w \in Workers, WorkerStep(w) PROVE GateInv'
  BY <1>8 DEF WorkerStep, WorkerStartsHandshake, WorkerRequestsWorkFiles,
              WorkFilesSent, WorkerUploadsFiles, UploadReceived,
              WorkerStartsShutdown, waitFargateAndDeregister,
              WorkerSendsCodexError, deregisterFailed, LosesConductor,
              BeginTransfer, EndTransfer, RecordEnd, Deregister, Rejected,
              SetTask, SetRpc, recordEvent, Calls, poll, shut
<1>9. ASSUME NEW w \in Workers, SilentDeath(w) PROVE GateInv'
  BY <1>9 DEF SilentDeath, Alive, Fault, SetTask, SetRpc, poll, shut
<1>10. ASSUME RequestShutdown \/ GateStep PROVE GateInv'
  BY <1>10 DEF RequestShutdown, GateStep, GateStopsPolling, GateCounts,
               GateExits, ActiveWorkers, poll
<1>11. ASSUME UNCHANGED vars PROVE GateInv'
  BY <1>11 DEF vars, poll, shut
<1>12. ASSUME Crash \/ Start PROVE GateInv'
  BY <1>12 DEF Crash, Start, Fault, poll
<1> QED
  BY <1>1, <1>2, <1>3, <1>4, <1>5, <1>6, <1>7, <1>8, <1>9, <1>10, <1>11,
     <1>12 DEF Next, SpawnStep

(***************************************************************************)
(* The invariant holds initially and is kept by every step.                *)
(***************************************************************************)
LEMMA IInvInitially == Init => IInv
<1> SUFFICES ASSUME Init PROVE IInv
  OBVIOUS
<1> USE DEF Init
<1>1. TypeOK
  <2>1. spawn \in [at : {"idle", "registered", "launching", "failed", "removing"},
                   worker : Workers \cup {None}]
    OBVIOUS
  <2>2. /\ events \in [Workers -> SUBSET Event]
        /\ task \in [Workers -> TaskState]
        /\ rpc \in [Workers -> {"none", "files", "upload", "ending", "failing"}]
    BY DEF TaskState
  <2>3. faults \in 0 .. MaxFaults
    BY RegistryAssumption
  <2> QED
    BY <2>1, <2>2, <2>3 DEF TypeOK
<1>2. SpawnInv /\ RegistryInv /\ GateInv
  BY DEF SpawnInv, RegistryInv, GateInv, AtWork
<1>3. (\A v \in Workers : WorkerInv(v)) /\ EventsComeInOrder
  BY DEF WorkerInv, EventsComeInOrder, has, Alive, Finished
<1> QED
  BY <1>1, <1>2, <1>3 DEF IInv

LEMMA IInvStep == IInv /\ [Next]_vars => IInv'
<1> SUFFICES ASSUME IInv, [Next]_vars PROVE IInv'
  OBVIOUS
<1>1. TypeOK'
  BY TypeStep DEF IInv
<1>2. SpawnInv' /\ RegistryInv' /\ GateInv'
  BY <1>1, SpawnInvStep, RegistryInvStep, GateInvStep
<1>3. (\A v \in Workers : WorkerInv(v))'
  BY <1>1, WorkerInvStep
<1>4. EventsComeInOrder'
  BY <1>1, OrderStep
<1> QED
  BY <1>1, <1>2, <1>3, <1>4 DEF IInv

(***************************************************************************)
(* Registry keeps its invariant in every behaviour.                        *)
(***************************************************************************)
THEOREM Invariance == Spec => []IInv
  BY IInvInitially, IInvStep, PTL DEF Spec

(***************************************************************************)
(* The registry, the events and the tasks keep their types.                *)
(***************************************************************************)
THEOREM TypeCorrect == Spec => []TypeOK
<1>1. IInv => TypeOK
  BY DEF IInv
<1> QED
  BY <1>1, Invariance, PTL

(***************************************************************************)
(* shutdownGate: a worker whose launch has succeeded has reported its end  *)
(* before the gate decides that the process may end, in whatever order the *)
(* poll loop, the handlers and the gate run.                               *)
(***************************************************************************)
THEOREM GateWaits == Spec => []GateWaitsForWorkers
<1>1. IInv => GateWaitsForWorkers
  BY DEF IInv, TypeOK, GateInv, RegistryInv, AtWork, GateWaitsForWorkers, GatePassed, Finished, has
<1> QED
  BY <1>1, Invariance, PTL

(***************************************************************************)
(* grpcserver.go: of each worker the handshake, the work files, the upload *)
(* and the end are recorded in this order, as a step records one event and *)
(* never the later one first.                                              *)
(***************************************************************************)
THEOREM OrderOfEvents == Spec => []EventsComeInOrder
<1>1. IInv => EventsComeInOrder
  BY DEF IInv
<1> QED
  BY <1>1, Invariance, PTL

(***************************************************************************)
(* spawnWorker: between two spawns only launched workers are registered.   *)
(***************************************************************************)
THEOREM NoPhantoms == Spec => []NoPhantomWorker
<1>1. IInv => NoPhantomWorker
  BY DEF IInv, RegistryInv, NoPhantomWorker
<1> QED
  BY <1>1, Invariance, PTL

(***************************************************************************)
(* removeWorker: a task that runs unregistered comes from a launch that    *)
(* reported an error, or from an earlier process.                          *)
(***************************************************************************)
THEOREM UnknownTasks == Spec => []UnknownTaskOnlyAfterFailedLaunch
<1>1. IInv => UnknownTaskOnlyAfterFailedLaunch
  BY DEF IInv, WorkerInv, UnknownTaskOnlyAfterFailedLaunch
<1> QED
  BY <1>1, Invariance, PTL

(***************************************************************************)
(* What a worker's calls show of it changes only by its own calls, their   *)
(* answers, its death, and the restart of the conductor.                   *)
(***************************************************************************)
LEMMA OthersDoNotCall ==
    ASSUME IInv, NEW w \in Workers,
           \/ SpawnStep \/ BuildRunTaskInputFails \/ RequestShutdown \/ GateStep \/ Crash
           \/ \E v \in Workers : Register(v) \/ EcsStep(v)
           \/ \E v \in Workers \ {w} : WorkerStep(v) \/ SilentDeath(v)
           \/ UNCHANGED vars
    PROVE  UNCHANGED Contract(w)!vars
<1> DEFINE Kept == /\ Stage(w)' = Stage(w)
                   /\ \A e \in Event \ {"spawnStarted", "badlyEnded"} :
                         has(w, e)' <=> has(w, e)
<1>1. /\ events \in [Workers -> SUBSET Event]
      /\ task \in [Workers -> TaskState]
      /\ spawn.at # "idle" => spawn.worker \in Workers
      /\ spawn.at = "registered" => task[spawn.worker] = "none"
  BY DEF IInv, TypeOK, SpawnInv
<1> USE DEF Stage, has, recordEvent, SetTask, SetRpc, poll, shut, Event, TaskState
<1>2. ASSUME SpawnStep \/ BuildRunTaskInputFails PROVE Kept
  BY <1>1, <1>2 DEF SpawnStep, Launch, LaunchReturns, LaunchFails, RecordBadlyEnded,
     RemoveFailed, BuildRunTaskInputFails, At, Goto
<1>3. ASSUME RequestShutdown \/ GateStep \/ Crash PROVE Kept
  BY <1>3 DEF RequestShutdown, GateStep, GateStopsPolling, GateCounts, GateExits, Crash
<1>4. ASSUME NEW v \in Workers, Register(v) \/ EcsStep(v) PROVE Kept
  BY <1>1, <1>4 DEF Register, EcsStep, EcsStarts, EcsRefuses
<1>5. ASSUME NEW v \in Workers \ {w}, WorkerStep(v) \/ SilentDeath(v) PROVE Kept
  BY <1>1, <1>5 DEF WorkerStep, SilentDeath, WorkerStartsHandshake,
     WorkerRequestsWorkFiles, WorkFilesSent, WorkerUploadsFiles, UploadReceived,
     WorkerStartsShutdown, waitFargateAndDeregister, WorkerSendsCodexError,
     deregisterFailed, LosesConductor, BeginTransfer, EndTransfer, RecordEnd, Deregister
<1>6. ASSUME UNCHANGED vars PROVE Kept
  BY <1>6 DEF vars
<1>7. Kept
  BY <1>2, <1>3, <1>4, <1>5, <1>6
<1> QED
  BY <1>7 DEF Contract!vars, Told

(***************************************************************************)
(* Each of a worker's calls, and each way it may end, is one step of the   *)
(* protocol or none.                                                       *)
(***************************************************************************)
LEMMA CallsKeepProtocol ==
    ASSUME IInv, NEW w \in Workers, WorkerStep(w) \/ SilentDeath(w) \/ Start
    PROVE  [Contract(w)!Next]_(Contract(w)!vars)
<1> DEFINE uploaded == has(w, "uploadedFilesSucceeded")
<1>1. /\ events \in [Workers -> SUBSET Event]
      /\ task \in [Workers -> TaskState]
      /\ rpc \in [Workers -> {"none", "files", "upload", "ending", "failing"}]
      /\ WorkerInv(w)
  BY DEF IInv, TypeOK
<1> USE DEF Contract!Next, Contract!vars, Stage, Told, has, Finished, recordEvent,
        SetTask, SetRpc, TaskState, Event
<1>2. CASE WorkerStartsHandshake(w)
  <2>1. CASE Rejected(w)
    BY <1>1, <1>2, <2>1 DEF WorkerStartsHandshake, Calls, Contract!Dies
  <2>2. CASE ~ Rejected(w)
    BY <1>1, <1>2, <2>2 DEF WorkerStartsHandshake, Calls, Contract!HandshakeSucceeds
  <2> QED
    BY <2>1, <2>2
<1>3. CASE WorkerRequestsWorkFiles(w) \/ WorkerUploadsFiles(w)
  BY <1>1, <1>3 DEF WorkerRequestsWorkFiles, WorkerUploadsFiles, BeginTransfer,
     Calls, Contract!Dies
<1>4. CASE WorkFilesSent(w)
  BY <1>1, <1>4 DEF WorkFilesSent, EndTransfer, WorkerInv, Contract!WorkFilesArrive
<1>5. CASE UploadReceived(w)
  BY <1>1, <1>5 DEF UploadReceived, EndTransfer, WorkerInv, Contract!ResultsStored
<1>6. CASE WorkerStartsShutdown(w)
  <2>1. CASE Rejected(w)
    BY <1>1, <1>6, <2>1 DEF WorkerStartsShutdown, RecordEnd, Calls, Contract!Dies
  <2>2. CASE ~ Rejected(w)
    BY <1>1, <1>6, <2>2 DEF WorkerStartsShutdown, RecordEnd, Calls, WorkerInv,
       Contract!TellEnd
  <2> QED
    BY <2>1, <2>2
<1>7. CASE WorkerSendsCodexError(w)
  <2>1. CASE Rejected(w)
    BY <1>1, <1>7, <2>1 DEF WorkerSendsCodexError, RecordEnd, Calls, Contract!Dies
  <2>2. CASE ~ Rejected(w)
    BY <1>1, <1>7, <2>2 DEF WorkerSendsCodexError, RecordEnd, Calls, WorkerInv,
       Contract!TellEnd
  <2> QED
    BY <2>1, <2>2
<1>8. CASE waitFargateAndDeregister(w) \/ deregisterFailed(w)
  <2>1. CASE w \in registry
    BY <1>1, <1>8, <2>1 DEF waitFargateAndDeregister, deregisterFailed, Deregister,
       WorkerInv, Contract!Answered
  <2>2. CASE w \notin registry
    BY <1>1, <1>8, <2>2 DEF waitFargateAndDeregister, deregisterFailed, Deregister,
       WorkerInv, Contract!Dies
  <2> QED
    BY <2>1, <2>2
<1>9. CASE SilentDeath(w) \/ LosesConductor(w)
  BY <1>1, <1>9 DEF SilentDeath, LosesConductor, Alive, Contract!Dies
<1>10. CASE Start
  BY <1>1, <1>10 DEF Start, WorkerInv, Alive, Contract!Dies
<1> QED
  BY <1>2, <1>3, <1>4, <1>5, <1>6, <1>7, <1>8, <1>9, <1>10 DEF WorkerStep

(***************************************************************************)
(* Handlers, registry, restarts and deaths together give each worker the   *)
(* protocol its program is written for.                                    *)
(***************************************************************************)
THEOREM ProtocolKept == Spec => WorkersKeepProtocol
<1>1. Init => \A w \in Workers : Contract(w)!Init
  BY DEF Init, Contract!Init, Stage, Told, has
<1>2. IInv /\ [Next]_vars => \A w \in Workers : [Contract(w)!Next]_(Contract(w)!vars)
  <2> SUFFICES ASSUME IInv, [Next]_vars, NEW w \in Workers
               PROVE  [Contract(w)!Next]_(Contract(w)!vars)
    OBVIOUS
  <2>1. CASE WorkerStep(w) \/ SilentDeath(w) \/ Start
    BY <2>1, CallsKeepProtocol
  <2>2. CASE ~ (WorkerStep(w) \/ SilentDeath(w) \/ Start)
    BY <2>2, OthersDoNotCall DEF Next
  <2> QED
    BY <2>1, <2>2
<1> QED
  BY <1>1, <1>2, Invariance, PTL DEF Spec, WorkersKeepProtocol

(***************************************************************************)
(* Only a launch that is not cancelled puts a worker to work.              *)
(***************************************************************************)
LEMMA WorkOnlyByLaunch ==
    ASSUME IInv, [Next]_vars, ~ Start
    PROVE  (Launch /\ ~ stopped) \/ AtWork' \subseteq AtWork
<1> USE DEF IInv, TypeOK, SpawnInv, RegistryInv, has, AtWork
<1>1. ASSUME NEW w \in Workers, Register(w) PROVE AtWork' \subseteq AtWork
  BY <1>1 DEF Register, At, recordEvent, shut
<1>2. ASSUME Launch, stopped PROVE AtWork' \subseteq AtWork
  BY <1>2 DEF Launch, At, Goto, shut
<1>3. ASSUME LaunchReturns PROVE AtWork' \subseteq AtWork
  BY <1>3 DEF LaunchReturns, At, shut
<1>4. ASSUME LaunchFails \/ BuildRunTaskInputFails PROVE AtWork' \subseteq AtWork
  BY <1>4 DEF LaunchFails, BuildRunTaskInputFails, At, Goto, shut
<1>5. ASSUME RecordBadlyEnded \/ RemoveFailed PROVE AtWork' \subseteq AtWork
  BY <1>5 DEF RecordBadlyEnded, RemoveFailed, At, Goto, recordEvent, shut
<1>6. ASSUME NEW w \in Workers, EcsStep(w) \/ SilentDeath(w)
      PROVE AtWork' \subseteq AtWork
  BY <1>6 DEF EcsStep, EcsStarts, EcsRefuses, SilentDeath, poll, shut
<1>7. ASSUME NEW w \in Workers, WorkerStep(w) PROVE AtWork' \subseteq AtWork
  BY <1>7 DEF WorkerStep, WorkerStartsHandshake, WorkerRequestsWorkFiles,
       WorkFilesSent, WorkerUploadsFiles, UploadReceived,
       WorkerStartsShutdown, waitFargateAndDeregister,
       WorkerSendsCodexError, deregisterFailed, LosesConductor,
       BeginTransfer, EndTransfer, RecordEnd, Deregister, recordEvent, poll, shut
<1>8. ASSUME RequestShutdown \/ GateStep \/ Crash PROVE AtWork' \subseteq AtWork
  BY <1>8 DEF RequestShutdown, GateStep, GateStopsPolling, GateCounts,
       GateExits, Crash, poll
<1>9. ASSUME UNCHANGED vars PROVE AtWork' \subseteq AtWork
  BY <1>9 DEF vars, poll
<1> QED
  BY <1>1, <1>2, <1>3, <1>4, <1>5, <1>6, <1>7, <1>8, <1>9 DEF Next, SpawnStep

(***************************************************************************)
(* The gate and the requests leave the workers alone; every other step of  *)
(* a process leaves request, gate and process alone.                       *)
(***************************************************************************)
LEMMA OtherStepsLeaveTheGate ==
    ASSUME [Next]_vars
    PROVE  \/ RequestShutdown \/ Crash \/ Start \/ GateStep
           \/ UNCHANGED <<stopped, request, gate, ready, up>>
<1>1. ASSUME NEW w \in Workers, Register(w) \/ EcsStep(w) \/ SilentDeath(w)
      PROVE UNCHANGED <<stopped, request, gate, ready, up>>
  BY <1>1 DEF Register, EcsStep, EcsStarts, EcsRefuses, SilentDeath, shut
<1>2. ASSUME NEW w \in Workers, WorkerStep(w)
      PROVE UNCHANGED <<stopped, request, gate, ready, up>>
  BY <1>2 DEF WorkerStep, WorkerStartsHandshake, WorkerRequestsWorkFiles,
       WorkFilesSent, WorkerUploadsFiles, UploadReceived,
       WorkerStartsShutdown, waitFargateAndDeregister,
       WorkerSendsCodexError, deregisterFailed, LosesConductor,
       BeginTransfer, EndTransfer, RecordEnd, Deregister, shut
<1>3. ASSUME SpawnStep \/ BuildRunTaskInputFails \/ UNCHANGED vars
      PROVE UNCHANGED <<stopped, request, gate, ready, up>>
  BY <1>3 DEF SpawnStep, Launch, LaunchReturns, LaunchFails, RecordBadlyEnded,
       RemoveFailed, BuildRunTaskInputFails, vars, shut
<1> QED
  BY <1>1, <1>2, <1>3 DEF Next

(***************************************************************************)
(* What Deploy assumes of the conductor holds of registry, poll loop and   *)
(* gate: every step either leaves what the deployment can see alone, or is *)
(* one of the conductor's steps there.                                     *)
(***************************************************************************)
THEOREM GateRefines == Spec => GateImplementsDeploy
<1> DEFINE Abstract == D!ConductorStep \/ RequestShutdown \/ Crash \/ Start
<1>1. ASSUME IInv, [Next]_vars PROVE [Abstract]_(D!vars)
  <2> USE DEF D!vars, D!host, D!script, D!history
  <2>1. CASE RequestShutdown \/ Crash \/ Start
    BY <2>1
  <2>2. CASE UNCHANGED <<stopped, request, gate, ready, up>> /\ ~ Start
    <3>1. CASE Launch /\ ~ stopped
      <4>1. up /\ ~ stopped
        BY <3>1 DEF Launch, At
      <4>2. CASE (AtWork # {}) = (AtWork' # {})
        BY <2>2, <4>2
      <4>3. CASE AtWork = {} /\ AtWork' # {}
        <5>1. D!SpawnWorker
          BY <2>2, <4>1, <4>3 DEF D!SpawnWorker
        <5> QED
          BY <5>1 DEF D!ConductorStep
      <4>4. CASE AtWork # {} /\ AtWork' = {}
        <5>1. D!WorkersEnd
          BY <2>2, <4>1, <4>4 DEF D!WorkersEnd, D!Running
        <5> QED
          BY <5>1 DEF D!ConductorStep
      <4> QED
        BY <4>2, <4>3, <4>4
    <3>2. CASE AtWork' \subseteq AtWork
      <4>1. CASE (up /\ AtWork # {}) = (up /\ AtWork' # {})
        BY <2>2, <4>1
      <4>2. CASE up /\ AtWork # {} /\ AtWork' = {}
        <5>1. D!WorkersEnd
          BY <2>2, <4>2 DEF D!WorkersEnd, D!Running
        <5> QED
          BY <5>1 DEF D!ConductorStep
      <4> QED
        BY <3>2, <4>1, <4>2
    <3> QED
      BY <1>1, <2>2, <3>1, <3>2, WorkOnlyByLaunch
  <2>3. CASE GateStopsPolling
    <3>1. AtWork' = AtWork /\ UNCHANGED <<request, ready, up>> /\ up /\ request
      BY <2>3 DEF GateStopsPolling, AtWork, has, poll
    <3>2. stopped' = TRUE
      BY <2>3 DEF GateStopsPolling
    <3>3. CASE stopped
      BY <3>1, <3>2, <3>3
    <3>4. CASE ~ stopped
      <4>1. D!GateStopsPolling
        BY <3>1, <3>2, <3>4 DEF D!GateStopsPolling
      <4> QED
        BY <4>1 DEF D!ConductorStep
    <3> QED
      BY <3>3, <3>4
  <2>4. CASE GateCounts
    <3>1. AtWork' = AtWork /\ UNCHANGED <<stopped, request, ready, up>> /\ up
      BY <2>4 DEF GateCounts, AtWork, has, poll
    <3> QED
      BY <3>1
  <2>5. CASE GateExits
    <3>1. /\ AtWork = {} /\ stopped /\ up /\ ready = FALSE /\ gate = "write"
      BY <1>1, <2>5 DEF GateExits, IInv, TypeOK, GateInv
    <3>2. UNCHANGED <<stopped, request, gate>> /\ up' = FALSE /\ ready' \in BOOLEAN
      BY <2>5 DEF GateExits
    <3>3. D!GatePasses
      BY <3>1, <3>2 DEF D!GatePasses
    <3> QED
      BY <3>3 DEF D!ConductorStep
  <2> QED
    BY <1>1, <2>1, <2>2, <2>3, <2>4, <2>5, OtherStepsLeaveTheGate DEF GateStep
<1>2. IInv /\ [Next]_vars => [Abstract]_(D!vars)
  BY <1>1
<1> QED
  BY <1>2, Invariance, PTL DEF Spec, GateImplementsDeploy

-----------------------------------------------------------------------------
(*                  The conductor: both halves together.                   *)

(***************************************************************************)
(* What the composed steps do to the pipeline.                             *)
(***************************************************************************)
LEMMA PipelineStep ==
    ASSUME [ConductorNext]_all PROVE [P!Next]_(P!vars)
<1>1. ASSUME Along(QueueStep) PROVE P!Next
  BY <1>1 DEF Along, QueueStep, P!Next
<1>2. ASSUME Along(PollerStep) PROVE P!Next
  BY <1>2 DEF Along, PollerStep, P!Next
<1>3. ASSUME Along(LoopStep) PROVE P!Next
  BY <1>3 DEF Along, LoopStep, P!Next
<1>4. ASSUME Along(PrepareFails) PROVE P!Next
  BY <1>4 DEF Along, PrepareFails, P!Next
<1>5. ASSUME Along(P!Tick) PROVE P!Next
  BY <1>5 DEF Along, P!Next
<1>6. ASSUME UNCHANGED <<pipeline, up, stopped>> PROVE UNCHANGED P!vars
  BY <1>6 DEF pipeline, P!vars, P!schedVars
<1>7. ASSUME Alone(RegistryStep) PROVE UNCHANGED P!vars
  <2>1. UNCHANGED <<up, stopped>>
    BY <1>7 DEF Alone, RegistryStep, Launch, LaunchFails, BuildRunTaskInputFails,
         RecordBadlyEnded, EcsStep, EcsStarts, EcsRefuses, WorkerStep,
         WorkerStartsHandshake, WorkerRequestsWorkFiles, WorkFilesSent,
         WorkerUploadsFiles, UploadReceived, WorkerStartsShutdown,
         waitFargateAndDeregister, WorkerSendsCodexError, deregisterFailed,
         LosesConductor, BeginTransfer, EndTransfer, RecordEnd, Deregister,
         SilentDeath, GateCounts, RequestShutdown, shut
  <2> QED
    BY <1>6, <1>7, <2>1 DEF Alone
<1>8. ASSUME NEW w \in Workers, NEW d \in loop.todo, RegisterFor(w, d)
      PROVE  UNCHANGED P!vars
  <2>1. UNCHANGED <<up, stopped>>
    BY <1>8 DEF RegisterFor, Register, shut
  <2> QED
    BY <1>6, <1>8, <2>1 DEF RegisterFor
<1>9. ASSUME LaunchSucceedsFor \/ LaunchFailsFor PROVE P!Next
  BY <1>9 DEF LaunchSucceedsFor, LaunchFailsFor, P!Spawn, P!SpawnFails, P!Next
<1>10. ASSUME Drain PROVE [P!Next]_(P!vars)
  <2>1. CASE stopped
    <3>1. UNCHANGED <<pipeline, up, stopped>>
      BY <1>10, <2>1 DEF Drain, GateStopsPolling
    <3> QED
      BY <1>6, <3>1
  <2>2. CASE ~ stopped
    BY <1>10, <2>2 DEF Drain, P!Next
  <2> QED
    BY <2>1, <2>2
<1>11. ASSUME Exit \/ CrashBoth \/ Restart PROVE P!Next
  BY <1>11 DEF Exit, CrashBoth, Restart, P!Next
<1>12. ASSUME UNCHANGED all PROVE UNCHANGED P!vars
  BY <1>6, <1>12 DEF all, vars, shut
<1> QED
  BY <1>1, <1>2, <1>3, <1>4, <1>5, <1>7, <1>8, <1>9, <1>10, <1>11, <1>12 DEF ConductorNext

(***************************************************************************)
(* What the composed steps do to the registry.                             *)
(***************************************************************************)
LEMMA RegistryHalf ==
    ASSUME [ConductorNext]_all PROVE [Next]_vars
<1>1. ASSUME Along(QueueStep) \/ Along(PollerStep) \/ Along(LoopStep)
             \/ Along(PrepareFails) \/ Along(P!Tick)
      PROVE  UNCHANGED vars
  BY <1>1 DEF Along
<1>2. ASSUME Alone(RegistryStep) PROVE Next
  BY <1>2 DEF Alone, RegistryStep, Next, SpawnStep, GateStep
<1>3. ASSUME NEW w \in Workers, NEW d \in loop.todo, RegisterFor(w, d) PROVE Next
  BY <1>3 DEF RegisterFor, Next
<1>4. ASSUME LaunchSucceedsFor \/ LaunchFailsFor PROVE Next
  BY <1>4 DEF LaunchSucceedsFor, LaunchFailsFor, Next, SpawnStep
<1>5. ASSUME Drain \/ Exit \/ CrashBoth \/ Restart PROVE Next
  BY <1>5 DEF Drain, Exit, CrashBoth, Restart, Next, GateStep
<1>6. ASSUME UNCHANGED all PROVE UNCHANGED vars
  BY <1>6 DEF all
<1> QED
  BY <1>1, <1>2, <1>3, <1>4, <1>5, <1>6 DEF ConductorNext

(***************************************************************************)
(* runConductor, its poll loop and its poller do what Pipeline allows.     *)
(***************************************************************************)
THEOREM ImplementsPipeline == ConductorSpec => P!Spec
<1>1. ConductorInit => P!Init
  BY DEF ConductorInit
<1>2. [ConductorNext]_all => [P!Next]_(P!vars)
  BY PipelineStep
<1> QED
  BY <1>1, <1>2, PTL DEF ConductorSpec, P!Spec

(***************************************************************************)
(* The registry, its handlers and its gate do what Registry allows: its    *)
(* theorems hold of the conductor.                                         *)
(***************************************************************************)
THEOREM ImplementsRegistry == ConductorSpec => Spec
<1>1. ConductorInit => Init
  BY DEF ConductorInit
<1>2. [ConductorNext]_all => [Next]_vars
  BY RegistryHalf
<1> QED
  BY <1>1, <1>2, PTL DEF ConductorSpec, Spec

(***************************************************************************)
(* A worker starts by being registered, and by nothing else.               *)
(***************************************************************************)
LEMMA StartedByRegister ==
    ASSUME IInv, [Next]_vars, NEW w \in Workers
    PROVE  Started(w)' <=> Started(w) \/ Register(w)
<1> USE DEF IInv, TypeOK, SpawnInv, Started, has
<1>1. ASSUME NEW v \in Workers, Register(v) PROVE Started(w)' <=> Started(w) \/ Register(w)
  <2>1. CASE v = w
    BY <1>1, <2>1 DEF Register, recordEvent
  <2>2. CASE v # w
    BY <1>1, <2>2 DEF Register, recordEvent, At
  <2> QED
    BY <2>1, <2>2
<1> HIDE DEF IInv
<1>2. ASSUME ~ \E v \in Workers : Register(v) PROVE Started(w)' = Started(w)
  <2>0. events \in [Workers -> SUBSET Event]
    BY DEF IInv
  <2>1. ASSUME Launch \/ LaunchReturns \/ LaunchFails \/ BuildRunTaskInputFails
               \/ RemoveFailed
        PROVE  UNCHANGED events
    BY <2>1 DEF Launch, LaunchReturns, LaunchFails, BuildRunTaskInputFails, RemoveFailed
  <2>2. ASSUME RecordBadlyEnded PROVE Started(w)' = Started(w)
    BY <2>0, <2>2 DEF RecordBadlyEnded, recordEvent
  <2>3. ASSUME NEW v \in Workers, EcsStep(v) \/ SilentDeath(v) PROVE UNCHANGED events
    BY <2>3 DEF EcsStep, EcsStarts, EcsRefuses, SilentDeath
  <2>4. ASSUME NEW v \in Workers, WorkerStep(v) PROVE Started(w)' = Started(w)
    <3>1. UNCHANGED events
          \/ \E e \in Event \ {"spawnStarted"} : recordEvent(v, e)
      BY <2>4 DEF WorkerStep, WorkerStartsHandshake, WorkerRequestsWorkFiles,
         WorkFilesSent, WorkerUploadsFiles, UploadReceived, WorkerStartsShutdown,
         waitFargateAndDeregister, WorkerSendsCodexError, deregisterFailed,
         LosesConductor, BeginTransfer, EndTransfer, RecordEnd, Deregister, Event
    <3> QED
      BY <2>0, <3>1 DEF recordEvent
  <2>5. ASSUME RequestShutdown \/ GateStep \/ Crash \/ Start PROVE UNCHANGED events
    BY <2>5 DEF RequestShutdown, GateStep, GateStopsPolling, GateCounts, GateExits,
       Crash, Start
  <2>6. ASSUME UNCHANGED vars PROVE UNCHANGED events
    BY <2>6 DEF vars
  <2> QED
    BY <1>2, <2>1, <2>2, <2>3, <2>4, <2>5, <2>6 DEF Next, SpawnStep
<1> QED
  BY <1>1, <1>2

(***************************************************************************)
(* What the pipeline's steps do to the decisions in hand.                  *)
(***************************************************************************)
LEMMA TodoChanges ==
    ASSUME TodoInv, Along(QueueStep) \/ Along(PollerStep) \/ Along(LoopStep)
                    \/ Along(PrepareFails) \/ Along(P!Tick)
    PROVE  /\ DOMAIN loop' = {"at", "msg", "fresh", "todo"}
           /\ issued \subseteq issued'
           /\ loop'.todo \subseteq loop.todo \/ loop'.todo = issued' \ issued
           /\ ~ up => loop'.todo = {}
           /\ UNCHANGED <<vars, job>>
<1> DEFINE Kept == /\ DOMAIN loop' = {"at", "msg", "fresh", "todo"}
                   /\ issued \subseteq issued'
                   /\ loop'.todo \subseteq loop.todo \/ loop'.todo = issued' \ issued
                   /\ ~ up => loop'.todo = {}
<1> USE DEF TodoInv, P!schedVars, P!Goto, P!BackToSelect, P!AtSelect
<1>1. ASSUME QueueStep \/ P!Tick PROVE Kept
  BY <1>1 DEF QueueStep, P!Send, P!VisibilityExpires, P!Tick, P!Sched!Tick
<1>2. ASSUME PollerStep PROVE Kept
  BY <1>2 DEF PollerStep, P!Receive, P!ReceiveFails, P!Deliver, P!PollerStops
<1>3. ASSUME P!Take \/ P!Recheck \/ P!LoopEnds PROVE Kept
  BY <1>3 DEF P!Take, P!Recheck, P!LoopEnds
<1>4. ASSUME P!Insert PROVE Kept
  BY <1>4 DEF P!Insert, P!InsertAlarm, P!InsertTicket, P!Sched!InsertAlarm, P!Sched!InsertTicket
<1>5. ASSUME P!InsertFails \/ P!ScheduleFails \/ P!SpawnsDone PROVE Kept
  BY <1>5 DEF P!InsertFails, P!ScheduleFails, P!SpawnsDone
<1>6. ASSUME P!Schedule PROVE Kept
  <2>1. up
    BY <1>6 DEF P!Schedule, P!CallSucceeds
  <2> QED
    BY <1>6, <2>1 DEF P!Schedule, P!Sched!RunScheduling
<1>7. ASSUME P!Delete \/ P!DeleteFails PROVE Kept
  BY <1>7 DEF P!Delete, P!DeleteFails
<1>8. ASSUME NEW d \in loop.todo, P!SpawnFails(d) PROVE Kept
  BY <1>8 DEF P!SpawnFails
<1> QED
  BY <1>1, <1>2, <1>3, <1>4, <1>5, <1>6, <1>7, <1>8 DEF Along, LoopStep, PrepareFails

(***************************************************************************)
(* Every step keeps the decisions in hand apart from those with a worker.  *)
(***************************************************************************)
LEMMA JobStep ==
    ASSUME IInv, TodoInv, JobInv, [ConductorNext]_all
    PROVE  TodoInv' /\ JobInv'
<1>0. /\ spawn \in [at : {"idle", "registered", "launching", "failed", "removing"},
                    worker : Workers \cup {None}]
      /\ spawn.at # "idle" => spawn.worker \in Workers
  BY DEF IInv, TypeOK, SpawnInv
<1>1. ASSUME Along(QueueStep) \/ Along(PollerStep) \/ Along(LoopStep)
             \/ Along(PrepareFails) \/ Along(P!Tick)
      PROVE  TodoInv' /\ JobInv'
  <2>1. /\ DOMAIN loop' = {"at", "msg", "fresh", "todo"}
        /\ issued \subseteq issued'
        /\ loop'.todo \subseteq loop.todo \/ loop'.todo = issued' \ issued
        /\ ~ up => loop'.todo = {}
        /\ UNCHANGED <<vars, job>>
    BY <1>1, TodoChanges
  <2>2. UNCHANGED <<events, spawn, up, job>>
    BY <2>1 DEF vars, poll, shut
  <2> QED
    BY <2>1, <2>2 DEF TodoInv, JobInv, Started, has
<1>2. ASSUME UNCHANGED <<loop, issued, job>>, [Next]_vars, up' = up,
             \A w \in Workers : ~ Register(w),
             spawn.at # "idle" => spawn'.at # "idle" /\ spawn'.worker = spawn.worker
      PROVE  TodoInv' /\ JobInv'
  <2>1. \A w \in Workers : Started(w)' <=> Started(w)
    BY <1>2, StartedByRegister
  <2> QED
    BY <1>2, <2>1 DEF TodoInv, JobInv
<1>3. ASSUME Alone(RegistryStep) PROVE TodoInv' /\ JobInv'
  <2>1. UNCHANGED <<loop, issued, job>> /\ [Next]_vars
    BY <1>3, RegistryHalf DEF Alone, pipeline, ConductorNext
  <2>2. /\ up' = up
        /\ spawn.at # "idle" => spawn'.at # "idle" /\ spawn'.worker = spawn.worker
        /\ \A w \in Workers : ~ Register(w)
    BY <1>0, <1>3 DEF Alone, RegistryStep, Launch, LaunchFails, BuildRunTaskInputFails,
         RecordBadlyEnded, EcsStep, EcsStarts, EcsRefuses, WorkerStep,
         WorkerStartsHandshake, WorkerRequestsWorkFiles, WorkFilesSent,
         WorkerUploadsFiles, UploadReceived, WorkerStartsShutdown,
         waitFargateAndDeregister, WorkerSendsCodexError, deregisterFailed,
         LosesConductor, BeginTransfer, EndTransfer, RecordEnd, Deregister,
         SilentDeath, GateCounts, RequestShutdown, shut, poll, At, Goto, Register
  <2> QED
    BY <1>2, <2>1, <2>2
<1>4. ASSUME NEW w \in Workers, NEW d \in loop.todo, RegisterFor(w, d)
      PROVE  TodoInv' /\ JobInv'
  <2>1. /\ Register(w) /\ job' = [job EXCEPT ![w] = d]
        /\ UNCHANGED <<loop, issued, up>>
        /\ spawn.at = "idle" /\ spawn'.at = "registered" /\ spawn'.worker = w
        /\ ~ Started(w) /\ d \in loop.todo
    BY <1>4 DEF RegisterFor, Register, At, Started, has, pipeline, shut
  <2>2. \A v \in Workers : Started(v)' <=> Started(v) \/ v = w
    <3> SUFFICES ASSUME NEW v \in Workers PROVE Started(v)' <=> Started(v) \/ v = w
      OBVIOUS
    <3>1. events' = [events EXCEPT ![w] = @ \cup {"spawnStarted"}]
      BY <2>1 DEF Register, recordEvent
    <3> QED
      BY <3>1 DEF IInv, TypeOK, Started, has
  <2>3. d \in issued
    BY <1>4 DEF RegisterFor, TodoInv
  <2> QED
    BY <2>1, <2>2, <2>3 DEF TodoInv, JobInv
<1>5. ASSUME LaunchSucceedsFor \/ LaunchFailsFor PROVE TodoInv' /\ JobInv'
  <2>1. /\ LaunchReturns \/ RemoveFailed
        /\ loop' = [loop EXCEPT !.todo = @ \ {job[spawn.worker]}]
        /\ UNCHANGED <<issued, job, up>>
    BY <1>5 DEF LaunchSucceedsFor, LaunchFailsFor, P!Spawn, P!SpawnFails, InHand,
       P!schedVars, LaunchReturns, RemoveFailed, shut
  <2>2. \A w \in Workers : Started(w)' <=> Started(w)
    BY <2>1 DEF LaunchReturns, RemoveFailed, Started, has
  <2> QED
    BY <2>1, <2>2 DEF TodoInv, JobInv
<1>6. ASSUME Drain PROVE TodoInv' /\ JobInv'
  <2>1. UNCHANGED <<loop, issued, job, up, spawn, events>>
    BY <1>6 DEF Drain, GateStopsPolling, P!Drain, pipeline, P!schedVars, poll
  <2> QED
    BY <2>1 DEF TodoInv, JobInv, Started, has
<1>7. ASSUME Exit \/ CrashBoth PROVE TodoInv' /\ JobInv'
  <2>1. /\ UNCHANGED <<issued, job, spawn, events>>
        /\ loop' = [at |-> "select", msg |-> None, fresh |-> FALSE, todo |-> {}]
    BY <1>7 DEF Exit, CrashBoth, GateExits, Crash, P!Exit, P!Crash, P!Die,
       P!BackToSelect, P!AtSelect, P!schedVars, poll
  <2> QED
    BY <2>1 DEF TodoInv, JobInv, Started, has
<1>8. ASSUME Restart PROVE TodoInv' /\ JobInv'
  <2>1. UNCHANGED <<loop, issued, job, events>> /\ ~ up
    BY <1>8 DEF Restart, Start, P!Start, P!schedVars
  <2> QED
    BY <2>1 DEF TodoInv, JobInv, Started, has
<1>9. ASSUME UNCHANGED all PROVE TodoInv' /\ JobInv'
  BY <1>9 DEF all, vars, poll, shut, pipeline, TodoInv, JobInv, Started, has
<1> QED
  BY <1>1, <1>3, <1>4, <1>5, <1>6, <1>7, <1>8, <1>9 DEF ConductorNext

THEOREM JobInvariance == ConductorSpec => [](TodoInv /\ JobInv)
<1>1. ConductorInit => TodoInv /\ JobInv
  <2> SUFFICES ASSUME ConductorInit PROVE TodoInv /\ JobInv
    OBVIOUS
  <2>1. \A w \in Workers : ~ Started(w)
    BY DEF ConductorInit, Init, Started, has
  <2>2. DOMAIN loop = {"at", "msg", "fresh", "todo"} /\ up /\ loop.todo = {}
    BY DEF ConductorInit, Init, P!Init, P!AtSelect
  <2>3. DOMAIN job = Workers
    BY DEF ConductorInit
  <2> QED
    BY <2>1, <2>2, <2>3 DEF TodoInv, JobInv
<1>2. IInv /\ TodoInv /\ JobInv /\ [ConductorNext]_all => TodoInv' /\ JobInv'
  BY JobStep
<1>3. ConductorSpec => []IInv
  BY ImplementsRegistry, Invariance, PTL
<1> QED
  BY <1>1, <1>2, <1>3, PTL DEF ConductorSpec

(***************************************************************************)
(* What holds of the pipeline and of the scheduler in it holds of the      *)
(* conductor: no message leaves the queue undecided, decisions are dropped *)
(* by disturbances only, a decided row has a decision in its chain, and no *)
(* row, chain or chain window has two.                                     *)
(***************************************************************************)
PipelineFacts ==
    /\ P!StoreInv
    /\ P!NoMessageLost
    /\ P!LossesNeedDisturbances
    /\ P!Sched!TypeOK
    /\ P!Sched!OneDecisionPerRow
    /\ P!Sched!OneDecisionPerChain
    /\ P!Sched!DecidedChainHasDecision
    /\ P!Sched!DecisionsAreApart

THEOREM PipelineHolds == ConductorSpec => []PipelineFacts
<1>1. P!Spec => []P!StoreInv
  BY P!StoresAreBounded, ConductorAssumption
<1>2. P!Spec => []P!NoMessageLost
  BY P!NothingLost, ConductorAssumption
<1>4. P!Spec => [](P!LossInv /\ P!LossesNeedDisturbances)
  BY P!LossesAreBounded, ConductorAssumption
<1>3. P!Spec => []( /\ P!Sched!TypeOK
                    /\ P!Sched!OneDecisionPerRow
                    /\ P!Sched!OneDecisionPerChain
                    /\ P!Sched!DecidedChainHasDecision
                    /\ P!Sched!DecisionsAreApart )
  BY P!SchedulerHolds, ConductorAssumption
<1> QED
  BY <1>1, <1>2, <1>3, <1>4, ImplementsPipeline, PTL DEF PipelineFacts

(***************************************************************************)
(* A worker with a task was handed its decision by the scheduler, and no   *)
(* other worker was.                                                       *)
(***************************************************************************)
LEMMA AgentsHaveDecisions ==
    ASSUME IInv, TodoInv, JobInv
    PROVE  /\ \A w \in Agents : w \in Workers /\ job[w] \in issued
           /\ \A v, w \in Agents : job[v] = job[w] => v = w
<1>1. \A w \in Agents : w \in Workers /\ Started(w)
  BY DEF Agents, IInv, WorkerInv, Started
<1> QED
  BY <1>1 DEF TodoInv, JobInv

(***************************************************************************)
(* spawnWorker is called once for each row the scheduler decides: whatever *)
(* fails, crashes or is delivered again, no alarm and no ticket has two    *)
(* tasks.                                                                  *)
(***************************************************************************)
THEOREM OneAgent == ConductorSpec => []OneAgentPerRow
<1>1. IInv /\ TodoInv /\ JobInv /\ PipelineFacts => OneAgentPerRow
  BY AgentsHaveDecisions DEF PipelineFacts, OneAgentPerRow, P!Sched!OneDecisionPerRow
<1> QED
  BY <1>1, JobInvariance, PipelineHolds, ImplementsRegistry, Invariance, PTL

(***************************************************************************)
(* A burst of alarms of one account has one agent: across crashes,         *)
(* restarts, redeliveries and failed launches, two agents of an account    *)
(* start from alarms more than the chain window apart.                     *)
(***************************************************************************)
THEOREM AgentsApart == ConductorSpec => []AgentsAreApart
<1>1. IInv /\ TodoInv /\ JobInv /\ PipelineFacts => AgentsAreApart
  <2> SUFFICES ASSUME IInv, TodoInv, JobInv, PipelineFacts,
                      NEW v \in AlarmAgents, NEW w \in AlarmAgents,
                      NEW r \in alarms, NEW s \in alarms,
                      v # w, r.id = job[v].row, s.id = job[w].row, r.acct = s.acct
               PROVE  ~ P!Sched!Linked(r, s)
    BY DEF AgentsAreApart
  <2>1. /\ job[v] \in P!Sched!Incidents /\ job[w] \in P!Sched!Incidents
        /\ job[v] # job[w]
    BY AgentsHaveDecisions DEF AlarmAgents, P!Sched!Incidents
  <2> QED
    BY <2>1 DEF PipelineFacts, P!Sched!DecisionsAreApart, P!Sched!About
<1> QED
  BY <1>1, JobInvariance, PipelineHolds, ImplementsRegistry, Invariance, PTL

(***************************************************************************)
(* The pipeline counts as this module does.                                *)
(***************************************************************************)
LEMMA SameCount ==
    ASSUME NEW S
    PROVE  /\ P!IsFiniteSet(S) <=> IsFiniteSet(S)
           /\ P!Cardinality(S) = Cardinality(S)
<1>1. P!IsFiniteSet(S) <=> IsFiniteSet(S)
  BY DEF P!IsFiniteSet, IsFiniteSet
<1>2. P!Cardinality(S) = Cardinality(S)
  BY DEF P!Cardinality, Cardinality
<1> QED
  BY <1>1, <1>2

(***************************************************************************)
(* The agents of a message have a row each among those it was stored in.   *)
(***************************************************************************)
LEMMA AgentsAreNoMoreThanRows ==
    ASSUME IInv, TodoInv, JobInv, PipelineFacts, NEW m \in P!Msgs
    PROVE  IsFiniteSet(AgentsOf(m)) /\ Cardinality(AgentsOf(m)) <= Cardinality(stored[m])
<1> DEFINE row == [w \in AgentsOf(m) |-> job[w].row]
<1>1. ASSUME NEW w \in AgentsOf(m) PROVE job[w].row \in stored[m]
  BY <1>1 DEF AgentsOf, About
<1>2. ASSUME NEW v \in AgentsOf(m), NEW w \in AgentsOf(m), job[v].row = job[w].row
      PROVE  v = w
  <2>1. job[v].type = job[w].type
    BY ConductorAssumption DEF AgentsOf, About, P!PipelineAssumption
  <2>2. v \in Agents /\ w \in Agents /\ job[v] \in issued /\ job[w] \in issued
    BY AgentsHaveDecisions DEF AgentsOf
  <2>3. job[v] = job[w]
    BY <1>2, <2>1, <2>2 DEF PipelineFacts, P!Sched!OneDecisionPerRow
  <2> QED
    BY <2>2, <2>3, AgentsHaveDecisions
<1>3. row \in Injection(AgentsOf(m), stored[m])
  BY <1>1, <1>2 DEF Injection, IsInjective
<1>4. IsFiniteSet(stored[m])
  BY SameCount DEF PipelineFacts, P!StoreInv, P!StoresNeedFaults
<1> QED
  BY <1>3, <1>4, FS_Injection

(***************************************************************************)
(* One message starts one agent, and one more for each disturbance at      *)
(* most.                                                                   *)
(***************************************************************************)
THEOREM AgentsAreBounded == ConductorSpec => []AgentsNeedUpsets
<1>1. IInv /\ TodoInv /\ JobInv /\ PipelineFacts => AgentsNeedUpsets
  <2> SUFFICES ASSUME IInv, TodoInv, JobInv, PipelineFacts, NEW m \in P!Msgs
               PROVE  Cardinality(AgentsOf(m)) <= 1 + upsets
    BY DEF AgentsNeedUpsets
  <2> DEFINE n == Cardinality(stored[m])
             ahead == P!StoresAhead(m)
             k == Cardinality(AgentsOf(m))
  <2>1. IsFiniteSet(stored[m]) /\ n + ahead <= 1 + upsets /\ upsets \in Nat
    BY SameCount DEF PipelineFacts, P!StoreInv, P!StoresNeedFaults
  <2>2. ahead \in Nat
    BY DEF P!StoresAhead, P!One
  <2>3. k <= n /\ k \in Nat /\ n \in Nat
    BY <2>1, AgentsAreNoMoreThanRows, FS_CardinalityType
  <2> HIDE DEF n, ahead, k
  <2>4. k <= 1 + upsets
    BY <2>1, <2>2, <2>3
  <2> QED
    BY <2>4 DEF k
<1> QED
  BY <1>1, JobInvariance, PipelineHolds, ImplementsRegistry, Invariance, PTL

(***************************************************************************)
(* In the process that schedules and launches, too, the gate waits for     *)
(* every launched worker, the events of a worker come in order, and the    *)
(* registry keeps no worker whose launch failed and knows every task of    *)
(* this process whose launch was not reported to fail; each worker is      *)
(* served as the protocol says; and the gate and the registry are a        *)
(* conductor as the deployment takes it to be.                             *)
(***************************************************************************)
THEOREM RegistryHolds ==
    ConductorSpec => /\ [](GateWaitsForWorkers /\ EventsComeInOrder)
                     /\ [](NoPhantomWorker /\ UnknownTaskOnlyAfterFailedLaunch)
                     /\ WorkersKeepProtocol /\ GateImplementsDeploy
<1>1. Spec => [](GateWaitsForWorkers /\ EventsComeInOrder)
  BY GateWaits, OrderOfEvents, PTL
<1>2. Spec => [](NoPhantomWorker /\ UnknownTaskOnlyAfterFailedLaunch)
  BY NoPhantoms, UnknownTasks, PTL
<1> QED
  BY <1>1, <1>2, ImplementsRegistry, ProtocolKept, GateRefines

===============================================================================
