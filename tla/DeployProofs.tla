----------------------------- MODULE DeployProofs -----------------------------
(***************************************************************************)
(* However many runs of the script overlap and however often the conductor *)
(* crashes: a script acts only on an answer to its own request, and a      *)
(* lone script never replaces a conductor that runs.                       *)
(*                                                                         *)
(* Each lemma keeps one part of the inductive invariant, action by action. *)
(***************************************************************************)
EXTENDS Deploy, TLAPS

(***************************************************************************)
(* Nothing runs when the first deployment starts.                          *)
(***************************************************************************)
LEMMA IInvInitially == Init => IInv
<1> SUFFICES ASSUME Init PROVE IInv
  OBVIOUS
<1> USE DEF Init
<1>1. TypeOK
  <2>1. runs \in 0 .. MaxRuns /\ crashes \in 0 .. MaxCrashes
    BY DeployAssumption
  <2>2. seen \in [Scripts -> BOOLEAN]
    OBVIOUS
  <2> QED
    BY <2>1, <2>2 DEF TypeOK
<1>2. SignalIsFresh /\ SignalInv
  BY DEF SignalIsFresh, SignalInv
<1>3. LoneInv /\ RequestStands
  BY DEF LoneInv, RequestStands, Waits
<1> QED
  BY <1>1, <1>2, <1>3 DEF IInv, DrainInv

(***************************************************************************)
(* The steps of the conductor leave every script where it is.              *)
(***************************************************************************)
LEMMA ConductorLeavesScripts ==
    ASSUME ConductorStep \/ Crash
    PROVE  UNCHANGED <<pc, seen, outcome, overlapped, runs>>
BY DEF ConductorStep, Crash, CreateDatabase, InitializeRequestFile, CheckDatabase,
       SpawnWorker, WorkersEnd, GateStopsPolling, GatePasses, ContainerStops,
       script, history

(***************************************************************************)
(* Every action keeps the types.                                           *)
(***************************************************************************)
LEMMA TypeStep ==
    ASSUME TypeOK, [Next]_vars PROVE TypeOK'
<1> USE DeployAssumption DEF TypeOK, Running
<1>1. ASSUME CreateDatabase \/ InitializeRequestFile \/ CheckDatabase PROVE TypeOK'
  BY <1>1 DEF CreateDatabase, InitializeRequestFile, CheckDatabase, script, history
<1>2. ASSUME SpawnWorker \/ WorkersEnd PROVE TypeOK'
  BY <1>2 DEF SpawnWorker, WorkersEnd, script, history
<1>3. ASSUME GateStopsPolling \/ ContainerStops PROVE TypeOK'
  BY <1>3 DEF GateStopsPolling, ContainerStops, script, history
<1>4. ASSUME GatePasses PROVE TypeOK'
  <2>1. asked' \in [Scripts -> {"no", "yes", "early", "drained"}]
    BY <1>4 DEF GatePasses
  <2>2. ready' \in BOOLEAN
    BY <1>4 DEF GatePasses
  <2> QED
    BY <1>4, <2>1, <2>2 DEF GatePasses, history
<1>5. ASSUME Crash PROVE TypeOK'
  <2>1. crashes' \in 0 .. MaxCrashes
    BY <1>5 DEF Crash
  <2>2. database' \in {"absent", "partial", "complete"}
    BY <1>5 DEF Crash, BootInterrupted
  <2> QED
    BY <1>5, <2>1, <2>2 DEF Crash, script
<1>6. ASSUME NEW s \in Scripts, StartDeployment(s) PROVE TypeOK'
  <2>1. runs' \in 0 .. MaxRuns
    BY <1>6 DEF StartDeployment
  <2>2. overlapped' \in BOOLEAN
    BY <1>6 DEF StartDeployment
  <2> QED
    BY <1>6, <2>1, <2>2 DEF StartDeployment, At, Goto, host
<1>7. ASSUME NEW s \in Scripts, PrepareHost(s) PROVE TypeOK'
  BY <1>7 DEF PrepareHost, At, Goto, Finish, host, history
<1>8. ASSUME NEW s \in Scripts, InspectContainer(s) PROVE TypeOK'
  BY <1>8 DEF InspectContainer, At, Goto, host, history
<1>9. ASSUME NEW s \in Scripts, ClearReadyFile(s) PROVE TypeOK'
  BY <1>9 DEF ClearReadyFile, At, Goto, history
<1>10. ASSUME NEW s \in Scripts, WriteRequest(s) PROVE TypeOK'
  <2>1. asked' \in [Scripts -> {"no", "yes", "early", "drained"}]
    BY <1>10 DEF WriteRequest
  <2> QED
    BY <1>10, <2>1 DEF WriteRequest, At, Goto, history
<1>11. ASSUME NEW s \in Scripts, ReadReadyFile(s) PROVE TypeOK'
  <2>1. seen' \in [Scripts -> BOOLEAN]
    BY <1>11 DEF ReadReadyFile
  <2> QED
    BY <1>11, <2>1 DEF ReadReadyFile, At, Goto, host, history
<1>12. ASSUME NEW s \in Scripts, Decide(s) PROVE TypeOK'
  BY <1>12 DEF Decide, At, Goto, Finish, host, history
<1>13. ASSUME NEW s \in Scripts, CheckDeadline(s) PROVE TypeOK'
  BY <1>13 DEF CheckDeadline, At, Goto, Finish, host, history
<1>14. ASSUME NEW s \in Scripts, RemoveReadyFile(s) PROVE TypeOK'
  BY <1>14 DEF RemoveReadyFile, At, Goto, history
<1>15. ASSUME NEW s \in Scripts, ComposeUp(s) PROVE TypeOK'
  <2>1. database' \in {"absent", "partial", "complete"}
    BY <1>15 DEF ComposeUp, BootInterrupted
  <2> QED
    BY <1>15, <2>1 DEF ComposeUp, At, Goto, history
<1>16. ASSUME NEW s \in Scripts, ComposeFails(s) PROVE TypeOK'
  <2>1. database' \in {"absent", "partial", "complete"}
    BY <1>16 DEF ComposeFails, BootInterrupted
  <2>2. \/ conductor' \in {"absent", "stopped"} /\ busy' = FALSE
        \/ UNCHANGED <<conductor, busy>>
    BY <1>16 DEF ComposeFails
  <2>3. /\ UNCHANGED <<request, ready, seen, asked, history>>
        /\ pc' = [pc EXCEPT ![s] = "idle"]
        /\ outcome' = [outcome EXCEPT ![s] = "notStarted"]
    BY <1>16 DEF ComposeFails, Goto, Finish
  <2>4. outcome' \in [Scripts -> {"none", "notPrepared", "deployed", "exitedBeforeSignal",
                                  "timedOut", "notStarted", "exitedAfterDeploy"}]
        /\ pc' \in [Scripts -> {"idle", "prepare", "inspect", "clear", "request", "read",
                                "decide", "deadline", "remove", "up", "verify"}]
    BY <2>3
  <2>5. /\ conductor' \in {"absent", "stopped"} \cup
              {"booting", "starting", "checking", "serving", "draining", "leaving"}
        /\ busy' \in BOOLEAN /\ (busy' => conductor' \in {"serving", "draining"})
    <3>1. CASE conductor' \in {"absent", "stopped"} /\ busy' = FALSE
      BY <3>1
    <3>2. CASE UNCHANGED <<conductor, busy>>
      <4>1. conductor' = conductor /\ busy' = busy
        BY <3>2
      <4> QED
        BY <4>1
    <3> QED
      BY <2>2, <3>1, <3>2
  <2>6. UNCHANGED <<request, ready, seen, asked, runs, crashes, overlapped, wanted>>
    BY <2>3 DEF history
  <2> HIDE DEF Running
  <2>7. /\ request' \in {"absent", "false", "true"}
        /\ ready' \in BOOLEAN /\ seen' \in [Scripts -> BOOLEAN]
        /\ asked' \in [Scripts -> {"no", "yes", "early", "drained"}]
        /\ runs' \in 0 .. MaxRuns /\ crashes' \in 0 .. MaxCrashes
        /\ overlapped' \in BOOLEAN /\ wanted' \in BOOLEAN
    BY <2>6
  <2> QED
    BY <2>1, <2>4, <2>5, <2>7
<1>17. ASSUME NEW s \in Scripts, VerifyRunning(s) PROVE TypeOK'
  <2>1. /\ UNCHANGED <<host, seen, asked, history>>
        /\ pc' = [pc EXCEPT ![s] = "idle"]
        /\ \E how \in {"deployed", "exitedAfterDeploy"} :
              outcome' = [outcome EXCEPT ![s] = how]
    BY <1>17 DEF VerifyRunning, Goto, Finish
  <2> QED
    BY <2>1 DEF host, history
<1>18. ASSUME UNCHANGED vars PROVE TypeOK'
  BY <1>18 DEF vars, host, script, history
<1> HIDE DEF TypeOK, Running
<1> QED
  BY <1>1, <1>2, <1>3, <1>4, <1>5, <1>6, <1>7, <1>8, <1>9, <1>10, <1>11, <1>12,
     <1>13, <1>14, <1>15, <1>16, <1>17, <1>18 DEF Next, ConductorStep, ScriptStep

(***************************************************************************)
(* The signal file says true only for requests a gate has answered.        *)
(***************************************************************************)
LEMMA SignalStep ==
    ASSUME TypeOK, SignalInv, SignalIsFresh, [Next]_vars
    PROVE  SignalInv' /\ SignalIsFresh'
<1> DEFINE Fresh(s) ==
        /\ ready \/ (seen[s] /\ pc[s] = "decide") => asked[s] \in {"no", "drained"}
        /\ pc[s] \in {"prepare", "inspect", "clear"} => asked[s] = "no"
        /\ pc[s] = "request" => asked[s] # "no"
        /\ pc[s] \in {"remove", "up", "verify"} => asked[s] \in {"no", "drained"}
<1> SUFFICES ASSUME NEW t \in Scripts PROVE Fresh(t)'
  BY DEF SignalInv, SignalIsFresh
<1>0. /\ Fresh(t)
      /\ DOMAIN pc = Scripts /\ DOMAIN asked = Scripts
      /\ seen \in [Scripts -> BOOLEAN]
  BY DEF SignalInv, SignalIsFresh, TypeOK
<1>1. ASSUME UNCHANGED <<ready, pc, seen, asked>> PROVE Fresh(t)'
  BY <1>0, <1>1
<1>2. ASSUME CreateDatabase \/ InitializeRequestFile \/ CheckDatabase \/ SpawnWorker
             \/ WorkersEnd \/ GateStopsPolling \/ ContainerStops \/ Crash
      PROVE  Fresh(t)'
  <2>1. UNCHANGED <<ready, pc, seen, asked>>
    BY <1>2 DEF CreateDatabase, InitializeRequestFile, CheckDatabase, SpawnWorker,
                WorkersEnd, GateStopsPolling, ContainerStops, Crash, script
  <2> QED
    BY <1>1, <2>1
<1>3. ASSUME GatePasses PROVE Fresh(t)'
  <2>1. /\ UNCHANGED <<pc, seen>>
        /\ asked'[t] = IF asked[t] = "no" THEN "no" ELSE "drained"
    BY <1>3 DEF GatePasses
  <2> QED
    BY <1>0, <2>1
<1>4. ASSUME NEW s \in Scripts, StartDeployment(s) PROVE Fresh(t)'
  BY <1>0, <1>4 DEF StartDeployment, At, Goto, host
<1>5. ASSUME NEW s \in Scripts, PrepareHost(s) \/ InspectContainer(s) PROVE Fresh(t)'
  BY <1>0, <1>5 DEF PrepareHost, InspectContainer, At, Goto, Finish, host
<1>6. ASSUME NEW s \in Scripts, ClearReadyFile(s) PROVE Fresh(t)'
  BY <1>0, <1>6 DEF ClearReadyFile, At, Goto
<1>7. ASSUME NEW s \in Scripts, WriteRequest(s) PROVE Fresh(t)'
  BY <1>0, <1>7 DEF WriteRequest, At, Goto
<1>8. ASSUME NEW s \in Scripts, ReadReadyFile(s) PROVE Fresh(t)'
  BY <1>0, <1>8 DEF ReadReadyFile, At, Goto, host
<1>9. ASSUME NEW s \in Scripts, Decide(s) PROVE Fresh(t)'
  BY <1>0, <1>9 DEF Decide, At, Goto, Finish, host
<1>10. ASSUME NEW s \in Scripts, CheckDeadline(s) PROVE Fresh(t)'
  BY <1>0, <1>10 DEF CheckDeadline, At, Goto, Finish, host
<1>11. ASSUME NEW s \in Scripts, RemoveReadyFile(s) PROVE Fresh(t)'
  BY <1>0, <1>11 DEF RemoveReadyFile, At, Goto
<1>12. ASSUME NEW s \in Scripts, ComposeUp(s) PROVE Fresh(t)'
  BY <1>0, <1>12 DEF ComposeUp, At, Goto
<1>13. ASSUME NEW s \in Scripts, ComposeFails(s) PROVE Fresh(t)'
  BY <1>0, <1>13 DEF ComposeFails, At, Goto, Finish
<1>14. ASSUME NEW s \in Scripts, VerifyRunning(s) PROVE Fresh(t)'
  BY <1>0, <1>14 DEF VerifyRunning, At, Goto, Finish, host
<1>15. ASSUME UNCHANGED vars PROVE Fresh(t)'
  BY <1>1, <1>15 DEF vars, host, script
<1> QED
  BY <1>2, <1>3, <1>4, <1>5, <1>6, <1>7, <1>8, <1>9, <1>10, <1>11, <1>12, <1>13,
     <1>14, <1>15 DEF Next, ConductorStep, ScriptStep

(***************************************************************************)
(* The request that drained a conductor stays in the file, and was written *)
(* for it.                                                                 *)
(***************************************************************************)
LEMMA DrainStep ==
    ASSUME DrainInv, [Next]_vars PROVE DrainInv'
<1> USE DEF DrainInv
<1>1. ASSUME ConductorStep \/ Crash PROVE DrainInv'
  BY <1>1 DEF ConductorStep, CreateDatabase, InitializeRequestFile, CheckDatabase,
              SpawnWorker, WorkersEnd, GateStopsPolling, GatePasses, ContainerStops, Crash, history
<1>2. ASSUME NEW s \in Scripts, StartDeployment(s) PROVE DrainInv'
  BY <1>2 DEF StartDeployment, host, history
<1>3. ASSUME NEW s \in Scripts, ScriptStep(s) PROVE DrainInv'
  BY <1>3 DEF ScriptStep, PrepareHost, InspectContainer, ClearReadyFile, WriteRequest,
              ReadReadyFile, Decide, CheckDeadline, RemoveReadyFile, ComposeUp,
              ComposeFails, VerifyRunning, host, history
<1>4. ASSUME UNCHANGED vars PROVE DrainInv'
  BY <1>4 DEF vars, host, history
<1> QED
  BY <1>1, <1>2, <1>3, <1>4 DEF Next

(***************************************************************************)
(* A lone script keeps the host to itself.                                 *)
(***************************************************************************)
LEMMA LoneStep ==
    ASSUME TypeOK, SignalInv, LoneInv, [Next]_vars PROVE LoneInv'
<1> SUFFICES ASSUME ~ overlapped' PROVE LoneInv'
  BY DEF LoneInv
<1> DEFINE Alone == \A s, t \in Scripts : pc[s] # "idle" /\ pc[t] # "idle" => s = t
           Quiet(s) ==
              /\ pc[s] \in {"remove", "up"} => ~ Running
              /\ \/ Waits(s) /\ asked[s] # "early"
                 \/ pc[s] = "request" /\ asked[s] = "drained"
                 => conductor \notin {"booting", "starting"}
<1>0. /\ DOMAIN pc = Scripts /\ DOMAIN asked = Scripts
      /\ ~ overlapped => Alone /\ \A s \in Scripts : Quiet(s)
  BY DEF TypeOK, LoneInv
<1> USE DEF Running, Waits
<1>1. ASSUME Alone', \A s \in Scripts : Quiet(s)' PROVE LoneInv'
  BY <1>1 DEF LoneInv
<1>2. ASSUME ConductorStep \/ Crash PROVE LoneInv'
  <2>1. UNCHANGED <<pc, overlapped>>
    BY <1>2, ConductorLeavesScripts
  <2>2. ASSUME NEW s \in Scripts PROVE Quiet(s)'
    <3>1. Quiet(s) /\ pc'[s] = pc[s]
      BY <1>0, <2>1
    <3>2. ASSUME CreateDatabase \/ InitializeRequestFile \/ CheckDatabase \/ SpawnWorker
                 \/ WorkersEnd \/ GateStopsPolling \/ ContainerStops \/ Crash
          PROVE  Quiet(s)'
      BY <3>1, <3>2 DEF CreateDatabase, InitializeRequestFile, CheckDatabase, SpawnWorker,
            WorkersEnd, GateStopsPolling, ContainerStops, Crash, script
    <3>3. CASE GatePasses
      BY <3>1, <3>3 DEF GatePasses
    <3> QED
      BY <1>2, <3>2, <3>3 DEF ConductorStep
  <2> QED
    BY <1>0, <1>1, <2>1, <2>2
<1>3. ASSUME NEW s \in Scripts, StartDeployment(s) PROVE LoneInv'
  <2>1. \A t \in Scripts : pc[t] = "idle" /\ pc'[t] = (IF t = s THEN "prepare" ELSE "idle")
    BY <1>0, <1>3 DEF StartDeployment, At, Goto
  <2> QED
    BY <1>1, <2>1
<1>4. ASSUME NEW s \in Scripts, ScriptStep(s),
             \A t \in Scripts : t # s => pc'[t] = pc[t], pc[s] # "idle",
             UNCHANGED overlapped, Quiet(s)'
      PROVE  LoneInv'
  <2>1. \A t \in Scripts : t # s => pc[t] = "idle" /\ pc'[t] = "idle"
    BY <1>0, <1>4
  <2> QED
    BY <1>1, <1>4, <2>1
<1>5. ASSUME NEW s \in Scripts, ScriptStep(s) PROVE LoneInv'
  <2>1. /\ \A t \in Scripts : t # s => pc'[t] = pc[t]
        /\ pc[s] # "idle" /\ UNCHANGED overlapped
    BY <1>0, <1>5 DEF ScriptStep, PrepareHost, InspectContainer, ClearReadyFile,
         WriteRequest, ReadReadyFile, Decide, CheckDeadline, RemoveReadyFile,
         ComposeUp, ComposeFails, VerifyRunning, At, Goto, Finish, history
  <2>2. Quiet(s)
    BY <1>0, <1>5, <2>1
  <2>3. ASSUME PrepareHost(s) PROVE Quiet(s)'
    BY <1>0, <1>5, <2>3 DEF PrepareHost, At, Goto, Finish, host
  <2>4. ASSUME InspectContainer(s) PROVE Quiet(s)'
    BY <1>0, <1>5, <2>4 DEF InspectContainer, At, Goto, host
  <2>5. ASSUME ClearReadyFile(s) PROVE Quiet(s)'
    BY <1>0, <1>5, <2>5 DEF ClearReadyFile, At, Goto
  <2>6. ASSUME WriteRequest(s) PROVE Quiet(s)'
    <3>1. asked[s] # "no"
      BY <1>5, <2>6 DEF SignalInv, WriteRequest, At
    <3>2. asked[s] \in {"yes", "early", "drained"}
      BY <1>5, <3>1 DEF TypeOK
    <3> QED
      BY <1>0, <1>5, <2>2, <2>6, <3>2 DEF WriteRequest, At, Goto
  <2>7. ASSUME ReadReadyFile(s) PROVE Quiet(s)'
    BY <1>0, <1>5, <2>2, <2>7 DEF ReadReadyFile, At, Goto, host
  <2>8. ASSUME Decide(s) PROVE Quiet(s)'
    BY <1>0, <1>5, <2>2, <2>8 DEF Decide, At, Goto, Finish, host
  <2>9. ASSUME CheckDeadline(s) PROVE Quiet(s)'
    BY <1>0, <1>5, <2>2, <2>9 DEF CheckDeadline, At, Goto, Finish, host
  <2>10. ASSUME RemoveReadyFile(s) PROVE Quiet(s)'
    BY <1>0, <1>5, <2>2, <2>10 DEF RemoveReadyFile, At, Goto
  <2>11. ASSUME ComposeUp(s) PROVE Quiet(s)'
    BY <1>0, <1>5, <2>11 DEF ComposeUp, At, Goto
  <2>12. ASSUME ComposeFails(s) PROVE Quiet(s)'
    BY <1>0, <1>5, <2>12 DEF ComposeFails, At, Goto, Finish
  <2>13. ASSUME VerifyRunning(s) PROVE Quiet(s)'
    BY <1>0, <1>5, <2>13 DEF VerifyRunning, At, Goto, Finish, host
  <2>14. Quiet(s)'
    BY <1>5, <2>3, <2>4, <2>5, <2>6, <2>7, <2>8, <2>9, <2>10, <2>11, <2>12,
          <2>13 DEF ScriptStep
  <2> QED
    BY <1>4, <1>5, <2>1, <2>14
<1>6. ASSUME UNCHANGED vars PROVE LoneInv'
  BY <1>6 DEF LoneInv, vars, host, script, history
<1> QED
  BY <1>2, <1>3, <1>5, <1>6 DEF Next

(***************************************************************************)
(* A request stands unless a starting conductor overwrites it, which a     *)
(* lone script rules out.                                                  *)
(***************************************************************************)
LEMMA RequestStep ==
    ASSUME TypeOK, DrainInv, LoneInv, RequestStands, [Next]_vars PROVE RequestStands'
<1> SUFFICES ASSUME NEW t \in Scripts, Waits(t)', asked'[t] # "early", ~ overlapped'
             PROVE  request' = "true"
  BY DEF RequestStands, Waits
<1> USE DEF Waits
<1>0. DOMAIN pc = Scripts /\ DOMAIN asked = Scripts
  BY DEF TypeOK
<1>1. ASSUME Waits(t), asked[t] # "early", ~ overlapped
      PROVE  request = "true" /\ conductor \notin {"booting", "starting"}
  BY <1>1 DEF RequestStands, LoneInv
<1>2. ASSUME UNCHANGED <<pc, asked, overlapped, request>> PROVE request' = "true"
  BY <1>1, <1>2
<1>3. ASSUME ConductorStep \/ Crash PROVE request' = "true"
  <2>1. UNCHANGED <<pc, overlapped>>
    BY <1>3, ConductorLeavesScripts
  <2>2. CASE GatePasses
    BY <2>2 DEF GatePasses, DrainInv
  <2>3. CASE ~ GatePasses
    <3>1. UNCHANGED asked
      BY <1>3, <2>3 DEF ConductorStep, CreateDatabase, InitializeRequestFile, CheckDatabase,
         SpawnWorker, WorkersEnd, GateStopsPolling, ContainerStops, Crash, script
    <3>2. request = "true" /\ conductor \notin {"booting", "starting"}
      BY <1>1, <2>1, <3>1
    <3>3. UNCHANGED request
      BY <1>3, <2>3, <3>2 DEF ConductorStep, CreateDatabase, InitializeRequestFile,
         CheckDatabase, SpawnWorker, WorkersEnd, GateStopsPolling, ContainerStops, Crash
    <3> QED
      BY <3>2, <3>3
  <2> QED
    BY <2>2, <2>3
<1>4. ASSUME NEW s \in Scripts, StartDeployment(s) PROVE request' = "true"
  BY <1>0, <1>1, <1>4 DEF StartDeployment, At, Goto, host
<1>5. ASSUME NEW s \in Scripts, WriteRequest(s) PROVE request' = "true"
  BY <1>5 DEF WriteRequest
<1>6. ASSUME NEW s \in Scripts, ReadReadyFile(s) \/ Decide(s) \/ CheckDeadline(s)
      PROVE  request' = "true"
  <2>1. /\ UNCHANGED <<asked, overlapped, request>> /\ Waits(s)
        /\ \A r \in Scripts : r # s => pc'[r] = pc[r]
    BY <1>0, <1>6 DEF ReadReadyFile, Decide, CheckDeadline, At, Goto, Finish, host, history
  <2> QED
    BY <1>1, <2>1
<1>7. ASSUME NEW s \in Scripts,
             \/ PrepareHost(s) \/ InspectContainer(s) \/ ClearReadyFile(s)
             \/ RemoveReadyFile(s) \/ ComposeUp(s) \/ ComposeFails(s) \/ VerifyRunning(s)
      PROVE  request' = "true"
  <2>1. /\ UNCHANGED <<overlapped, request>> /\ ~ Waits(s)'
        /\ \A r \in Scripts : r # s => pc'[r] = pc[r] /\ asked'[r] = asked[r]
    BY <1>0, <1>7 DEF PrepareHost, InspectContainer, ClearReadyFile, RemoveReadyFile,
         ComposeUp, ComposeFails, VerifyRunning, At, Goto, Finish, host, history
  <2> QED
    BY <1>1, <2>1
<1>8. ASSUME UNCHANGED vars PROVE request' = "true"
  BY <1>2, <1>8 DEF vars, host, script, history
<1> QED
  BY <1>3, <1>4, <1>5, <1>6, <1>7, <1>8 DEF Next, ScriptStep

(***************************************************************************)
(* The inductive invariant holds throughout.                               *)
(***************************************************************************)
THEOREM Invariance == Spec => []IInv
<1>1. IInv /\ [Next]_vars => IInv'
  BY TypeStep, SignalStep, DrainStep, LoneStep, RequestStep DEF IInv
<1> QED
  BY <1>1, IInvInitially, PTL DEF Spec

(***************************************************************************)
(* deploy-conductor.sh: a script that asked goes on only when a gate has   *)
(* answered it, however many scripts share the two files.                  *)
(***************************************************************************)
THEOREM SignalFresh == Spec => []SignalIsFresh
<1>1. IInv => SignalIsFresh
  BY DEF IInv
<1> QED
  BY <1>1, Invariance, PTL

(***************************************************************************)
(* main.go, 71-76: the request that ended one conductor never drains the   *)
(* next.                                                                   *)
(***************************************************************************)
THEOREM DrainRequested == Spec => []DrainWasRequested
<1>1. IInv => DrainWasRequested
  BY DEF IInv, DrainInv, DrainWasRequested
<1> QED
  BY <1>1, Invariance, PTL

(***************************************************************************)
(* runConductor: only a request written before the conductor's start has   *)
(* initialised the file is lost.                                           *)
(***************************************************************************)
THEOREM RequestKept == Spec => []RequestStands
<1>1. IInv => RequestStands
  BY DEF IInv
<1> QED
  BY <1>1, Invariance, PTL

(***************************************************************************)
(* docker compose up: a script that has the host to itself never removes a *)
(* conductor that has agents at work.                                      *)
(***************************************************************************)
THEOREM LoneReplacement == Spec => JobsFinishBeforeLoneReplacement
<1>1. IInv /\ [Next]_vars =>
        [~ overlapped /\ (\E s \in Scripts : Replaces(s)) => ~ (Running /\ busy)]_vars
  <2> SUFFICES ASSUME IInv, ~ overlapped, NEW s \in Scripts, Replaces(s)
               PROVE  ~ Running
    OBVIOUS
  <2> QED
    BY DEF IInv, LoneInv, Replaces, ComposeUp, ComposeFails, At
<1> QED
  BY <1>1, Invariance, PTL DEF Spec, JobsFinishBeforeLoneReplacement

===============================================================================
