-------------------------------- MODULE Deploy --------------------------------
(***************************************************************************)
(* A deployment of the conductor: deploy-conductor.sh on the host, the     *)
(* container with its entry point, and the conductor's shutdown gate,      *)
(* which talk through two files and docker inspect.                        *)
(*                                                                         *)
(* Each run of the workflow conductor.yml starts the script on the host;   *)
(* the workflow names no concurrency group and stops waiting for the       *)
(* script after a while, so runs of the script may overlap.                *)
(***************************************************************************)
EXTENDS Integers

CONSTANTS
    Scripts,            \* concurrent runs of the script
    MaxRuns,            \* bound: deployments started
    MaxCrashes          \* bound: conductor processes that end by themselves

ASSUME DeployAssumption == MaxRuns \in Nat /\ MaxCrashes \in Nat

VARIABLES
    conductor,          \* the container and the process in it
    busy,               \* the conductor has agents at work
    request,            \* the file IS_CONDUCTOR_SHUTTING_DOWN
    ready,              \* CONDUCTOR_READY_FOR_SAFE_SHUTDOWN reads true
    database,           \* the file scheduler.sqlite and its schema
    pc,                 \* where each script is
    seen,               \* ready_for_safe_shutdown of each script
    asked,              \* history: how each script's request has fared
    outcome,            \* how the last run of each script has ended
    runs, crashes,      \* history: deployments started, crashes
    overlapped,         \* history: two scripts have run at the same time
    wanted              \* history: this container was asked to shut down

host == <<conductor, busy, request, ready, database>>
script == <<pc, seen, asked, outcome>>
history == <<runs, crashes, overlapped, wanted>>
vars == <<host, script, history>>

Running == conductor \in {"booting", "starting", "checking", "serving",
                         "draining", "leaving"}

-----------------------------------------------------------------------------

Init ==
    /\ conductor = "absent" /\ busy = FALSE
    /\ request = "absent" /\ ready = FALSE /\ database = "absent"
    /\ pc = [s \in Scripts |-> "idle"]
    /\ seen = [s \in Scripts |-> FALSE]
    /\ asked = [s \in Scripts |-> "no"]
    /\ outcome = [s \in Scripts |-> "none"]
    /\ runs = 0 /\ crashes = 0 /\ overlapped = FALSE /\ wanted = FALSE

(****************************** The conductor ******************************)

(* The entry point creates the database if there is no such file, and      *)
(* starts the program.                                                     *)
CreateDatabase ==
    /\ conductor = "booting"
    /\ database' = IF database = "absent" THEN "complete" ELSE database
    /\ conductor' = "starting"
    /\ UNCHANGED <<busy, request, ready, script, history>>

(* The container is killed, or sqlite3 fails: the file may be there by     *)
(* then, and its schema not.                                               *)
BootInterrupted ==
    database' \in IF conductor = "booting" /\ database = "absent"
                  THEN {"absent", "partial"} ELSE {database}

(* Wrong: a request file that is there already is left as it is.           *)
InitializeRequestFile_kept ==
    /\ conductor = "starting"
    /\ conductor' = "checking"
    /\ request' = IF request = "absent" THEN "false" ELSE request
    /\ UNCHANGED <<busy, ready, database, script, history>>

(* runConductor replaces the request file, whatever it says.               *)
InitializeRequestFile ==
    /\ conductor = "starting"
    /\ conductor' = "checking"
    /\ request' = "false"
    /\ UNCHANGED <<busy, ready, database, script, history>>

(* Wrong: the request file is initialised once the database is known.      *)
CheckDatabase_initialises ==
    /\ conductor = "checking"
    /\ conductor' = IF database = "complete" THEN "serving" ELSE "leaving"
    /\ request' = "false"
    /\ UNCHANGED <<busy, ready, database, script, history>>

(* A database whose schema is not the expected one ends the program.       *)
CheckDatabase ==
    /\ conductor = "checking"
    /\ conductor' = IF database = "complete" THEN "serving" ELSE "leaving"
    /\ UNCHANGED <<busy, request, ready, database, script, history>>

(* A task starts.  A message that was taken before the drain may register  *)
(* a worker after it, but its launch is then cancelled.                    *)
SpawnWorker ==
    /\ conductor = "serving" /\ ~ busy
    /\ busy' = TRUE
    /\ UNCHANGED <<conductor, request, ready, database, script, history>>

WorkersEnd ==
    /\ Running /\ busy
    /\ busy' = FALSE
    /\ UNCHANGED <<conductor, request, ready, database, script, history>>

(* Wrong: the gate resets the file when it has read it.                    *)
GateStopsPolling_resets ==
    /\ conductor = "serving" /\ request = "true"
    /\ conductor' = "draining" /\ request' = "false"
    /\ UNCHANGED <<busy, ready, database, script, history>>

(* The gate reads true: no new work from here on.                          *)
GateStopsPolling ==
    /\ conductor = "serving" /\ request = "true"
    /\ conductor' = "draining"
    /\ UNCHANGED <<busy, request, ready, database, script, history>>

(* The last worker is done: the gate writes its file, or fails to, and     *)
(* main returns.                                                           *)
GatePasses ==
    /\ conductor = "draining" /\ ~ busy
    /\ conductor' = "leaving"
    /\ ready' \in {TRUE, ready}
    /\ asked' = [s \in Scripts |-> IF asked[s] = "no" THEN "no" ELSE "drained"]
    /\ UNCHANGED <<busy, request, database, pc, seen, outcome, history>>

(* The entry point finds the tmux session gone, and the container stops.   *)
ContainerStops ==
    /\ conductor = "leaving"
    /\ conductor' = "stopped"
    /\ UNCHANGED <<busy, request, ready, database, script, history>>

(* The container ends by itself: an error of the startup, a panic.         *)
Crash ==
    /\ Running /\ crashes < MaxCrashes
    /\ conductor' = "stopped" /\ busy' = FALSE /\ BootInterrupted
    /\ crashes' = crashes + 1
    /\ UNCHANGED <<request, ready, script, runs, overlapped, wanted>>

(**************************** deploy-conductor.sh **************************)

At(s, line) == pc[s] = line
Goto(s, line) == pc' = [pc EXCEPT ![s] = line]

Finish(s, how) ==
    /\ Goto(s, "idle")
    /\ outcome' = [outcome EXCEPT ![s] = how]

StartDeployment(s) ==
    /\ At(s, "idle") /\ runs < MaxRuns
    /\ runs' = runs + 1
    /\ overlapped' = (overlapped \/ \E t \in Scripts : ~ At(t, "idle"))
    /\ Goto(s, "prepare")
    /\ asked' = [asked EXCEPT ![s] = "no"]
    /\ outcome' = [outcome EXCEPT ![s] = "none"]
    /\ UNCHANGED <<host, seen, crashes, wanted>>

(* The registry, the metadata service or the pull of the new image may     *)
(* fail, before anything is asked of the running conductor.                *)
PrepareHost(s) ==
    /\ At(s, "prepare")
    /\ \/ Goto(s, "inspect") /\ UNCHANGED outcome
       \/ Finish(s, "notPrepared")
    /\ UNCHANGED <<host, seen, asked, history>>

(* Wrong: the conductor is not asked.                                      *)
InspectContainer_skipped(s) ==
    /\ At(s, "inspect")
    /\ Goto(s, "remove")
    /\ UNCHANGED <<host, seen, asked, outcome, history>>

(* No container, or one that is not running, needs no shutdown.            *)
InspectContainer(s) ==
    /\ At(s, "inspect")
    /\ Goto(s, IF Running THEN "clear" ELSE "remove")
    /\ UNCHANGED <<host, seen, asked, outcome, history>>

(* Wrong: the signal of an earlier shutdown is not removed.                *)
ClearReadyFile_forgotten(s) ==
    /\ At(s, "clear")
    /\ asked' = [asked EXCEPT ![s] = "yes"]
    /\ Goto(s, "request")
    /\ UNCHANGED <<host, seen, outcome, history>>

ClearReadyFile(s) ==
    /\ At(s, "clear")
    /\ ready' = FALSE
    /\ asked' = [asked EXCEPT ![s] = "yes"]
    /\ Goto(s, "request")
    /\ UNCHANGED <<conductor, busy, request, database, seen, outcome, history>>

(* A container that has just started overwrites the file in its main: a    *)
(* request that is written before that is too early.                       *)
WriteRequest(s) ==
    /\ At(s, "request")
    /\ request' = "true" /\ wanted' = TRUE
    /\ asked' = [asked EXCEPT ![s] =
                    IF @ = "yes" /\ conductor \in {"booting", "starting"}
                    THEN "early" ELSE @]
    /\ Goto(s, "read")
    /\ UNCHANGED <<conductor, busy, ready, database, seen, outcome>>
    /\ UNCHANGED <<runs, crashes, overlapped>>

ReadReadyFile(s) ==
    /\ At(s, "read")
    /\ seen' = [seen EXCEPT ![s] = ready]
    /\ Goto(s, "decide")
    /\ UNCHANGED <<host, asked, outcome, history>>

(* Wrong: the signal is not required.                                      *)
Decide_unsignalled(s) ==
    /\ At(s, "decide")
    /\ Goto(s, IF Running THEN "deadline" ELSE "remove")
    /\ UNCHANGED <<host, seen, asked, outcome, history>>

(* Both tests of the loop ask docker again; given what was read of the     *)
(* file, only one of them can succeed.                                     *)
Decide(s) ==
    /\ At(s, "decide")
    /\ \/ Running /\ Goto(s, "deadline") /\ UNCHANGED outcome
       \/ ~ Running /\ seen[s] /\ Goto(s, "remove") /\ UNCHANGED outcome
       \/ ~ Running /\ ~ seen[s] /\ Finish(s, "exitedBeforeSignal")
    /\ UNCHANGED <<host, seen, asked, history>>

(* SAFE_SHUTDOWN_TIMEOUT_SECONDS, fifteen minutes, may pass before the     *)
(* agents are done.                                                        *)
CheckDeadline(s) ==
    /\ At(s, "deadline")
    /\ \/ Goto(s, "read") /\ UNCHANGED outcome
       \/ Finish(s, "timedOut")
    /\ UNCHANGED <<host, seen, asked, history>>

RemoveReadyFile(s) ==
    /\ At(s, "remove")
    /\ ready' = FALSE
    /\ Goto(s, "up")
    /\ UNCHANGED <<conductor, busy, request, database, seen, asked, outcome, history>>

(* docker compose up --force-recreate removes the container, running or    *)
(* not, and starts a new one.                                              *)
ComposeUp(s) ==
    /\ At(s, "up")
    /\ conductor' = "booting" /\ busy' = FALSE /\ BootInterrupted
    /\ wanted' = FALSE
    /\ Goto(s, "verify")
    /\ UNCHANGED <<request, ready, seen, asked, outcome, runs, crashes, overlapped>>

(* docker compose fails and set -e ends the script: before it has done     *)
(* anything, after it has removed the old container, or when the new one   *)
(* cannot be started.                                                      *)
ComposeFails(s) ==
    /\ At(s, "up")
    /\ \/ UNCHANGED <<conductor, busy, database>>
       \/ conductor' \in {"absent", "stopped"} /\ busy' = FALSE /\ BootInterrupted
    /\ Finish(s, "notStarted")
    /\ UNCHANGED <<request, ready, seen, asked, history>>

(* The steps that take the old container away.                             *)
Replaces(s) == ComposeUp(s) \/ (ComposeFails(s) /\ conductor' # conductor)

VerifyRunning(s) ==
    /\ At(s, "verify")
    /\ Finish(s, IF Running THEN "deployed" ELSE "exitedAfterDeploy")
    /\ UNCHANGED <<host, seen, asked, history>>

-----------------------------------------------------------------------------

ConductorStep ==
    \/ CreateDatabase \/ InitializeRequestFile \/ CheckDatabase
    \/ SpawnWorker \/ WorkersEnd
    \/ GateStopsPolling \/ GatePasses \/ ContainerStops

ScriptStep(s) ==
    \/ PrepareHost(s) \/ InspectContainer(s) \/ ClearReadyFile(s) \/ WriteRequest(s)
    \/ ReadReadyFile(s) \/ Decide(s) \/ CheckDeadline(s)
    \/ RemoveReadyFile(s) \/ ComposeUp(s) \/ ComposeFails(s) \/ VerifyRunning(s)

Next ==
    \/ ConductorStep \/ Crash
    \/ \E s \in Scripts : StartDeployment(s) \/ ScriptStep(s)

Spec == Init /\ [][Next]_vars

(***************************************************************************)
(* The conductor starts, its gate looks at the file every five seconds,    *)
(* and the container stops when the program has ended; the script goes on. *)
(* Agents need not end, and the script's deadline need not pass.           *)
(***************************************************************************)
Fairness ==
    /\ WF_vars(CreateDatabase) /\ WF_vars(InitializeRequestFile)
    /\ WF_vars(CheckDatabase)
    /\ WF_vars(GateStopsPolling) /\ WF_vars(GatePasses) /\ WF_vars(ContainerStops)
    /\ \A s \in Scripts : WF_vars(ScriptStep(s))

FairSpec == Spec /\ Fairness

-----------------------------------------------------------------------------

TypeOK ==
    /\ conductor \in {"absent", "stopped"} \cup
                      {"booting", "starting", "checking", "serving", "draining", "leaving"}
    /\ busy \in BOOLEAN /\ ready \in BOOLEAN
    /\ busy => conductor \in {"serving", "draining"}
    /\ request \in {"absent", "false", "true"}
    /\ database \in {"absent", "partial", "complete"}
    /\ pc \in [Scripts -> {"idle", "prepare", "inspect", "clear", "request", "read",
                           "decide", "deadline", "remove", "up", "verify"}]
    /\ seen \in [Scripts -> BOOLEAN]
    /\ asked \in [Scripts -> {"no", "yes", "early", "drained"}]
    /\ outcome \in [Scripts -> {"none", "notPrepared", "deployed", "exitedBeforeSignal",
                                "timedOut", "notStarted", "exitedAfterDeploy"}]
    /\ runs \in 0 .. MaxRuns /\ crashes \in 0 .. MaxCrashes
    /\ overlapped \in BOOLEAN /\ wanted \in BOOLEAN

(***************************************************************************)
(* A script that asked for a shutdown goes on to replace the conductor     *)
(* only after a gate has passed since it asked: the signal an earlier      *)
(* deployment left behind is never taken for the answer, and a conductor   *)
(* that crashed while draining stops the deployment.                       *)
(***************************************************************************)
SignalIsFresh ==
    \A s \in Scripts :
        pc[s] \in {"remove", "up", "verify"} => asked[s] \in {"no", "drained"}

(***************************************************************************)
(* A conductor stops polling only when a script has asked while its own    *)
(* container was there: the request that ended the conductor before it is  *)
(* still in the file when it starts, and never drains it too.              *)
(***************************************************************************)
DrainWasRequested == conductor = "draining" => wanted

Waits(s) == pc[s] \in {"read", "decide", "deadline"}

(***************************************************************************)
(* A request is lost only to a conductor that had not yet initialised the  *)
(* file when it was written, or to a second script: as long as the script  *)
(* waits for the answer, the file says what it wrote.                      *)
(***************************************************************************)
RequestStands ==
    \A s \in Scripts :
        Waits(s) /\ asked[s] # "early" /\ ~ overlapped => request = "true"

(***************************************************************************)
(* A script that goes on waiting until its deadline has asked too early,   *)
(* has been overlapped by another, or waits for agents that do not end:    *)
(* no other interleaving of script, container and gate keeps it.           *)
(***************************************************************************)
WaitsOnlyForAgents ==
    \A s \in Scripts :
        <>[](Waits(s) /\ asked[s] # "early" /\ ~ overlapped)
            => <>[](conductor = "draining" /\ busy)

(***************************************************************************)
(* main.go, 252-254: the gate keeps the program open when "a new version   *)
(* of the conductor is being deployed, allowing the conductor to finish    *)
(* its jobs before shutdown".  A deployment never removes a conductor that *)
(* has agents at work.                                                     *)
(***************************************************************************)
JobsFinishBeforeReplacement ==
    [][ (\E s \in Scripts : Replaces(s)) => ~ (Running /\ busy) ]_vars

(***************************************************************************)
(* As long as no two runs of the script have overlapped, this is so, also  *)
(* after deployments that timed out and conductors that crashed.           *)
(***************************************************************************)
JobsFinishBeforeLoneReplacement ==
    [][ ~ overlapped /\ (\E s \in Scripts : Replaces(s)) => ~ (Running /\ busy) ]_vars

-----------------------------------------------------------------------------
(* The inductive invariant.                                                *)

(* The signal file is TRUE only when every request made so far has been    *)
(* answered by a gate, and so is what a script has read of it.             *)
SignalInv ==
    \A s \in Scripts :
        /\ ready \/ (seen[s] /\ pc[s] = "decide") => asked[s] \in {"no", "drained"}
        /\ pc[s] \in {"prepare", "inspect", "clear"} => asked[s] = "no"
        /\ pc[s] = "request" => asked[s] # "no"

(* Only the script itself can start a container meanwhile.                 *)
LoneInv ==
    ~ overlapped =>
        /\ \A s, t \in Scripts : pc[s] # "idle" /\ pc[t] # "idle" => s = t
        /\ \A s \in Scripts :
              /\ pc[s] \in {"remove", "up"} => ~ Running
              /\ \/ Waits(s) /\ asked[s] # "early"
                 \/ pc[s] = "request" /\ asked[s] = "drained"
                 => conductor \notin {"booting", "starting"}

(* Only the start of a conductor takes a request back, and what it reads   *)
(* after that was written for it.                                          *)
DrainInv ==
    /\ conductor = "draining" => request = "true"
    /\ conductor \in {"checking", "serving", "draining"} /\ request = "true" => wanted

IInv ==
    /\ TypeOK /\ DrainInv
    /\ SignalIsFresh /\ SignalInv
    /\ LoneInv /\ RequestStands

-----------------------------------------------------------------------------

(***************************************************************************)
(* deploy-conductor.sh, 77: "existing conductor exited before writing safe *)
(* shutdown signal".  When the script ends with these words, the signal is *)
(* not there.                                                              *)
(***************************************************************************)
ExitedBeforeSignalIsTrue ==
    \A s \in Scripts : outcome[s] = "exitedBeforeSignal" => ~ ready

=============================================================================
