------------------------------ MODULE Pipeline ------------------------------
(***************************************************************************)
(* From the SQS queue to a launched worker: the queue, the poller          *)
(* goroutine (poll.go), the poll loop of runConductor (main.go) with the   *)
(* scheduler it calls, and the life of the process around them: draining   *)
(* for a deployment, exit, crash and restart.                              *)
(*                                                                         *)
(* The scheduler is the component Scheduler; its tables survive a restart, *)
(* everything in the process does not.                                     *)
(***************************************************************************)
EXTENDS Integers, FiniteSets

CONSTANTS
    AlarmMsgs, TicketMsgs,  \* messages whose bodies parse as alarm, as ticket
    JunkMsgs,               \* messages of no supported shape
    Account,                \* the account of each alarm message
    None,                   \* no message
    Window,                 \* chainWindow
    MaxAlarms, MaxTickets, MaxTime, MaxPasses,      \* bounds, as in Scheduler
    MaxFaults               \* bound: disturbances of every kind together

Msgs == AlarmMsgs \cup TicketMsgs \cup JunkMsgs

ASSUME PipelineAssumption ==
    /\ None \notin Msgs
    /\ AlarmMsgs \cap TicketMsgs = {}
    /\ JunkMsgs \cap (AlarmMsgs \cup TicketMsgs) = {}
    /\ DOMAIN Account = AlarmMsgs
    /\ Window \in Nat /\ MaxFaults \in Nat
    /\ MaxAlarms \in Nat /\ MaxTickets \in Nat
    /\ MaxTime \in Nat /\ MaxPasses \in Nat

VARIABLES
    queue,      \* where each message is in SQS
    phase,      \* of the conductor: "up", "draining" or "down"
    held,       \* the delivery the poller offers on its channel
    loop,       \* the poll loop: where it is, its delivery, its decisions
    alarms, tickets, now, pass, issued,     \* the scheduler, as in Scheduler
    stored,     \* history: the rows each message has been stored in
    spawned,    \* history: the decisions whose worker was launched
    faults      \* history: number of disturbances so far

schedVars == <<alarms, tickets, now, pass, issued>>
vars == <<queue, phase, held, loop, schedVars, stored, spawned, faults>>

(* The scheduler with its theorems, on a clock that is never set back.     *)
Sched == INSTANCE SchedulerProofs WITH
            Accounts <- {Account[m] : m \in AlarmMsgs},
            Bodies <- TicketMsgs, Texts <- {}, Description <- <<>>,
            StepBack <- 0

(* A delivery carries a receipt handle; it is fresh until SQS delivers the *)
(* message again.                                                          *)
NoDelivery == [msg |-> None, fresh |-> FALSE]

Delivery == [msg : Msgs, fresh : BOOLEAN] \cup {NoDelivery}

LoopStages == {"select", "taken", "insert", "schedule", "delete", "spawn", "ended"}

AtSelect == [at |-> "select", msg |-> None, fresh |-> FALSE, todo |-> {}]

Fault == faults < MaxFaults /\ faults' = faults + 1

-----------------------------------------------------------------------------

Init ==
    /\ queue = [m \in Msgs |-> "unsent"]
    /\ phase = "up"
    /\ held = NoDelivery
    /\ loop = AtSelect
    /\ Sched!Init
    /\ stored = [m \in Msgs |-> {}]
    /\ spawned = {}
    /\ faults = 0

(*************************** The queue (external) **************************)

Send(m) ==
    /\ queue[m] = "unsent"
    /\ queue' = [queue EXCEPT ![m] = "visible"]
    /\ UNCHANGED <<phase, held, loop, schedVars, stored, spawned, faults>>

InProcess(m) == held.msg = m \/ (loop.msg = m /\ loop.at # "spawn")

(* The visibility timeout passes without a delete: because the delivery    *)
(* was lost or left, or, too early, while the conductor is busy with it.   *)
VisibilityExpires(m) ==
    /\ queue[m] = "inflight"
    /\ queue' = [queue EXCEPT ![m] = "visible"]
    /\ IF InProcess(m) THEN Fault ELSE UNCHANGED faults
    /\ UNCHANGED <<phase, held, loop, schedVars, stored, spawned>>

(******************************** The poller *******************************)

(* Delivering a message again makes the older receipt handle stale.        *)
Deliver(m) ==
    /\ phase = "up" /\ held = NoDelivery
    /\ queue[m] = "visible"
    /\ queue' = [queue EXCEPT ![m] = "inflight"]
    /\ loop' = [loop EXCEPT !.fresh = loop.fresh /\ loop.msg # m]

(* Poll: ReceiveMessages, parseSQSMessage, then the offer to the loop.     *)
Receive(m) ==
    /\ Deliver(m)
    /\ held' = [msg |-> m, fresh |-> TRUE]
    /\ UNCHANGED <<phase, schedVars, stored, spawned, faults>>

(* ReceiveMessages returns an error after SQS has handed the message out.  *)
ReceiveFails(m) ==
    /\ Deliver(m)
    /\ Fault
    /\ UNCHANGED <<phase, held, schedVars, stored, spawned>>

(* The poller sees its context cancelled and returns.                      *)
PollerStops ==
    /\ phase = "draining" /\ held # NoDelivery
    /\ held' = NoDelivery
    /\ UNCHANGED <<queue, phase, loop, schedVars, stored, spawned, faults>>

(****************************** The poll loop ******************************)

BackToSelect == loop' = AtSelect

Goto(stage) == loop' = [loop EXCEPT !.at = stage]

Running == phase \in {"up", "draining"}

(* A call that takes the polling context succeeds only before it is        *)
(* cancelled.  A call that fails has either seen the cancelled context or  *)
(* met a disturbance.                                                      *)
CallSucceeds == phase = "up" /\ UNCHANGED faults
CallFails == \/ phase = "draining" /\ UNCHANGED faults
             \/ Running /\ Fault

Take ==
    /\ Running /\ loop.at = "select" /\ held # NoDelivery
    /\ loop' = [AtSelect EXCEPT !.at = "taken", !.msg = held.msg,
                                !.fresh = held.fresh]
    /\ held' = NoDelivery
    /\ UNCHANGED <<queue, phase, schedVars, stored, spawned, faults>>

(* The guard after the receive: a message that was taken in the moment the *)
(* drain began is dropped.                                                 *)
Recheck ==
    /\ Running /\ loop.at = "taken"
    /\ IF phase = "draining"
       THEN loop' = [AtSelect EXCEPT !.at = "ended"]
       ELSE Goto("insert")
    /\ UNCHANGED <<queue, phase, held, schedVars, stored, spawned, faults>>

LoopEnds ==
    /\ phase = "draining" /\ loop.at = "select"
    /\ Goto("ended")
    /\ UNCHANGED <<queue, phase, held, schedVars, stored, spawned, faults>>

(* parseIncomingMessageForScheduling, of which only the verdict matters.   *)
IsIncident(m) == m \in AlarmMsgs
IsTicket(m) == m \in TicketMsgs
Unsupported(m) == ~ IsIncident(m) /\ ~ IsTicket(m)

(* InsertMessageAndRunScheduling, first half: the row commits by itself.   *)
InsertAlarm ==
    /\ IsIncident(loop.msg)
    /\ Sched!InsertAlarm(Account[loop.msg])
    /\ stored' = [stored EXCEPT ![loop.msg] =
                     @ \cup {r.id : r \in alarms' \ alarms}]

InsertTicket ==
    /\ IsTicket(loop.msg)
    /\ Sched!InsertTicket(loop.msg)
    /\ stored' = [stored EXCEPT ![loop.msg] =
                     @ \cup {t.id : t \in tickets' \ tickets}]

Insert ==
    /\ loop.at = "insert" /\ CallSucceeds
    /\ InsertAlarm \/ InsertTicket
    /\ Goto("schedule")
    /\ UNCHANGED <<queue, phase, held, spawned>>

(* Wrong: a message that could not be stored is deleted all the same.      *)
InsertFails_deletes ==
    /\ Running /\ loop.at = "insert"
    /\ CallFails \/ (Unsupported(loop.msg) /\ UNCHANGED faults)
    /\ queue' = [queue EXCEPT ![loop.msg] = "gone"]
    /\ BackToSelect
    /\ UNCHANGED <<phase, held, schedVars, stored, spawned>>

(* The insert fails, or the message is of no supported shape: the loop     *)
(* continues without a delete, and SQS will deliver the message again.     *)
InsertFails ==
    /\ Running /\ loop.at = "insert"
    /\ CallFails \/ (Unsupported(loop.msg) /\ UNCHANGED faults)
    /\ BackToSelect
    /\ UNCHANGED <<queue, phase, held, schedVars, stored, spawned>>

(* Wrong: decisions about tickets are not passed on.                       *)
Schedule_incidentsOnly ==
    /\ loop.at = "schedule" /\ CallSucceeds
    /\ Sched!RunScheduling
    /\ loop' = [loop EXCEPT !.at = "delete",
                            !.todo = {d \in issued' \ issued : d.type = "INCIDENT"}]
    /\ UNCHANGED <<queue, phase, held, stored, spawned>>

(* RunScheduling commits and returns its decisions.                        *)
Schedule ==
    /\ loop.at = "schedule" /\ CallSucceeds
    /\ Sched!RunScheduling
    /\ loop' = [loop EXCEPT !.at = "delete", !.todo = issued' \ issued]
    /\ UNCHANGED <<queue, phase, held, stored, spawned>>

(* Wrong: the error of the pass is not looked at before the delete.        *)
ScheduleFails_ignored ==
    /\ loop.at = "schedule" /\ CallFails
    /\ Goto("delete")
    /\ UNCHANGED <<queue, phase, held, schedVars, stored, spawned>>

(* RunScheduling rolls back; the inserted row stays.                       *)
ScheduleFails ==
    /\ loop.at = "schedule" /\ CallFails
    /\ BackToSelect
    /\ UNCHANGED <<queue, phase, held, schedVars, stored, spawned>>

(* Wrong: the message is not deleted.                                      *)
Delete_forgotten ==
    /\ loop.at = "delete" /\ CallSucceeds
    /\ Goto("spawn")
    /\ UNCHANGED <<queue, phase, held, schedVars, stored, spawned>>

(* DeleteMessage.  With a stale receipt handle SQS may keep the message.   *)
Delete ==
    /\ loop.at = "delete" /\ CallSucceeds
    /\ \/ queue' = [queue EXCEPT ![loop.msg] = "gone"]
       \/ ~ loop.fresh /\ UNCHANGED queue
    /\ Goto("spawn")
    /\ UNCHANGED <<phase, held, schedVars, stored, spawned>>

(* The error of DeleteMessage is not looked at: the loop goes on to spawn. *)
DeleteFails ==
    /\ loop.at = "delete" /\ CallFails
    /\ Goto("spawn")
    /\ UNCHANGED <<queue, phase, held, schedVars, stored, spawned>>

(* The work files of one worker cannot be laid out.                        *)
PrepareFails == Running /\ Fault

(* prepareWorkerSpawnConfig and registry.spawnWorker for one decision.  A  *)
(* RunTask that is under way when the drain begins may still succeed.      *)
Spawn(d) ==
    /\ Running /\ loop.at = "spawn" /\ d \in loop.todo
    /\ spawned' = spawned \cup {d}
    /\ loop' = [loop EXCEPT !.todo = @ \ {d}]
    /\ UNCHANGED <<queue, phase, held, schedVars, stored, faults>>

(* Wrong: the decision is tried again.                                     *)
SpawnFails_retried(d) ==
    /\ loop.at = "spawn" /\ d \in loop.todo
    /\ PrepareFails \/ CallFails
    /\ UNCHANGED <<queue, phase, held, loop, schedVars, stored, spawned>>

(* Logged, and the loop continues with the next decision.                  *)
SpawnFails(d) ==
    /\ loop.at = "spawn" /\ d \in loop.todo
    /\ PrepareFails \/ CallFails
    /\ loop' = [loop EXCEPT !.todo = @ \ {d}]
    /\ UNCHANGED <<queue, phase, held, schedVars, stored, spawned>>

SpawnsDone ==
    /\ Running /\ loop.at = "spawn" /\ loop.todo = {}
    /\ BackToSelect
    /\ UNCHANGED <<queue, phase, held, schedVars, stored, spawned, faults>>

(******************************* The process *******************************)

(* The shutdown gate closes PollDone and cancels the polling context.      *)
Drain ==
    /\ phase = "up" /\ Fault
    /\ phase' = "draining"
    /\ UNCHANGED <<queue, held, loop, schedVars, stored, spawned>>

Die ==
    /\ phase' = "down"
    /\ held' = NoDelivery
    /\ BackToSelect
    /\ UNCHANGED <<queue, schedVars, stored, spawned>>

(* The gate finds no active worker and main returns.  It does not wait for *)
(* the goroutine of the poll loop.                                         *)
Exit == phase = "draining" /\ Die /\ UNCHANGED faults

Crash == Running /\ Fault /\ Die

Start ==
    /\ phase = "down"
    /\ phase' = "up"
    /\ UNCHANGED <<queue, held, loop, schedVars, stored, spawned, faults>>

Tick ==
    /\ Sched!Tick
    /\ UNCHANGED <<queue, phase, held, loop, stored, spawned, faults>>

Next ==
    \/ \E m \in Msgs : \/ Send(m) \/ VisibilityExpires(m)
                       \/ Receive(m) \/ ReceiveFails(m)
    \/ PollerStops
    \/ Take \/ Recheck \/ LoopEnds
    \/ Insert \/ InsertFails
    \/ Schedule \/ ScheduleFails
    \/ Delete \/ DeleteFails
    \/ \E d \in loop.todo : Spawn(d) \/ SpawnFails(d)
    \/ SpawnsDone
    \/ Drain \/ Exit \/ Crash \/ Start
    \/ Tick

Spec == Init /\ [][Next]_vars

-----------------------------------------------------------------------------

(***************************************************************************)
(* The goroutines keep running; a visibility timeout passes once nobody    *)
(* works on the message; SQS delivers each visible message eventually,     *)
(* though the poller asks only while its hands are free; a conductor that  *)
(* is down is started again, by hand or by a deployment.  No failure is    *)
(* required to happen, and MaxFaults bounds those that do.  Nothing makes  *)
(* a drain end: the gate waits for the workers as long as there are any,   *)
(* forever when one of them has died without a word.                       *)
(***************************************************************************)
LoopStep ==
    \/ Take \/ Recheck \/ LoopEnds \/ Insert \/ InsertFails \/ Schedule
    \/ Delete \/ SpawnsDone
    \/ \E d \in loop.todo : Spawn(d) \/ SpawnFails(d)

Fairness ==
    /\ WF_vars(LoopStep)
    /\ WF_vars(Start)
    /\ \A m \in Msgs :
          /\ WF_vars(VisibilityExpires(m) /\ ~ InProcess(m))
          /\ SF_vars(Receive(m))

FairSpec == Spec /\ Fairness

-----------------------------------------------------------------------------

TypeOK ==
    /\ queue \in [Msgs -> {"unsent", "visible", "inflight", "gone"}]
    /\ phase \in {"up", "draining", "down"}
    /\ held \in Delivery
    /\ loop \in [at : LoopStages, msg : Msgs \cup {None}, fresh : BOOLEAN,
                 todo : SUBSET issued]
    /\ Sched!TypeOK
    /\ stored \in [Msgs -> SUBSET (1 .. MaxAlarms \cup 1 .. MaxTickets)]
    /\ spawned \subseteq issued
    /\ faults \in 0 .. MaxFaults

Rows(m) ==
    IF m \in AlarmMsgs THEN {r \in alarms : r.id \in stored[m]}
                       ELSE {t \in tickets : t.id \in stored[m]}

(* A row with the message's body is stored and a pass has seen it.         *)
Decided(m) == \E r \in Rows(m) : r.decided

(***************************************************************************)
(* A message leaves the queue only when it is in the database and a pass   *)
(* over it has committed: no crash, failed statement, expired visibility   *)
(* timeout or stale receipt handle loses an alarm or a ticket.             *)
(***************************************************************************)
NoMessageLost == \A m \in Msgs : queue[m] = "gone" => Decided(m)

(* Decisions that no worker was launched for and that nobody has in hand.  *)
Lost == issued \ (spawned \cup loop.todo)

PassesOf(decisions) == {d.pass : d \in decisions}

(***************************************************************************)
(* A pass marks its rows as decided before any worker exists, so what is   *)
(* dropped between the commit and the launch is dropped for good           *)
(* (scheduler.go, 254; main.go, 229-254).  Here, each disturbance drops    *)
(* the decisions of one pass at most: a redelivery, a failed delete, a     *)
(* pass or an insert that fails, a restart after a clean exit and the      *)
(* passes that come later drop nothing of their own.                       *)
(***************************************************************************)
LossesNeedDisturbances == Cardinality(PassesOf(Lost)) <= faults

(***************************************************************************)
(* Every alarm and every ticket that reaches the queue is eventually       *)
(* stored and decided, whatever fails or crashes on the way, unless the    *)
(* conductor is left in a drain that never ends: polling has stopped, and  *)
(* the gate (shutdowngate.go, 47-51) waits for a worker that is silent.    *)
(***************************************************************************)
EveryMessageDecided ==
    \A m \in AlarmMsgs \cup TicketMsgs :
        []<>(phase # "draining") => (queue[m] = "visible" ~> Decided(m))

-----------------------------------------------------------------------------
(* The invariant behind Conductor's AgentsNeedUpsets: what a message may   *)
(* yet be stored without a further disturbance is paid for already.        *)

One(condition) == IF condition THEN 1 ELSE 0

(* While polling goes on, a fresh delivery ends in a delete that works, or *)
(* in a disturbance: nothing else brings its message back.                 *)
Leased(m) ==
    /\ phase = "up"
    /\ \/ held.msg = m /\ held.fresh
       \/ loop.msg = m /\ loop.fresh /\ loop.at # "spawn"

(* SQS may deliver the message again.                                      *)
Returns(m) ==
    \/ queue[m] \in {"unsent", "visible"}
    \/ queue[m] = "inflight" /\ ~ Leased(m)

(* The stores that m may yet see: one if it may be delivered again, one    *)
(* for the delivery on offer, one for that in the loop before its insert.  *)
StoresAhead(m) ==
    One(Returns(m)) + One(held.msg = m)
        + One(loop.msg = m /\ loop.at \in {"taken", "insert"})

StoresNeedFaults ==
    \A m \in Msgs :
        /\ IsFiniteSet(stored[m])
        /\ Cardinality(stored[m]) + StoresAhead(m) <= 1 + faults

(* Between two deliveries the loop has no message in its hands.            *)
HandsFree == loop.at \in {"select", "ended"} => loop.msg = None

StoreInv == faults \in Nat /\ HandsFree /\ StoresNeedFaults

-----------------------------------------------------------------------------
(* The inductive invariant behind NoMessageLost.                           *)

RowsInv ==
    /\ alarms \subseteq Sched!Alarm /\ tickets \subseteq Sched!Ticket
    /\ now \in 0 .. MaxTime
    /\ DOMAIN queue = Msgs /\ DOMAIN stored = Msgs

(* What the loop has done to the message in its hands.                     *)
LoopInv ==
    /\ loop \in [at : LoopStages, msg : Msgs \cup {None}, fresh : BOOLEAN,
                 todo : SUBSET issued]
    /\ held \in Delivery
    /\ loop.at \in {"taken", "insert", "schedule", "delete", "spawn"} => loop.msg \in Msgs
    /\ loop.at = "schedule" => Rows(loop.msg) # {}
    /\ loop.at \in {"delete", "spawn"} => Decided(loop.msg)

IInv == RowsInv /\ LoopInv /\ NoMessageLost

-----------------------------------------------------------------------------
(* The inductive invariant behind LossesNeedDisturbances.                  *)

(* The decisions at risk: a drain may drop those in hand without a further *)
(* disturbance, as it has cancelled the context of every launch to come.   *)
AtRisk == IF phase = "draining" THEN Lost \cup loop.todo ELSE Lost

LossInv ==
    /\ faults \in Nat /\ pass \in Nat
    /\ \A d \in issued : d.pass \in 1 .. pass
    /\ \A d, e \in loop.todo : d.pass = e.pass
    /\ loop.at \notin {"delete", "spawn"} => loop.todo = {}
    /\ Cardinality(PassesOf(AtRisk)) <= faults

=============================================================================
