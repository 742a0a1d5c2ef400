---------------------------- MODULE PipelineProofs ----------------------------
(***************************************************************************)
(* Whatever the queue, the poller, the loop and the process do, in         *)
(* whatever order: a message leaves the queue only when a pass has decided *)
(* its row, and what it costs and what it loses is paid by disturbances.   *)
(***************************************************************************)
EXTENDS Pipeline, FiniteSetTheorems, TLAPS

(***************************************************************************)
(* The steps that touch the tables, and all the others.                    *)
(***************************************************************************)
LEMMA TablesChangeBy ==
    ASSUME [Next]_vars
    PROVE  \/ Insert
           \/ Schedule
           \/ Tick
           \/ UNCHANGED <<schedVars, stored>>
<1>1. ASSUME NEW m \in Msgs, Send(m) \/ VisibilityExpires(m) \/ Receive(m) \/ ReceiveFails(m)
      PROVE  UNCHANGED <<schedVars, stored>>
  BY <1>1 DEF Send, VisibilityExpires, Receive, ReceiveFails
<1>2. ASSUME PollerStops \/ Take \/ Recheck \/ LoopEnds \/ InsertFails \/ ScheduleFails
             \/ Delete \/ DeleteFails \/ SpawnsDone
      PROVE  UNCHANGED <<schedVars, stored>>
  BY <1>2 DEF PollerStops, Take, Recheck, LoopEnds, InsertFails, ScheduleFails, Delete,
       DeleteFails, SpawnsDone
<1>3. ASSUME NEW d \in loop.todo, Spawn(d) \/ SpawnFails(d)
      PROVE  UNCHANGED <<schedVars, stored>>
  BY <1>3 DEF Spawn, SpawnFails
<1>4. ASSUME Drain \/ Exit \/ Crash \/ Start PROVE UNCHANGED <<schedVars, stored>>
  BY <1>4 DEF Drain, Exit, Crash, Start, Die
<1>5. ASSUME UNCHANGED vars PROVE UNCHANGED <<schedVars, stored>>
  BY <1>5 DEF vars
<1> QED
  BY <1>1, <1>2, <1>3, <1>4, <1>5 DEF Next

(***************************************************************************)
(* The steps of the pipeline that touch the tables are those of Scheduler. *)
(***************************************************************************)
LEMMA TablesAreSchedulers == Spec => Sched!Spec
<1>1. Init => Sched!Init
  BY DEF Init
<1>2. [Next]_vars => [Sched!Next]_(Sched!vars)
  <2> SUFFICES ASSUME [Next]_vars PROVE [Sched!Next]_(Sched!vars)
    OBVIOUS
  <2>1. CASE Insert
    <3>1. CASE InsertAlarm
      <4>1. Sched!InsertAlarm(Account[loop.msg]) /\ loop.msg \in AlarmMsgs
        BY <3>1 DEF InsertAlarm, IsIncident
      <4> QED
        BY <4>1 DEF Sched!Next
    <3>2. CASE InsertTicket
      <4>1. Sched!InsertTicket(loop.msg) /\ loop.msg \in TicketMsgs
        BY <3>2 DEF InsertTicket, IsTicket
      <4> QED
        BY <4>1 DEF Sched!Next
    <3> QED
      BY <2>1, <3>1, <3>2 DEF Insert
  <2>2. CASE Schedule
    BY <2>2 DEF Schedule, Sched!Next
  <2>3. CASE Tick
    BY <2>3 DEF Tick, Sched!Next
  <2>4. CASE UNCHANGED <<schedVars, stored>>
    BY <2>4 DEF schedVars, Sched!vars
  <2> QED
    BY <2>1, <2>2, <2>3, <2>4, TablesChangeBy
<1> QED
  BY <1>1, <1>2, PTL DEF Spec, Sched!Spec

(***************************************************************************)
(* Every action keeps the rows and their types.                            *)
(***************************************************************************)
LEMMA RowsStep ==
    ASSUME RowsInv, [Next]_vars PROVE RowsInv'
<1>1. DOMAIN queue' = Msgs
  BY DEF RowsInv, Next, vars, Send, VisibilityExpires, Receive, ReceiveFails, Deliver,
     PollerStops, Take, Recheck, LoopEnds, Insert, InsertFails, Schedule, ScheduleFails,
     Delete, DeleteFails, Spawn, SpawnFails, SpawnsDone, Drain, Exit, Crash, Start, Die, Tick
<1>2. CASE UNCHANGED <<schedVars, stored>>
  BY <1>1, <1>2 DEF RowsInv, schedVars
<1>3. CASE Tick
  BY <1>1, <1>3 DEF RowsInv, Tick, Sched!Tick
<1>4. CASE Schedule
  <2>1. /\ alarms' = Sched!MarkAll(alarms)
        /\ tickets' = {[t EXCEPT !.decided = TRUE] : t \in tickets}
        /\ UNCHANGED <<now, stored>>
    BY <1>4 DEF Schedule, Sched!RunScheduling
  <2>2. alarms' \subseteq Sched!Alarm
    BY <2>1 DEF RowsInv, Sched!MarkAll, Sched!Alarm
  <2>3. tickets' \subseteq Sched!Ticket
    BY <2>1 DEF RowsInv, Sched!Ticket
  <2> QED
    BY <1>1, <2>1, <2>2, <2>3 DEF RowsInv
<1>5. CASE Insert /\ InsertAlarm
  <2>1. PICK i \in Sched!AlarmIds :
           alarms' = alarms \cup {[id |-> i, acct |-> Account[loop.msg], at |-> now,
                                   chained |-> FALSE, decided |-> FALSE]}
    BY <1>5 DEF InsertAlarm, Sched!InsertAlarm
  <2>2. /\ UNCHANGED <<tickets, now>>
        /\ Account[loop.msg] \in {Account[m] : m \in AlarmMsgs}
    BY <1>5 DEF InsertAlarm, Sched!InsertAlarm, IsIncident
  <2>3. DOMAIN stored' = Msgs
    <3>1. PICK x : stored' = [stored EXCEPT ![loop.msg] = x]
      BY <1>5, Zenon DEF InsertAlarm
    <3> QED
      BY <3>1 DEF RowsInv
  <2>4. alarms' \subseteq Sched!Alarm
    <3> DEFINE row == [id |-> i, acct |-> Account[loop.msg], at |-> now,
                       chained |-> FALSE, decided |-> FALSE]
               A == {Account[m] : m \in AlarmMsgs}
    <3>1. row \in [id : Sched!AlarmIds, acct : A, at : 0 .. MaxTime,
                   chained : BOOLEAN, decided : BOOLEAN]
      <4>1. Account[loop.msg] \in A
        BY <2>2
      <4>2. now \in 0 .. MaxTime
        BY DEF RowsInv
      <4> HIDE DEF A
      <4> QED
        BY <4>1, <4>2
    <3> QED
      BY <2>1, <3>1 DEF RowsInv, Sched!Alarm
  <2> QED
    BY <1>1, <2>2, <2>3, <2>4 DEF RowsInv
<1>6. CASE Insert /\ InsertTicket
  <2>1. PICK i \in Sched!TicketIds :
           tickets' = tickets \cup {[id |-> i, body |-> loop.msg, decided |-> FALSE]}
    BY <1>6 DEF InsertTicket, Sched!InsertTicket
  <2>2. UNCHANGED <<alarms, now>> /\ loop.msg \in TicketMsgs
    BY <1>6 DEF InsertTicket, Sched!InsertTicket, IsTicket
  <2>3. DOMAIN stored' = Msgs
    <3>1. PICK x : stored' = [stored EXCEPT ![loop.msg] = x]
      BY <1>6, Zenon DEF InsertTicket
    <3> QED
      BY <3>1 DEF RowsInv
  <2>4. tickets' \subseteq Sched!Ticket
    <3>1. [id |-> i, body |-> loop.msg, decided |-> FALSE] \in Sched!Ticket
      BY <2>2 DEF Sched!Ticket
    <3> QED
      BY <2>1, <3>1 DEF RowsInv
  <2> QED
    BY <1>1, <2>2, <2>3, <2>4 DEF RowsInv
<1> QED
  BY <1>2, <1>3, <1>4, <1>5, <1>6, TablesChangeBy DEF Insert

(***************************************************************************)
(* A pass marks every row it leaves in the tables.                         *)
(***************************************************************************)
LEMMA PassMarksRows ==
    ASSUME RowsInv, Sched!RunScheduling
    PROVE  /\ \A r \in alarms : \E q \in alarms' : q.id = r.id /\ q.decided
           /\ \A t \in tickets : \E u \in tickets' : u.id = t.id /\ u.decided
<1>1. ASSUME NEW r \in alarms PROVE \E q \in alarms' : q.id = r.id /\ q.decided
  <2> DEFINE q == [r EXCEPT !.chained = TRUE, !.decided = TRUE]
  <2>1. q \in alarms'
    BY DEF Sched!RunScheduling, Sched!MarkAll
  <2>2. q.id = r.id /\ q.decided
    BY DEF RowsInv, Sched!Alarm
  <2> QED
    BY <2>1, <2>2
<1>2. ASSUME NEW t \in tickets PROVE \E u \in tickets' : u.id = t.id /\ u.decided
  <2> DEFINE u == [t EXCEPT !.decided = TRUE]
  <2>1. u \in tickets'
    BY DEF Sched!RunScheduling
  <2>2. u.id = t.id /\ u.decided
    BY DEF RowsInv, Sched!Ticket
  <2> QED
    BY <2>1, <2>2
<1> QED
  BY <1>1, <1>2

(***************************************************************************)
(* No step takes a row, a decision flag or a message's row away.           *)
(***************************************************************************)
LEMMA TablesGrow ==
    ASSUME RowsInv, [Next]_vars
    PROVE  /\ \A r \in alarms : \E q \in alarms' : q.id = r.id /\ (r.decided => q.decided)
           /\ \A t \in tickets : \E u \in tickets' : u.id = t.id /\ (t.decided => u.decided)
           /\ \A m \in Msgs : stored[m] \subseteq stored'[m]
<1>1. CASE UNCHANGED <<schedVars, stored>>
  BY <1>1 DEF schedVars
<1>2. CASE Tick
  BY <1>2 DEF Tick, Sched!Tick
<1>3. CASE Schedule
  BY <1>3, PassMarksRows DEF Schedule
<1>4. CASE Insert
  <2>1. alarms \subseteq alarms' /\ tickets \subseteq tickets'
    BY <1>4 DEF Insert, InsertAlarm, InsertTicket, Sched!InsertAlarm, Sched!InsertTicket
  <2>2. \A m \in Msgs : stored[m] \subseteq stored'[m]
    <3>1. PICK x : stored' = [stored EXCEPT ![loop.msg] = @ \cup x]
      BY <1>4, Zenon DEF Insert, InsertAlarm, InsertTicket
    <3> QED
      BY <3>1 DEF RowsInv
  <2> QED
    BY <2>1, <2>2
<1> QED
  BY <1>1, <1>2, <1>3, <1>4, TablesChangeBy

(***************************************************************************)
(* What is stored stays stored, what is decided stays decided.             *)
(***************************************************************************)
LEMMA DecidedStays ==
    ASSUME RowsInv, [Next]_vars, NEW m \in Msgs
    PROVE  /\ Rows(m) # {} => Rows(m)' # {}
           /\ Decided(m) => Decided(m)'
<1>1. CASE m \in AlarmMsgs
  BY <1>1, TablesGrow DEF Rows, Decided
<1>2. CASE m \notin AlarmMsgs
  BY <1>2, TablesGrow DEF Rows, Decided
<1> QED
  BY <1>1, <1>2

(***************************************************************************)
(* An insert leaves a row of the message.                                  *)
(***************************************************************************)
LEMMA InsertLeavesRow ==
    ASSUME RowsInv, LoopInv, Insert PROVE Rows(loop.msg)' # {}
<1>0. loop.msg \in Msgs /\ loop'.msg = loop.msg
  BY DEF LoopInv, Insert, Goto
<1>1. CASE InsertAlarm
  <2>1. PICK i \in Sched!AlarmIds :
           /\ \A r \in alarms : r.id < i
           /\ alarms' = alarms \cup {[id |-> i, acct |-> Account[loop.msg], at |-> now,
                                      chained |-> FALSE, decided |-> FALSE]}
    BY <1>1 DEF InsertAlarm, Sched!InsertAlarm, Sched!IsNextId
  <2> DEFINE row == [id |-> i, acct |-> Account[loop.msg], at |-> now,
                     chained |-> FALSE, decided |-> FALSE]
  <2>2. row \in alarms' \ alarms /\ row.id = i
    BY <2>1 DEF Sched!AlarmIds
  <2>3. i \in stored'[loop.msg]
    <3> DEFINE ids == {r.id : r \in alarms' \ alarms}
    <3>1. stored' = [stored EXCEPT ![loop.msg] = @ \cup ids]
      BY <1>1, Zenon DEF InsertAlarm
    <3>2. i \in ids
      BY <2>2
    <3> HIDE DEF ids
    <3> QED
      BY <1>0, <3>1, <3>2 DEF RowsInv
  <2>4. loop.msg \in AlarmMsgs
    BY <1>1 DEF InsertAlarm, IsIncident
  <2> HIDE DEF row
  <2> QED
    BY <1>0, <2>2, <2>3, <2>4 DEF Rows
<1>2. CASE InsertTicket
  <2>1. PICK i \in Sched!TicketIds :
           /\ \A r \in tickets : r.id < i
           /\ tickets' = tickets \cup {[id |-> i, body |-> loop.msg, decided |-> FALSE]}
    BY <1>2 DEF InsertTicket, Sched!InsertTicket, Sched!IsNextId
  <2> DEFINE row == [id |-> i, body |-> loop.msg, decided |-> FALSE]
  <2>2. row \in tickets' \ tickets /\ row.id = i
    BY <2>1 DEF Sched!TicketIds
  <2>3. i \in stored'[loop.msg]
    <3> DEFINE ids == {t.id : t \in tickets' \ tickets}
    <3>1. stored' = [stored EXCEPT ![loop.msg] = @ \cup ids]
      BY <1>2, Zenon DEF InsertTicket
    <3>2. i \in ids
      BY <2>2
    <3> HIDE DEF ids
    <3> QED
      BY <1>0, <3>1, <3>2 DEF RowsInv
  <2>4. loop.msg \notin AlarmMsgs
    BY <1>2, PipelineAssumption DEF InsertTicket, IsTicket
  <2> HIDE DEF row
  <2> QED
    BY <1>0, <2>2, <2>3, <2>4 DEF Rows
<1> QED
  BY <1>1, <1>2 DEF Insert

(***************************************************************************)
(* A pass decides every stored row of a message.                           *)
(***************************************************************************)
LEMMA PassDecides ==
    ASSUME RowsInv, Schedule, NEW m \in Msgs, Rows(m) # {} PROVE Decided(m)'
<1>1. Sched!RunScheduling /\ UNCHANGED stored
  BY DEF Schedule
<1>2. CASE m \in AlarmMsgs
  BY <1>1, <1>2, PassMarksRows DEF Rows, Decided
<1>3. CASE m \notin AlarmMsgs
  BY <1>1, <1>3, PassMarksRows DEF Rows, Decided
<1> QED
  BY <1>2, <1>3

(***************************************************************************)
(* Every action keeps the type of the loop's state and of the delivery.    *)
(***************************************************************************)
LEMMA LoopTypes ==
    ASSUME RowsInv, LoopInv, [Next]_vars
    PROVE  /\ loop' \in [at : LoopStages, msg : Msgs \cup {None}, fresh : BOOLEAN,
                         todo : SUBSET issued']
           /\ held' \in Delivery
           /\ loop'.at \in {"taken", "insert", "schedule", "delete", "spawn"}
                 => loop'.msg \in Msgs
<1> DEFINE Good == /\ loop' \in [at : LoopStages, msg : Msgs \cup {None},
                                 fresh : BOOLEAN, todo : SUBSET issued']
                   /\ held' \in Delivery
                   /\ loop'.at \in {"taken", "insert", "schedule", "delete", "spawn"}
                         => loop'.msg \in Msgs
<1> SUFFICES Good
  OBVIOUS
<1> USE DEF LoopInv, LoopStages, Delivery, NoDelivery, AtSelect, BackToSelect, Goto
<1>0. ASSUME UNCHANGED <<loop, held, issued>> PROVE Good
  BY <1>0
<1>00. ASSUME loop' = AtSelect, UNCHANGED held \/ held' = NoDelivery PROVE Good
  <2>1. held' \in Delivery
    BY <1>00
  <2>2. {} \in SUBSET issued' /\ "select" \in LoopStages
    OBVIOUS
  <2>3. loop' = [at |-> "select", msg |-> None, fresh |-> FALSE, todo |-> {}]
    BY <1>00
  <2> HIDE DEF LoopStages, Delivery
  <2>4. loop' \in [at : LoopStages, msg : Msgs \cup {None}, fresh : BOOLEAN,
                   todo : SUBSET issued']
    BY <2>2, <2>3
  <2> QED
    BY <2>1, <2>3, <2>4
<1>1. ASSUME NEW m \in Msgs, Send(m) \/ VisibilityExpires(m) PROVE Good
  <2>1. UNCHANGED <<loop, held, issued>>
    BY <1>1 DEF Send, VisibilityExpires, schedVars
  <2> QED
    BY <1>0, <2>1
<1>2. ASSUME NEW m \in Msgs, Receive(m) \/ ReceiveFails(m) PROVE Good
  <2>1. PICK f \in BOOLEAN : loop' = [loop EXCEPT !.fresh = f]
    <3>1. (loop.fresh /\ loop.msg # m) \in BOOLEAN
      OBVIOUS
    <3> QED
      BY <1>2, <3>1 DEF Receive, ReceiveFails, Deliver
  <2>2. UNCHANGED issued /\ (UNCHANGED held \/ held' = [msg |-> m, fresh |-> TRUE])
    BY <1>2 DEF Receive, ReceiveFails, schedVars
  <2>3. held' \in Delivery
    <3>1. [msg |-> m, fresh |-> TRUE] \in Delivery
      BY <1>2
    <3>2. held \in Delivery
      OBVIOUS
    <3> HIDE DEF Delivery, NoDelivery
    <3> QED
      BY <2>2, <3>1, <3>2
  <2> QED
    BY <2>1, <2>2, <2>3
<1>3. ASSUME PollerStops PROVE Good
  BY <1>3 DEF PollerStops, schedVars
<1>4. ASSUME Take PROVE Good
  <2>1. held.msg \in Msgs /\ held.fresh \in BOOLEAN
    BY <1>4 DEF Take
  <2>2. /\ loop' = [at |-> "taken", msg |-> held.msg, fresh |-> held.fresh, todo |-> {}]
        /\ held' = NoDelivery /\ UNCHANGED issued
    BY <1>4 DEF Take, schedVars
  <2> QED
    BY <2>1, <2>2
<1>5. ASSUME Recheck \/ LoopEnds PROVE Good
  BY <1>5 DEF Recheck, LoopEnds, schedVars
<1>6. ASSUME InsertFails \/ ScheduleFails PROVE Good
  <2>1. loop' = AtSelect /\ UNCHANGED <<held, issued>>
    BY <1>6 DEF InsertFails, ScheduleFails, schedVars
  <2> QED
    BY <1>00, <2>1
<1>7. ASSUME Insert PROVE Good
  <2>1. UNCHANGED <<issued, held>>
    BY <1>7 DEF Insert, InsertAlarm, InsertTicket, Sched!InsertAlarm, Sched!InsertTicket
  <2> QED
    BY <1>7, <2>1 DEF Insert
<1>8. ASSUME Schedule PROVE Good
  <2>1. issued \subseteq issued' /\ UNCHANGED held /\ loop.at = "schedule"
        /\ loop' = [loop EXCEPT !.at = "delete", !.todo = issued' \ issued]
    BY <1>8 DEF Schedule, Sched!RunScheduling
  <2> QED
    BY <2>1
<1>9. ASSUME Delete \/ DeleteFails PROVE Good
  BY <1>9 DEF Delete, DeleteFails, schedVars
<1>10. ASSUME NEW d \in loop.todo, Spawn(d) \/ SpawnFails(d) PROVE Good
  BY <1>10 DEF Spawn, SpawnFails, schedVars
<1>11. ASSUME SpawnsDone PROVE Good
  BY <1>11 DEF SpawnsDone, schedVars
<1>12. ASSUME Drain \/ Start PROVE Good
  BY <1>0, <1>12 DEF Drain, Start, schedVars
<1>13. ASSUME Exit \/ Crash PROVE Good
  <2>1. loop' = AtSelect /\ held' = NoDelivery /\ UNCHANGED issued
    BY <1>13 DEF Exit, Crash, Die, schedVars
  <2> QED
    BY <1>00, <2>1
<1>14. ASSUME Tick \/ UNCHANGED vars PROVE Good
  BY <1>0, <1>14 DEF Tick, Sched!Tick, vars, schedVars
<1> QED
  BY <1>1, <1>2, <1>3, <1>4, <1>5, <1>6, <1>7, <1>8, <1>9, <1>10, <1>11, <1>12,
     <1>13, <1>14 DEF Next

(***************************************************************************)
(* The loop comes to a pass only from an insert, and to a delete only from *)
(* a pass, with the same message in its hands.                             *)
(***************************************************************************)
LEMMA LoopStages_InOrder ==
    ASSUME LoopInv, [Next]_vars
    PROVE  /\ loop'.at = "schedule" =>
                 loop'.msg = loop.msg /\ (Insert \/ loop.at = "schedule")
           /\ loop'.at \in {"delete", "spawn"} =>
                 loop'.msg = loop.msg /\ (Schedule \/ loop.at \in {"delete", "spawn"})
<1> USE DEF LoopInv, AtSelect, BackToSelect, Goto
<1>1. ASSUME NEW m \in Msgs, Send(m) \/ VisibilityExpires(m) \/ Receive(m) \/ ReceiveFails(m)
      PROVE  UNCHANGED <<loop.at, loop.msg>>
  <2>1. UNCHANGED loop \/ \E f : loop' = [loop EXCEPT !.fresh = f]
    BY <1>1 DEF Send, VisibilityExpires, Receive, ReceiveFails, Deliver
  <2> QED
    BY <2>1
<1>2. ASSUME PollerStops \/ Drain \/ Start \/ Tick \/ UNCHANGED vars
      PROVE  UNCHANGED <<loop.at, loop.msg>>
  BY <1>2 DEF PollerStops, Drain, Start, Tick, vars
<1>3. ASSUME Take \/ Recheck \/ LoopEnds \/ InsertFails \/ ScheduleFails \/ SpawnsDone
             \/ Exit \/ Crash
      PROVE  loop'.at \in {"select", "taken", "insert", "ended"}
  <2>1. ASSUME Take PROVE loop'.at = "taken"
    BY <2>1 DEF Take
  <2>2. ASSUME Recheck \/ LoopEnds PROVE loop'.at \in {"insert", "ended"}
    BY <2>2 DEF Recheck, LoopEnds
  <2>3. ASSUME InsertFails \/ ScheduleFails \/ SpawnsDone \/ Exit \/ Crash
        PROVE  loop'.at = "select"
    BY <2>3 DEF InsertFails, ScheduleFails, SpawnsDone, Exit, Crash, Die
  <2> QED
    BY <1>3, <2>1, <2>2, <2>3
<1>4. ASSUME Insert PROVE loop'.at = "schedule" /\ loop'.msg = loop.msg
  BY <1>4 DEF Insert
<1>5. ASSUME Schedule PROVE loop'.at = "delete" /\ loop'.msg = loop.msg
  BY <1>5 DEF Schedule
<1>6. ASSUME Delete \/ DeleteFails
      PROVE  loop.at = "delete" /\ loop'.at = "spawn" /\ loop'.msg = loop.msg
  BY <1>6 DEF Delete, DeleteFails
<1>7. ASSUME NEW d \in loop.todo, Spawn(d) \/ SpawnFails(d)
      PROVE  UNCHANGED <<loop.at, loop.msg>>
  BY <1>7 DEF Spawn, SpawnFails
<1> QED
  BY <1>1, <1>2, <1>3, <1>4, <1>5, <1>6, <1>7 DEF Next

(***************************************************************************)
(* What the loop has done to the message in its hands stays done.          *)
(***************************************************************************)
LEMMA LoopInvStep ==
    ASSUME RowsInv, LoopInv, [Next]_vars PROVE LoopInv'
<1>1. ASSUME loop'.at = "schedule" PROVE Rows(loop.msg)' # {}
  <2>1. loop'.msg = loop.msg /\ loop.msg \in Msgs
    BY <1>1, LoopStages_InOrder, LoopTypes
  <2>2. CASE Insert
    BY <2>2, InsertLeavesRow
  <2>3. CASE loop.at = "schedule"
    <3>1. PICK m \in Msgs : m = loop.msg /\ m = loop'.msg
      BY <2>1
    <3>2. Rows(m) # {}
      BY <2>3, <3>1 DEF LoopInv
    <3>3. Rows(m)' # {}
      BY <3>2, DecidedStays
    <3> QED
      BY <3>1, <3>3 DEF Rows
  <2> QED
    BY <1>1, <2>2, <2>3, LoopStages_InOrder
<1>2. ASSUME loop'.at \in {"delete", "spawn"} PROVE Decided(loop.msg)'
  <2>1. PICK m \in Msgs : m = loop.msg /\ m = loop'.msg
    BY <1>2, LoopStages_InOrder, LoopTypes
  <2>2. CASE Schedule
    <3>1. Rows(m) # {}
      BY <2>1, <2>2 DEF Schedule, LoopInv
    <3>2. Decided(m)'
      BY <2>2, <3>1, PassDecides
    <3> QED
      BY <2>1, <3>2 DEF Decided, Rows
  <2>3. CASE loop.at \in {"delete", "spawn"}
    <3>1. Decided(m)
      BY <2>1, <2>3 DEF LoopInv
    <3>2. Decided(m)'
      BY <3>1, DecidedStays
    <3> QED
      BY <2>1, <3>2 DEF Decided, Rows
  <2> QED
    BY <1>2, <2>2, <2>3, LoopStages_InOrder
<1> QED
  BY <1>1, <1>2, LoopTypes DEF LoopInv

(***************************************************************************)
(* Only the delete, and only of a decided message, empties the queue.      *)
(***************************************************************************)
LEMMA NoMessageLostStep ==
    ASSUME IInv, [Next]_vars PROVE NoMessageLost'
<1> SUFFICES ASSUME NEW m \in Msgs, queue'[m] = "gone" PROVE Decided(m)'
  BY DEF NoMessageLost
<1>0. RowsInv /\ LoopInv /\ NoMessageLost
  BY DEF IInv
<1>1. CASE queue[m] = "gone"
  BY <1>0, <1>1, DecidedStays DEF NoMessageLost
<1>2. CASE queue[m] # "gone"
  <2>1. Delete /\ loop.msg = m
    BY <1>0, <1>2 DEF RowsInv, Next, vars, Send, VisibilityExpires, Receive, ReceiveFails,
       Deliver, PollerStops, Take, Recheck, LoopEnds, Insert, InsertFails, Schedule,
       ScheduleFails, Delete, DeleteFails, Spawn, SpawnFails, SpawnsDone, Drain, Exit,
       Crash, Start, Die, Tick
  <2>2. Decided(m)
    BY <1>0, <2>1 DEF Delete, LoopInv
  <2> QED
    BY <1>0, <2>2, DecidedStays
<1> QED
  BY <1>1, <1>2

(***************************************************************************)
(* The inductive invariant holds throughout.                               *)
(***************************************************************************)
THEOREM Invariance == Spec => []IInv
<1>1. Init => IInv
  <2> SUFFICES ASSUME Init PROVE IInv
    OBVIOUS
  <2>1. RowsInv
    BY PipelineAssumption DEF Init, Sched!Init, RowsInv
  <2>2. LoopInv
    <3>1. loop = [at |-> "select", msg |-> None, fresh |-> FALSE, todo |-> {}]
          /\ held \in Delivery
      BY DEF Init, AtSelect, Delivery
    <3> QED
      BY <3>1 DEF LoopInv, LoopStages
  <2>3. NoMessageLost
    BY DEF Init, NoMessageLost
  <2> QED
    BY <2>1, <2>2, <2>3 DEF IInv
<1>2. IInv /\ [Next]_vars => IInv'
  BY RowsStep, LoopInvStep, NoMessageLostStep DEF IInv
<1> QED
  BY <1>1, <1>2, PTL DEF Spec

(***************************************************************************)
(* runConductor deletes a message only after its row is stored and a pass  *)
(* has committed: for any queues, any number of disturbances and any       *)
(* interleaving of poller, loop, drain, crash and restart.                 *)
(***************************************************************************)
THEOREM NothingLost == Spec => []NoMessageLost
<1>1. IInv => NoMessageLost
  BY DEF IInv
<1> QED
  BY <1>1, Invariance, PTL

(***************************************************************************)
(* A message that comes back costs a disturbance: no step makes more       *)
(* stores of a message possible than it adds disturbances, and an insert   *)
(* uses one of the possible stores up.                                     *)
(***************************************************************************)
LEMMA StoresArePaid ==
    ASSUME RowsInv, LoopInv, HandsFree, faults \in Nat, [Next]_vars, NEW m \in Msgs
    PROVE  /\ faults' \in Nat
           /\ StoresAhead(m)' - faults' <= StoresAhead(m) - faults
           /\ Insert /\ loop.msg = m => StoresAhead(m)' = StoresAhead(m) - 1
           /\ Insert => UNCHANGED faults
<1> DEFINE Paid == /\ faults' \in Nat
                   /\ StoresAhead(m)' - faults' <= StoresAhead(m) - faults
<1>0. /\ loop \in [at : LoopStages, msg : Msgs \cup {None}, fresh : BOOLEAN,
                    todo : SUBSET issued]
      /\ held \in [msg : Msgs, fresh : BOOLEAN] \cup {[msg |-> None, fresh |-> FALSE]}
      /\ DOMAIN queue = Msgs
      /\ None \notin Msgs /\ m # None
  BY PipelineAssumption DEF LoopInv, RowsInv, Delivery, NoDelivery
<1> USE DEF StoresAhead, One, Returns, Leased, Fault, Goto, BackToSelect, AtSelect
<1>1. ASSUME NEW n \in Msgs, Send(n) PROVE Paid
  BY <1>0, <1>1 DEF Send
<1>2. ASSUME NEW n \in Msgs, VisibilityExpires(n) PROVE Paid
  <2>1. CASE InProcess(n)
    BY <1>0, <1>2, <2>1 DEF VisibilityExpires
  <2>2. CASE ~ InProcess(n)
    BY <1>0, <1>2, <2>2 DEF VisibilityExpires, InProcess
  <2> QED
    BY <2>1, <2>2
<1>3. ASSUME NEW n \in Msgs, Receive(n) PROVE Paid
  BY <1>0, <1>3 DEF Receive, Deliver, NoDelivery
<1>4. ASSUME NEW n \in Msgs, ReceiveFails(n) PROVE Paid
  BY <1>0, <1>4 DEF ReceiveFails, Deliver, NoDelivery
<1>5. ASSUME PollerStops PROVE Paid
  BY <1>0, <1>5 DEF PollerStops, NoDelivery
<1>6. ASSUME Take PROVE Paid
  BY <1>0, <1>6 DEF Take, NoDelivery, HandsFree
<1>7. ASSUME Recheck \/ LoopEnds PROVE Paid
  BY <1>0, <1>7 DEF Recheck, LoopEnds, HandsFree
<1>8. ASSUME InsertFails PROVE Paid
  BY <1>0, <1>8 DEF InsertFails, CallFails
<1>9. ASSUME ScheduleFails \/ DeleteFails PROVE Paid
  BY <1>0, <1>9 DEF ScheduleFails, DeleteFails, CallFails
<1>10. ASSUME Schedule PROVE Paid
  BY <1>0, <1>10 DEF Schedule, CallSucceeds
<1>11. ASSUME Delete PROVE Paid
  BY <1>0, <1>11 DEF Delete, CallSucceeds
<1>12. ASSUME NEW d \in loop.todo, Spawn(d) \/ SpawnFails(d) PROVE Paid
  BY <1>0, <1>12 DEF Spawn, SpawnFails, PrepareFails, CallFails
<1>13. ASSUME SpawnsDone PROVE Paid
  BY <1>0, <1>13 DEF SpawnsDone
<1>14. ASSUME Drain \/ Start PROVE Paid
  BY <1>0, <1>14 DEF Drain, Start
<1>15. ASSUME Exit \/ Crash PROVE Paid
  BY <1>0, <1>15 DEF Exit, Crash, Die, NoDelivery
<1>16. ASSUME Tick \/ UNCHANGED vars PROVE Paid
  BY <1>0, <1>16 DEF Tick, vars
<1>17. ASSUME Insert
       PROVE  /\ Paid /\ UNCHANGED faults
              /\ loop.msg = m => StoresAhead(m)' = StoresAhead(m) - 1
  BY <1>0, <1>17 DEF Insert, CallSucceeds
<1> QED
  BY <1>1, <1>2, <1>3, <1>4, <1>5, <1>6, <1>7, <1>8, <1>9, <1>10, <1>11, <1>12, <1>13,
     <1>14, <1>15, <1>16, <1>17 DEF Next

(***************************************************************************)
(* An insert adds one row to those of its message; no other step adds any. *)
(***************************************************************************)
LEMMA OneRowPerInsert ==
    ASSUME RowsInv, [Next]_vars, NEW m \in Msgs
    PROVE  \/ stored'[m] = stored[m]
           \/ Insert /\ loop.msg = m /\ \E i : stored'[m] = stored[m] \cup {i}
<1>1. CASE Insert /\ InsertAlarm
  <2>1. PICK i \in Sched!AlarmIds :
           alarms' = alarms \cup {[id |-> i, acct |-> Account[loop.msg], at |-> now,
                                   chained |-> FALSE, decided |-> FALSE]}
           /\ \A r \in alarms : r.id < i
    BY <1>1 DEF InsertAlarm, Sched!InsertAlarm, Sched!IsNextId
  <2> DEFINE row == [id |-> i, acct |-> Account[loop.msg], at |-> now,
                     chained |-> FALSE, decided |-> FALSE]
             ids == {r.id : r \in alarms' \ alarms}
  <2>2. row \notin alarms /\ row.id = i
    BY <2>1 DEF Sched!AlarmIds
  <2>3. alarms' \ alarms = {row}
    <3> HIDE DEF row
    <3> QED
      BY <2>1, <2>2 DEF row
  <2>4. ids = {i}
    BY <2>2, <2>3
  <2>5. stored' = [stored EXCEPT ![loop.msg] = @ \cup ids]
    BY <1>1, Zenon DEF InsertAlarm
  <2> HIDE DEF ids
  <2> QED
    BY <1>1, <2>4, <2>5 DEF RowsInv
<1>2. CASE Insert /\ InsertTicket
  <2>1. PICK i \in Sched!TicketIds :
           tickets' = tickets \cup {[id |-> i, body |-> loop.msg, decided |-> FALSE]}
           /\ \A t \in tickets : t.id < i
    BY <1>2 DEF InsertTicket, Sched!InsertTicket, Sched!IsNextId
  <2> DEFINE row == [id |-> i, body |-> loop.msg, decided |-> FALSE]
             ids == {t.id : t \in tickets' \ tickets}
  <2>2. row \notin tickets /\ row.id = i
    BY <2>1 DEF Sched!TicketIds
  <2>3. tickets' \ tickets = {row}
    <3> HIDE DEF row
    <3> QED
      BY <2>1, <2>2 DEF row
  <2>4. ids = {i}
    BY <2>2, <2>3
  <2>5. stored' = [stored EXCEPT ![loop.msg] = @ \cup ids]
    BY <1>2, Zenon DEF InsertTicket
  <2> HIDE DEF ids
  <2> QED
    BY <1>2, <2>4, <2>5 DEF RowsInv
<1>3. CASE ~ Insert
  BY <1>3, TablesChangeBy DEF Schedule, Tick
<1> QED
  BY <1>1, <1>2, <1>3 DEF Insert

LEMMA StoreInvStep ==
    ASSUME IInv, StoreInv, [Next]_vars PROVE StoreInv'
<1>0. RowsInv /\ LoopInv /\ HandsFree /\ StoresNeedFaults /\ faults \in Nat
  BY DEF IInv, StoreInv
<1>1. HandsFree'
  <2> USE DEF HandsFree, LoopInv, AtSelect, BackToSelect, Goto
  <2>1. ASSUME NEW m \in Msgs, Receive(m) \/ ReceiveFails(m) PROVE HandsFree'
    BY <1>0, <2>1 DEF Receive, ReceiveFails, Deliver
  <2>2. ASSUME NEW m \in Msgs, Send(m) \/ VisibilityExpires(m) PROVE HandsFree'
    BY <1>0, <2>2 DEF Send, VisibilityExpires
  <2>3. ASSUME PollerStops \/ Drain \/ Start \/ Tick \/ UNCHANGED vars PROVE HandsFree'
    BY <1>0, <2>3 DEF PollerStops, Drain, Start, Tick, vars
  <2>4. ASSUME Recheck \/ LoopEnds \/ InsertFails \/ ScheduleFails \/ SpawnsDone
               \/ Exit \/ Crash
        PROVE  HandsFree'
    BY <1>0, <2>4 DEF Recheck, LoopEnds, InsertFails, ScheduleFails, SpawnsDone, Exit,
       Crash, Die
  <2>5. ASSUME Take \/ Insert \/ Schedule \/ Delete \/ DeleteFails PROVE HandsFree'
    BY <1>0, <2>5 DEF Take, Insert, Schedule, Delete, DeleteFails
  <2>6. ASSUME NEW d \in loop.todo, Spawn(d) \/ SpawnFails(d) PROVE HandsFree'
    BY <1>0, <2>6 DEF Spawn, SpawnFails
  <2> QED
    BY <2>1, <2>2, <2>3, <2>4, <2>5, <2>6 DEF Next
<1>2. ASSUME NEW m \in Msgs
      PROVE  /\ IsFiniteSet(stored'[m])
             /\ Cardinality(stored'[m]) + StoresAhead(m)' <= 1 + faults'
  <2> DEFINE rows == stored[m]
             n == Cardinality(rows)
             ahead == StoresAhead(m)
  <2>1. IsFiniteSet(rows) /\ n \in Nat /\ n + ahead <= 1 + faults
    BY <1>0, FS_CardinalityType DEF StoresNeedFaults
  <2>2. ahead \in Int /\ ahead' \in Int
    BY DEF StoresAhead, One
  <2>3. /\ faults' \in Nat
        /\ ahead' - faults' <= ahead - faults
        /\ Insert /\ loop.msg = m => ahead' = ahead - 1
        /\ Insert => faults' = faults
    BY <1>0, StoresArePaid
  <2> HIDE DEF ahead
  <2>4. CASE stored'[m] = rows
    BY <1>0, <2>1, <2>2, <2>3, <2>4 DEF ahead
  <2>5. ASSUME NEW i, Insert, loop.msg = m, stored'[m] = rows \cup {i}
        PROVE  /\ IsFiniteSet(stored'[m])
               /\ Cardinality(stored'[m]) + ahead' <= 1 + faults'
    <3>1. IsFiniteSet(rows \cup {i}) /\ Cardinality(rows \cup {i}) \in {n, n + 1}
      BY <2>1, FS_AddElement
    <3> QED
      BY <1>0, <2>1, <2>2, <2>3, <2>5, <3>1
  <2> QED
    BY <1>0, <2>4, <2>5, OneRowPerInsert DEF ahead
<1>3. faults' \in Nat
  <2>1. UNCHANGED faults \/ Fault
    BY DEF Next, vars, Send, VisibilityExpires, Receive, ReceiveFails, PollerStops, Take,
       Recheck, LoopEnds, Insert, InsertFails, Schedule, ScheduleFails, Delete,
       DeleteFails, Spawn, SpawnFails, SpawnsDone, Drain, Exit, Crash, Start, Tick,
       CallSucceeds, CallFails, PrepareFails
  <2> QED
    BY <1>0, <2>1 DEF Fault
<1> QED
  BY <1>1, <1>2, <1>3 DEF StoreInv, StoresNeedFaults

(***************************************************************************)
(* A message is stored once, and once more for each disturbance at most:   *)
(* a second row of one alarm or ticket takes a crash, a drain, a failed    *)
(* call or a visibility timeout that came too early.                       *)
(***************************************************************************)
THEOREM StoresAreBounded == Spec => []StoreInv
<1>1. Init => StoreInv
  <2> SUFFICES ASSUME Init PROVE StoreInv
    OBVIOUS
  <2>1. faults \in Nat /\ HandsFree
    BY DEF Init, HandsFree, AtSelect
  <2>2. ASSUME NEW m \in Msgs
        PROVE  /\ IsFiniteSet(stored[m])
               /\ Cardinality(stored[m]) + StoresAhead(m) <= 1 + faults
    <3>1. IsFiniteSet({}) /\ Cardinality({}) = 0
      BY FS_EmptySet
    <3> QED
      BY <3>1, PipelineAssumption DEF Init, StoresAhead, One, Returns, AtSelect, NoDelivery
  <2> QED
    BY <2>1, <2>2 DEF StoreInv, StoresNeedFaults
<1> QED
  BY <1>1, StoreInvStep, Invariance, PTL DEF Spec

(***************************************************************************)
(* A decision is new, in hand, launched or lost; only a drain, a crash or  *)
(* a launch that fails puts decisions at risk, and all that a step puts at *)
(* risk comes from the pass the loop is busy with.                         *)
(***************************************************************************)
LEMMA RiskIsPaid ==
    ASSUME LoopInv, LossInv, [Next]_vars
    PROVE  \/ /\ PassesOf(AtRisk)' \subseteq PassesOf(AtRisk)
              /\ faults' \in {faults, faults + 1}
           \/ /\ \E n : PassesOf(AtRisk)' \subseteq PassesOf(AtRisk) \cup {n}
              /\ faults' = faults + 1
<1> DEFINE Free == /\ PassesOf(AtRisk)' \subseteq PassesOf(AtRisk)
                   /\ faults' \in {faults, faults + 1}
           Paid == /\ \E n : PassesOf(AtRisk)' \subseteq PassesOf(AtRisk) \cup {n}
                   /\ faults' = faults + 1
<1> SUFFICES Free \/ Paid
  OBVIOUS
<1>0. /\ DOMAIN loop = {"at", "msg", "fresh", "todo"}
      /\ loop.todo \subseteq issued
      /\ loop.at \notin {"delete", "spawn"} => loop.todo = {}
      /\ faults \in Nat
  BY DEF LoopInv, LossInv
<1>1. PICK n : \A d \in loop.todo : d.pass = n
  BY DEF LossInv
<1> USE DEF Fault, Goto, BackToSelect, AtSelect
<1>2. ASSUME UNCHANGED <<issued, spawned, phase>>, loop'.todo = loop.todo,
             faults' \in {faults, faults + 1}
      PROVE  Free
  BY <1>2 DEF PassesOf, AtRisk, Lost
<1>3. ASSUME NEW m \in Msgs, Send(m) \/ VisibilityExpires(m) \/ Receive(m) \/ ReceiveFails(m)
      PROVE  Free
  BY <1>0, <1>2, <1>3 DEF Send, VisibilityExpires, Receive, ReceiveFails, Deliver, schedVars
<1>4. ASSUME PollerStops \/ Take \/ Recheck \/ LoopEnds \/ SpawnsDone PROVE Free
  <2>1. CASE Take \/ Recheck
    BY <1>0, <1>2, <2>1 DEF Take, Recheck, schedVars
  <2>2. CASE PollerStops \/ LoopEnds
    BY <1>0, <1>2, <2>2 DEF PollerStops, LoopEnds, schedVars
  <2>3. CASE SpawnsDone
    BY <1>0, <1>2, <2>3 DEF SpawnsDone, schedVars
  <2> QED
    BY <1>4, <2>1, <2>2, <2>3
<1>5. ASSUME InsertFails \/ ScheduleFails \/ Delete \/ DeleteFails PROVE Free
  BY <1>0, <1>2, <1>5 DEF InsertFails, ScheduleFails, Delete, DeleteFails, CallFails,
     CallSucceeds, schedVars
<1>6. ASSUME Insert PROVE Free
  BY <1>0, <1>2, <1>6 DEF Insert, InsertAlarm, InsertTicket, Sched!InsertAlarm,
     Sched!InsertTicket, CallSucceeds
<1>7. ASSUME Tick \/ UNCHANGED vars PROVE Free
  BY <1>0, <1>2, <1>7 DEF Tick, Sched!Tick, vars, schedVars
<1>8. ASSUME Schedule PROVE Free
  <2>1. /\ phase = "up" /\ UNCHANGED <<phase, spawned, faults>>
        /\ loop.todo = {} /\ loop'.todo = issued' \ issued
    BY <1>0, <1>8 DEF Schedule, CallSucceeds
  <2>2. Lost' \subseteq Lost
    BY <2>1 DEF Lost
  <2> QED
    BY <2>1, <2>2 DEF PassesOf, AtRisk
<1>9. ASSUME NEW d \in loop.todo, Spawn(d) PROVE Free
  <2>1. /\ UNCHANGED <<issued, phase, faults>> /\ spawned' = spawned \cup {d}
        /\ loop'.todo = loop.todo \ {d}
    BY <1>0, <1>9 DEF Spawn, schedVars
  <2>2. Lost' = Lost /\ loop'.todo \subseteq loop.todo
    BY <2>1 DEF Lost
  <2> QED
    BY <2>1, <2>2 DEF PassesOf, AtRisk
<1>10. ASSUME NEW d \in loop.todo, SpawnFails(d) PROVE Free \/ Paid
  <2>1. /\ UNCHANGED <<issued, phase, spawned>> /\ loop'.todo = loop.todo \ {d}
        /\ faults' = faults + 1 \/ (phase = "draining" /\ faults' = faults)
    BY <1>0, <1>10 DEF SpawnFails, PrepareFails, CallFails, schedVars
  <2>2. Lost' \subseteq Lost \cup {d} /\ d.pass = n
    BY <1>1, <2>1 DEF Lost
  <2>3. CASE phase = "draining"
    <3>1. AtRisk' \subseteq AtRisk
      BY <2>1, <2>2, <2>3 DEF AtRisk
    <3> QED
      BY <2>1, <3>1 DEF PassesOf
  <2>4. CASE phase # "draining"
    <3>1. AtRisk' \subseteq AtRisk \cup {d}
      BY <2>1, <2>2, <2>4 DEF AtRisk
    <3>2. PassesOf(AtRisk)' \subseteq PassesOf(AtRisk) \cup {n}
      BY <2>2, <3>1 DEF PassesOf
    <3> QED
      BY <2>1, <2>4, <3>2
  <2> QED
    BY <2>3, <2>4
<1>11. ASSUME Drain PROVE Paid
  <2>1. AtRisk' \subseteq AtRisk \cup loop.todo
    BY <1>11 DEF Drain, AtRisk, Lost, schedVars
  <2>2. PassesOf(AtRisk)' \subseteq PassesOf(AtRisk) \cup {n}
    BY <1>1, <2>1 DEF PassesOf
  <2> QED
    BY <1>11, <2>2 DEF Drain
<1>12. ASSUME Exit \/ Crash PROVE Free \/ Paid
  <2>1. /\ AtRisk' \subseteq Lost \cup loop.todo
        /\ faults' = faults + 1 \/ (phase = "draining" /\ faults' = faults)
    BY <1>12 DEF Exit, Crash, Die, AtRisk, Lost, schedVars
  <2>2. CASE phase = "draining"
    <3>1. AtRisk' \subseteq AtRisk
      BY <2>1, <2>2 DEF AtRisk
    <3> QED
      BY <2>1, <3>1 DEF PassesOf
  <2>3. CASE phase # "draining"
    <3>1. AtRisk' \subseteq AtRisk \cup loop.todo
      BY <2>1, <2>3 DEF AtRisk
    <3>2. PassesOf(AtRisk)' \subseteq PassesOf(AtRisk) \cup {n}
      BY <1>1, <3>1 DEF PassesOf
    <3> QED
      BY <2>1, <2>3, <3>2
  <2> QED
    BY <2>2, <2>3
<1>13. ASSUME Start PROVE Free
  <2>1. AtRisk' = AtRisk /\ faults' = faults
    BY <1>13 DEF Start, AtRisk, Lost, schedVars
  <2> QED
    BY <2>1 DEF PassesOf
<1> QED
  BY <1>3, <1>4, <1>5, <1>6, <1>7, <1>8, <1>9, <1>10, <1>11, <1>12, <1>13 DEF Next

(***************************************************************************)
(* The decisions of a pass carry its number, and the loop has those of one *)
(* pass at a time.                                                         *)
(***************************************************************************)
LEMMA OnePassInHand ==
    ASSUME LoopInv, LossInv, [Next]_vars
    PROVE  /\ pass' \in Nat
           /\ \A d \in issued' : d.pass \in 1 .. pass'
           /\ \A d, e \in loop'.todo : d.pass = e.pass
           /\ loop'.at \notin {"delete", "spawn"} => loop'.todo = {}
<1>0. /\ DOMAIN loop = {"at", "msg", "fresh", "todo"}
      /\ pass \in Nat /\ \A d \in issued : d.pass \in 1 .. pass
  BY DEF LoopInv, LossInv
<1> USE DEF Goto, BackToSelect, AtSelect
<1>1. CASE Schedule
  <2>1. /\ pass' = pass + 1 /\ loop'.todo = issued' \ issued /\ loop'.at = "delete"
        /\ issued' = issued \cup Sched!AlarmDecisions(alarms, pass')
                            \cup Sched!TicketDecisions(tickets, pass')
    BY <1>0, <1>1 DEF Schedule, Sched!RunScheduling
  <2>2. \A d \in issued' : d \in issued \/ d.pass = pass'
    BY <2>1 DEF Sched!AlarmDecisions, Sched!TicketDecisions
  <2> QED
    BY <1>0, <2>1, <2>2
<1>2. CASE ~ Schedule
  <2>1. UNCHANGED <<pass, issued>>
    BY <1>2, TablesChangeBy DEF Insert, InsertAlarm, InsertTicket, Sched!InsertAlarm,
       Sched!InsertTicket, Tick, Sched!Tick, schedVars
  <2>2. /\ loop'.todo \subseteq loop.todo
        /\ loop'.at \notin {"delete", "spawn"} => loop'.todo = {}
    <3>1. ASSUME NEW m \in Msgs,
                 Send(m) \/ VisibilityExpires(m) \/ Receive(m) \/ ReceiveFails(m)
          PROVE  loop'.todo = loop.todo /\ loop'.at = loop.at
      BY <1>0, <3>1 DEF Send, VisibilityExpires, Receive, ReceiveFails, Deliver
    <3>2. ASSUME PollerStops \/ Drain \/ Start \/ Tick \/ UNCHANGED vars
          PROVE  UNCHANGED loop
      BY <3>2 DEF PollerStops, Drain, Start, Tick, vars
    <3>3. ASSUME InsertFails \/ ScheduleFails \/ SpawnsDone \/ Exit \/ Crash
          PROVE  loop'.todo = {}
      BY <3>3 DEF InsertFails, ScheduleFails, SpawnsDone, Exit, Crash, Die
    <3>4. ASSUME Take \/ Recheck \/ LoopEnds PROVE loop'.todo = {}
      <4>1. loop.todo = {}
        BY <1>0, <3>4 DEF Take, Recheck, LoopEnds, LossInv
      <4>2. CASE Take
        BY <4>2 DEF Take
      <4>3. CASE Recheck \/ LoopEnds
        BY <1>0, <4>1, <4>3 DEF Recheck, LoopEnds
      <4> QED
        BY <3>4, <4>2, <4>3
    <3>5. ASSUME Insert \/ Delete \/ DeleteFails
          PROVE  /\ loop'.todo = loop.todo
                 /\ loop.at = "insert" \/ loop'.at = "spawn"
      BY <1>0, <3>5 DEF Insert, Delete, DeleteFails
    <3>6. ASSUME NEW d \in loop.todo, Spawn(d) \/ SpawnFails(d)
          PROVE  loop'.todo \subseteq loop.todo /\ loop'.at = "spawn"
      BY <1>0, <3>6 DEF Spawn, SpawnFails
    <3> QED
      BY <1>2, <3>1, <3>2, <3>3, <3>4, <3>5, <3>6 DEF Next, LossInv
  <2> QED
    BY <1>0, <2>1, <2>2 DEF LossInv
<1> QED
  BY <1>1, <1>2

LEMMA LossInvStep ==
    ASSUME LoopInv, LossInv, [Next]_vars PROVE LossInv'
<1> DEFINE S == PassesOf(AtRisk)
           T == PassesOf(AtRisk)'
<1>1. IsFiniteSet(S) /\ Cardinality(S) \in Nat /\ Cardinality(S) <= faults /\ faults \in Nat
  <2>1. S \subseteq 1 .. pass
    BY DEF LossInv, LoopInv, PassesOf, AtRisk, Lost
  <2>2. IsFiniteSet(1 .. pass)
    BY FS_Interval DEF LossInv
  <2>3. IsFiniteSet(S)
    BY <2>1, <2>2, FS_Subset
  <2> QED
    BY <2>3, FS_CardinalityType DEF LossInv
<1>2. CASE T \subseteq S /\ faults' \in {faults, faults + 1}
  <2>1. Cardinality(T) \in Nat /\ Cardinality(T) <= Cardinality(S)
    BY <1>1, <1>2, FS_Subset, FS_CardinalityType
  <2> HIDE DEF S, T
  <2>2. faults' \in Nat /\ Cardinality(T) <= faults'
    BY <1>1, <1>2, <2>1
  <2> QED
    BY <2>2, OnePassInHand DEF LossInv, T
<1>3. ASSUME NEW n, T \subseteq S \cup {n}, faults' = faults + 1 PROVE LossInv'
  <2>1. /\ IsFiniteSet(S \cup {n}) /\ Cardinality(S \cup {n}) \in Nat
        /\ Cardinality(S \cup {n}) <= Cardinality(S) + 1
    BY <1>1, FS_AddElement
  <2>2. Cardinality(T) \in Nat /\ Cardinality(T) <= Cardinality(S \cup {n})
    BY <1>3, <2>1, FS_Subset, FS_CardinalityType
  <2> HIDE DEF S, T
  <2>3. faults' \in Nat /\ Cardinality(T) <= faults'
    BY <1>1, <1>3, <2>1, <2>2
  <2> QED
    BY <2>3, OnePassInHand DEF LossInv, T
<1> QED
  BY <1>2, <1>3, RiskIsPaid

(***************************************************************************)
(* Between the commit of a pass and the launch of its workers nothing is   *)
(* dropped but by a disturbance, and each drops the decisions of one pass  *)
(* at most.                                                                *)
(***************************************************************************)
THEOREM LossesAreBounded == Spec => [](LossInv /\ LossesNeedDisturbances)
<1>1. Init => LossInv
  <2> SUFFICES ASSUME Init PROVE LossInv
    OBVIOUS
  <2>1. PassesOf(AtRisk) = {}
    BY DEF Init, Sched!Init, PassesOf, AtRisk, Lost, AtSelect
  <2>2. Cardinality({}) = 0
    BY FS_EmptySet
  <2> QED
    BY <2>1, <2>2 DEF Init, Sched!Init, LossInv, AtSelect
<1>2. IInv /\ LossInv /\ [Next]_vars => LossInv'
  BY LossInvStep DEF IInv
<1>3. LoopInv /\ LossInv => LossesNeedDisturbances
  <2> SUFFICES ASSUME LoopInv, LossInv PROVE LossesNeedDisturbances
    OBVIOUS
  <2>1. PassesOf(Lost) \subseteq PassesOf(AtRisk) /\ PassesOf(AtRisk) \subseteq 1 .. pass
    BY DEF PassesOf, AtRisk, Lost, LoopInv, LossInv
  <2>2. IsFiniteSet(1 .. pass)
    BY FS_Interval DEF LossInv
  <2>3. IsFiniteSet(PassesOf(AtRisk))
    BY <2>1, <2>2, FS_Subset
  <2>4. /\ Cardinality(PassesOf(Lost)) \in Nat /\ Cardinality(PassesOf(AtRisk)) \in Nat
        /\ Cardinality(PassesOf(Lost)) <= Cardinality(PassesOf(AtRisk))
    BY <2>1, <2>3, FS_Subset, FS_CardinalityType
  <2> QED
    BY <2>4 DEF LossInv, LossesNeedDisturbances
<1>4. IInv => LoopInv
  BY DEF IInv
<1> QED
  BY <1>1, <1>2, <1>3, <1>4, Invariance, PTL DEF Spec

(***************************************************************************)
(* The tables keep what a scheduler alone keeps in them.                   *)
(***************************************************************************)
LEMMA SchedulerAssumed == Sched!SchedulerAssumption /\ Sched!WindowAssumption
BY PipelineAssumption DEF Sched!SchedulerAssumption, Sched!WindowAssumption

THEOREM SchedulerHolds ==
    Spec => []( /\ Sched!TypeOK
                /\ Sched!OneDecisionPerRow
                /\ Sched!OneDecisionPerChain
                /\ Sched!DecidedChainHasDecision
                /\ Sched!DecisionsAreApart )
<1>1. Sched!Spec => []Sched!TypeOK
  BY Sched!TypeCorrect, SchedulerAssumed
<1>2. Sched!Spec => []Sched!OneDecisionPerRow
  BY Sched!RowsAreDecidedOnce, SchedulerAssumed
<1>3. Sched!Spec => []Sched!OneDecisionPerChain
  BY Sched!AtMostOnce, SchedulerAssumed
<1>4. Sched!Spec => []Sched!DecidedChainHasDecision
  BY Sched!AtLeastOnce, SchedulerAssumed
<1>5. Sched!Spec => []Sched!DecisionsAreApart
  BY Sched!Apart, SchedulerAssumed
<1> QED
  BY <1>1, <1>2, <1>3, <1>4, <1>5, TablesAreSchedulers, PTL

===============================================================================
