--------------------------- MODULE SchedulingPass ---------------------------
(***************************************************************************)
(* RunScheduling, scheduleAlarms, processAlarmChain and scheduleTickets    *)
(* step by step: the transaction reads the alarm rows, sorts them, walks   *)
(* them building the current chain, flushes a chain where the walk breaks  *)
(* it, then handles the tickets one by one and commits.  Any statement may *)
(* fail, or the process may die: the transaction is rolled back.           *)
(*                                                                         *)
(* The walk is shown to implement Scheduler, in which a pass is one step   *)
(* over declaratively defined chains.                                      *)
(***************************************************************************)
EXTENDS Scheduler, Sequences, Functions

CONSTANT SortKey        \* position of an account in the order of the numbers

(* Account numbers are strings, which < orders totally.                    *)
ASSUME SortKeyAssumption ==
    /\ \A a \in Accounts : SortKey[a] \in Nat
    /\ \A a, b \in Accounts : SortKey[a] = SortKey[b] => a = b

VARIABLES
    pc,                 \* "idle", "walk" or "tickets"
    txAlarms, txTickets,\* the tables as the open transaction sees them
    rows,               \* alarm rows the walk has not reached
    current,            \* the current chain
    decisions           \* decisions the pass has collected

passVars == <<vars, pc, txAlarms, txTickets, rows, current, decisions>>

-----------------------------------------------------------------------------

PassInit ==
    /\ Init
    /\ pc = "idle"
    /\ txAlarms = {} /\ txTickets = {}
    /\ rows = <<>> /\ current = <<>>
    /\ decisions = {}

NoTransaction ==
    /\ pc' = "idle"
    /\ txAlarms' = {} /\ txTickets' = {}
    /\ rows' = <<>> /\ current' = <<>>
    /\ decisions' = {}

(* The caller inserts between passes, on the one goroutine that polls.     *)
Insert ==
    /\ pc = "idle"
    /\ \/ \E acct \in Accounts : InsertAlarm(acct)
       \/ \E body \in Bodies : InsertTicket(body)
    /\ UNCHANGED <<pc, txAlarms, txTickets, rows, current, decisions>>

(* The less function of sort.SliceStable.                                  *)
Less(r, s) ==
    \/ SortKey[r.acct] < SortKey[s.acct]
    \/ r.acct = s.acct /\ r.at < s.at
    \/ r.acct = s.acct /\ r.at = s.at /\ r.id < s.id

Sorted(seq) == \A i, j \in DOMAIN seq : i < j => Less(seq[i], seq[j])

(* Every row of the table once, in the order of Less: the query sorts as   *)
(* the code does once more.                                                *)
ListSQSAlarmMessages(table) ==
    {seq \in UNION {[1 .. n -> table] : n \in 0 .. MaxAlarms} :
        Range(seq) = table /\ Sorted(seq)}

(* The two UPDATE statements, each run for every row of ids.               *)
MarkSQSAlarmMessageChained(table, ids) ==
    {[r EXCEPT !.chained = @ \/ r.id \in ids] : r \in table}

SetSQSAlarmMessageSpawnDecision(table, ids) ==
    {[r EXCEPT !.decided = @ \/ r.id \in ids] : r \in table}

ListSQSTicketMessagesNeedingDecision(table) == {t \in table : ~ t.decided}

SetSQSTicketMessageSpawnDecision(table, id) ==
    {[t EXCEPT !.decided = @ \/ t.id = id] : t \in table}

Begin ==
    /\ pc = "idle" /\ pass < MaxPasses
    /\ pc' = "walk"
    /\ txAlarms' = alarms /\ txTickets' = tickets
    /\ rows' \in ListSQSAlarmMessages(alarms)
    /\ UNCHANGED <<vars, current, decisions>>

alarmRowsAreChained(previous, next) ==
    previous.at <= next.at /\ next.at - previous.at <= Window

(* Wrong: the account is not compared.                                     *)
JoinsCurrent_anyAccount(row) ==
    current # <<>> => alarmRowsAreChained(current[Len(current)], row)

(* The row goes on the current chain: the chain is empty, or its last row  *)
(* is of the same account and close enough.                                *)
JoinsCurrent(row) ==
    current # <<>> =>
        LET previous == current[Len(current)]
        IN  /\ previous.acct = row.acct
            /\ alarmRowsAreChained(previous, row)

(* Wrong: alreadyDecided is not reset between the chains of an account.    *)
processAlarmChain_sticky(chain) ==
    LET members == Range(chain)
        ids == {r.id : r \in members}
        alreadyDecided == \E r \in members, s \in txAlarms : s.decided /\ s.acct = r.acct
    IN  /\ txAlarms' = SetSQSAlarmMessageSpawnDecision(
                           MarkSQSAlarmMessageChained(txAlarms, ids), ids)
        /\ decisions' =
              IF alreadyDecided \/ chain = <<>>
              THEN decisions
              ELSE decisions \cup {[type |-> "INCIDENT",
                                    row |-> chain[Len(chain)].id,
                                    pass |-> pass + 1]}

(* Wrong: a row that joins a chain with a decision is marked decided only. *)
processAlarmChain_joinsUnchained(chain) ==
    LET members == Range(chain)
        alreadyDecided == \E r \in members : r.decided
        unchained == IF alreadyDecided THEN {} ELSE {r.id : r \in members}
    IN  /\ txAlarms' = SetSQSAlarmMessageSpawnDecision(
                           MarkSQSAlarmMessageChained(txAlarms, unchained),
                           {r.id : r \in members})
        /\ decisions' =
              IF alreadyDecided \/ chain = <<>>
              THEN decisions
              ELSE decisions \cup {[type |-> "INCIDENT",
                                    row |-> chain[Len(chain)].id,
                                    pass |-> pass + 1]}

(* processAlarmChain: marks every row of the chain in the transaction, and *)
(* returns a decision about the newest row unless a row was decided.       *)
processAlarmChain(chain) ==
    LET members == Range(chain)
        unchained == {r.id : r \in {s \in members : ~ s.chained}}
        undecided == {r.id : r \in {s \in members : ~ s.decided}}
        alreadyDecided == \E r \in members : r.decided
    IN  /\ txAlarms' = SetSQSAlarmMessageSpawnDecision(
                           MarkSQSAlarmMessageChained(txAlarms, unchained), undecided)
        /\ decisions' =
              IF alreadyDecided \/ chain = <<>>
              THEN decisions
              ELSE decisions \cup {[type |-> "INCIDENT",
                                    row |-> chain[Len(chain)].id,
                                    pass |-> pass + 1]}

JoinRow ==
    /\ pc = "walk" /\ rows # <<>>
    /\ JoinsCurrent(Head(rows))
    /\ current' = Append(current, Head(rows))
    /\ rows' = Tail(rows)
    /\ UNCHANGED <<vars, pc, txAlarms, txTickets, decisions>>

FlushAndStartChain ==
    /\ pc = "walk" /\ rows # <<>>
    /\ ~ JoinsCurrent(Head(rows))
    /\ processAlarmChain(current)
    /\ current' = <<Head(rows)>>
    /\ rows' = Tail(rows)
    /\ UNCHANGED <<vars, pc, txTickets>>

(* The flush after the loop, and then the query for undecided tickets.     *)
FlushLastChain ==
    /\ pc = "walk" /\ rows = <<>>
    /\ processAlarmChain(current)
    /\ current' = <<>>
    /\ pc' = "tickets"
    /\ UNCHANGED <<vars, txTickets, rows>>

(* One iteration of scheduleTickets.  The order of the rows shows only in  *)
(* the order of the decisions, which is not modelled.                      *)
TicketRow ==
    /\ pc = "tickets"
    /\ \E t \in ListSQSTicketMessagesNeedingDecision(txTickets) :
          /\ txTickets' = SetSQSTicketMessageSpawnDecision(txTickets, t.id)
          /\ decisions' = decisions \cup {[type |-> "TICKET", row |-> t.id,
                                           pass |-> pass + 1,
                                           text |-> TicketText(t.body)]}
    /\ UNCHANGED <<vars, pc, txAlarms, rows, current>>

Commit ==
    /\ pc = "tickets"
    /\ ListSQSTicketMessagesNeedingDecision(txTickets) = {}
    /\ alarms' = txAlarms /\ tickets' = txTickets
    /\ pass' = pass + 1
    /\ issued' = issued \cup decisions
    /\ UNCHANGED now
    /\ NoTransaction

(* A query or the commit returns an error and the deferred rollback runs,  *)
(* or the process dies in the middle of the pass.                          *)
Rollback ==
    /\ pc # "idle"
    /\ NoTransaction
    /\ UNCHANGED vars

(* The clock is not read during a pass: its steps are those between passes. *)
Clock ==
    /\ pc = "idle"
    /\ Tick
    /\ UNCHANGED <<pc, txAlarms, txTickets, rows, current, decisions>>

PassNext ==
    \/ Insert
    \/ Begin \/ JoinRow \/ FlushAndStartChain \/ FlushLastChain
    \/ TicketRow \/ Commit \/ Rollback
    \/ Clock

PassSpec == PassInit /\ [][PassNext]_passVars

-----------------------------------------------------------------------------

(***************************************************************************)
(* The sort, the walk, the flushes and the ticket loop together do what    *)
(* one RunScheduling step of Scheduler does, or nothing: every chain, and  *)
(* no other set of rows, yields at most one decision, about its newest     *)
(* row, however the rows of several accounts are interleaved.              *)
(***************************************************************************)
ImplementsScheduler == Spec

(***************************************************************************)
(* In the middle of a pass no row of the transaction is decided without    *)
(* the flag is_chained, be it of a chain of this pass, of one that an      *)
(* earlier pass decided or of one the walk has not reached; and every      *)
(* decision collected so far is for a row that was undecided when the pass *)
(* began and is marked in the transaction: a decision returned without its *)
(* mark would be returned again by the next pass.                          *)
(***************************************************************************)
CollectedDecisionsAreMarked ==
    /\ \A r \in txAlarms : r.decided => r.chained
    /\ \A d \in decisions :
          IF d.type = "INCIDENT"
          THEN /\ \E r \in txAlarms : r.id = d.row /\ r.decided
               /\ \E r \in alarms : r.id = d.row /\ ~ r.decided
          ELSE /\ \E t \in txTickets : t.id = d.row /\ t.decided
               /\ \E t \in tickets : t.id = d.row /\ ~ t.decided

-----------------------------------------------------------------------------
(* The inductive invariant: what the walk has done when it stands between  *)
(* two rows, in terms of the chains of AlarmChains.                        *)

(* The rows of the chains that are flushed.                                *)
Flushed == alarms \ (Range(rows) \cup Range(current))

RowsAreSorted ==
    /\ rows \in Seq(alarms) /\ current \in Seq(alarms)
    /\ Sorted(rows) /\ Sorted(current)
    /\ \A r \in Flushed, s \in Range(current) \cup Range(rows) : Less(r, s)
    /\ \A r \in Range(current), s \in Range(rows) : Less(r, s)

(* The current chain begins where a chain begins, and nowhere again.       *)
CurrentIsChain ==
    /\ current = <<>> => Flushed = {}
    /\ current # <<>> =>
          \E r \in Range(current) :
             /\ Starts(alarms, r)
             /\ \A s \in Range(current) \ {r} : Before(r, s) /\ ~ Starts(alarms, s)

WholeChainsAreFlushed ==
    \A r \in Flushed, s \in alarms : SameChain(alarms, r, s) => s \in Flushed

(* The table rows of which those of some are marked.                       *)
MarkSome(table, some) == MarkAll(some) \cup (table \ some)

WalkInv ==
    /\ RowsAreSorted
    /\ CurrentIsChain
    /\ WholeChainsAreFlushed
    /\ txAlarms = MarkSome(alarms, Flushed)
    /\ txTickets = tickets
    /\ decisions = {[type |-> "INCIDENT", row |-> r.id, pass |-> pass + 1] :
                        r \in ToDecide(alarms) \cap Flushed}

(* The tickets handed out so far are done.                                 *)
TicketsInv ==
    /\ rows = <<>> /\ current = <<>>
    /\ txAlarms = MarkAll(alarms)
    /\ \E done \in SUBSET {t \in tickets : ~ t.decided} :
          /\ txTickets = {[t EXCEPT !.decided = TRUE] : t \in done} \cup (tickets \ done)
          /\ decisions = AlarmDecisions(alarms, pass + 1)
                             \cup TicketDecisions(done, pass + 1)

PassInv ==
    /\ AnyClockInv /\ TInv
    /\ pc \in {"idle", "walk", "tickets"}
    /\ pc # "idle" => pass < MaxPasses
    /\ pc = "idle" => current = <<>> /\ decisions = {} /\ txAlarms = {}
    /\ pc = "walk" => WalkInv
    /\ pc = "tickets" => TicketsInv

=============================================================================
