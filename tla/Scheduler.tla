------------------------------ MODULE Scheduler ------------------------------
(***************************************************************************)
(* The package go-db-scheduler as its caller sees it: two SQLite tables,   *)
(* statements that insert one row and commit by themselves, and            *)
(* RunScheduling, a transaction that commits as a whole or not at all.     *)
(* The process may die between any two of these steps; what it leaves is   *)
(* the tables.                                                             *)
(*                                                                         *)
(* The variable issued is a history variable: the decisions that           *)
(* RunScheduling has returned to its caller, each with the number of the   *)
(* pass that returned it.                                                  *)
(***************************************************************************)
EXTENDS AlarmChains

CONSTANTS
    Accounts,           \* AWS account numbers that occur in alarms
    Bodies,             \* raw message bodies of tickets
    Texts,              \* texts that ticket descriptions flatten to
    Description,        \* the description text of each body that parses
    MaxAlarms,          \* bound: rows inserted into sqs_alarm_messages
    MaxTickets,         \* bound: rows inserted into sqs_ticket_messages
    MaxTime,            \* bound: the latest clock reading
    MaxPasses,          \* bound: committed scheduling passes
    StepBack            \* how far the wall clock may be set back at once

ASSUME SchedulerAssumption ==
    /\ MaxAlarms \in Nat /\ MaxTickets \in Nat
    /\ MaxTime \in Nat /\ MaxPasses \in Nat
    /\ StepBack \in Nat
    /\ DOMAIN Description \subseteq Bodies
    /\ \A b \in DOMAIN Description : Description[b] \in Texts

VARIABLES
    alarms,             \* the rows of sqs_alarm_messages
    tickets,            \* the rows of sqs_ticket_messages
    now,                \* the wall clock CURRENT_TIMESTAMP reads
    pass,               \* number of passes committed
    issued              \* decisions returned, each with its pass

vars == <<alarms, tickets, now, pass, issued>>

AlarmIds == 1 .. MaxAlarms
TicketIds == 1 .. MaxTickets

Alarm == [id : AlarmIds, acct : Accounts, at : 0 .. MaxTime,
          chained : BOOLEAN, decided : BOOLEAN]

Ticket == [id : TicketIds, body : Bodies, decided : BOOLEAN]

Decision ==
    [type : {"INCIDENT"}, row : AlarmIds, pass : 1 .. MaxPasses]
        \cup [type : {"TICKET"}, row : TicketIds, pass : 1 .. MaxPasses,
              text : Bodies \cup Texts]

(* INTEGER PRIMARY KEY: SQLite numbers a new row one above the last one.   *)
IsNextId(rows, i) ==
    /\ \A r \in rows : r.id < i
    /\ i = 1 \/ \E r \in rows : r.id = i - 1

(* The text handed to the agent: the flattened description, or the raw     *)
(* body when it does not parse as a ticket.                                *)
TicketText(body) ==
    IF body \in DOMAIN Description THEN Description[body] ELSE body

-----------------------------------------------------------------------------

Init ==
    /\ alarms = {} /\ tickets = {}
    /\ now = 0 /\ pass = 0
    /\ issued = {}

(* InsertSQSAlarmMessage; received_at defaults to CURRENT_TIMESTAMP.       *)
InsertAlarm(acct) ==
    /\ \E i \in AlarmIds :
       /\ IsNextId(alarms, i)
       /\ alarms' = alarms \cup {[id |-> i, acct |-> acct, at |-> now,
                                  chained |-> FALSE, decided |-> FALSE]}
    /\ UNCHANGED <<tickets, now, pass, issued>>

(* InsertSQSTicketMessage.                                                 *)
InsertTicket(body) ==
    /\ \E i \in TicketIds :
       /\ IsNextId(tickets, i)
       /\ tickets' = tickets \cup {[id |-> i, body |-> body, decided |-> FALSE]}
    /\ UNCHANGED <<alarms, now, pass, issued>>

AlarmDecisions(rows, n) ==
    {[type |-> "INCIDENT", row |-> r.id, pass |-> n] : r \in ToDecide(rows)}

(* Wrong: the query does not filter on the decision flag.                  *)
TicketDecisions_all(rows, n) ==
    {[type |-> "TICKET", row |-> t.id, pass |-> n, text |-> TicketText(t.body)] : t \in rows}

TicketDecisions(rows, n) ==
    {[type |-> "TICKET", row |-> t.id, pass |-> n, text |-> TicketText(t.body)] :
        t \in {u \in rows : ~ u.decided}}

(* RunScheduling, committed.  A pass that fails changes nothing and        *)
(* returns no decision: it is a stuttering step of this module.            *)
RunScheduling ==
    /\ pass < MaxPasses
    /\ pass' = pass + 1
    /\ alarms' = MarkAll(alarms)
    /\ tickets' = {[t EXCEPT !.decided = TRUE] : t \in tickets}
    /\ issued' = issued \cup AlarmDecisions(alarms, pass')
                        \cup TicketDecisions(tickets, pass')
    /\ UNCHANGED now

(* Time passes, or the wall clock of the host is corrected backwards.      *)
Tick ==
    /\ now' \in (now - StepBack .. now + 1) \cap (0 .. MaxTime)
    /\ UNCHANGED <<alarms, tickets, pass, issued>>

Next ==
    \/ \E acct \in Accounts : InsertAlarm(acct)
    \/ \E body \in Bodies : InsertTicket(body)
    \/ RunScheduling
    \/ Tick

Spec == Init /\ [][Next]_vars

-----------------------------------------------------------------------------

TypeOK ==
    /\ alarms \subseteq Alarm
    /\ tickets \subseteq Ticket
    /\ now \in 0 .. MaxTime
    /\ pass \in 0 .. MaxPasses
    /\ issued \subseteq Decision

Incidents == {d \in issued : d.type = "INCIDENT"}

About(d, r) == r.id = d.row

(***************************************************************************)
(* At most one spawn decision per alarm chain, over the whole life of the  *)
(* database: two decisions about rows of one chain are the same decision   *)
(* of the same pass.  Needs a clock that is never set back.                *)
(***************************************************************************)
OneDecisionPerChain ==
    \A d, e \in Incidents : \A r, s \in alarms :
        About(d, r) /\ About(e, s) /\ SameChain(alarms, r, s) => d = e

(***************************************************************************)
(* The decision flag is never set without a decision: the chain of every   *)
(* decided row holds a row whose decision was returned.  With the property *)
(* above, a chain that a pass has seen has exactly one decision.           *)
(***************************************************************************)
DecidedChainHasDecision ==
    \A r \in alarms : r.decided =>
        \E d \in Incidents : \E s \in alarms :
            About(d, s) /\ SameChain(alarms, r, s)

(***************************************************************************)
(* Two decisions for one account are about alarms more than Window apart:  *)
(* a burst of alarms, or of duplicate deliveries of one alarm, never       *)
(* starts a second agent within the window.                                *)
(***************************************************************************)
DecisionsAreApart ==
    \A d, e \in Incidents : \A r, s \in alarms :
        About(d, r) /\ About(e, s) /\ d # e /\ r.acct = s.acct
            => ~ Linked(r, s)

(***************************************************************************)
(* A stored ticket is handed out at most once, and is marked decided       *)
(* exactly when it has been: repeated passes, and passes after a restart,  *)
(* do not return it again.                                                 *)
(***************************************************************************)
TicketDecidedOnce ==
    /\ \A d, e \in issued :
          d.type = "TICKET" /\ e.type = "TICKET" /\ d.row = e.row => d = e
    /\ \A t \in tickets :
          t.decided <=> \E d \in issued : d.type = "TICKET" /\ d.row = t.id

(***************************************************************************)
(* No row has two decisions, whatever the clock does: neither passes on    *)
(* tables that have grown, nor a clock set back that splits or joins       *)
(* chains, hand out an alarm or a ticket a second time.                    *)
(***************************************************************************)
OneDecisionPerRow ==
    \A d, e \in issued : d.type = e.type /\ d.row = e.row => d = e

(***************************************************************************)
(* A pass over tables that hold no undecided row returns nothing: a second *)
(* run over unchanged tables, before or after a restart, is idempotent.    *)
(***************************************************************************)
PassIsIdempotent ==
    [][ (\A r \in alarms \cup tickets : r.decided) /\ pass' # pass
          => UNCHANGED <<alarms, tickets, issued>> ]_vars

-----------------------------------------------------------------------------
(* The inductive invariants: AnyClockInv for the alarms and TInv for the   *)
(* tickets whatever the clock does, AlarmInv for the alarms when the clock *)
(* is never set back.                                                      *)

IdsAreKeys == \A r, s \in alarms : r.id = s.id => r = s

DecidedIsChained == \A r \in alarms : r.decided => r.chained

DecisionsAreAboutDecidedRows ==
    \A d \in Incidents : \E r \in alarms : About(d, r) /\ r.decided

HasEnds(rows) ==
    /\ \E r \in rows : \A s \in rows : ~ Before(s, r)
    /\ \E r \in rows : \A s \in rows : ~ Before(r, s)

(* Also the rows of a chain, or those after a new row, have a first and a  *)
(* last one: what the table's being finite comes to.                       *)
EverySetHasEnds == \A rows \in SUBSET alarms : rows # {} => HasEnds(rows)

AnyClockInv ==
    /\ TypeOK
    /\ IdsAreKeys
    /\ DecidedIsChained
    /\ DecisionsAreAboutDecidedRows
    /\ EverySetHasEnds
    /\ DecidedChainHasDecision

RowsInOrder == \A r, s \in alarms : r.id < s.id => r.at <= s.at

RowsNotInFuture == \A r \in alarms : r.at <= now

AlarmInv ==
    /\ AnyClockInv
    /\ RowsInOrder
    /\ RowsNotInFuture
    /\ OneDecisionPerChain

TInv ==
    /\ TypeOK
    /\ \A t, u \in tickets : t.id = u.id => t = u
    /\ \A d \in issued : d.type = "TICKET" => \E t \in tickets : t.id = d.row
    /\ TicketDecidedOnce

IInv == AlarmInv /\ TInv

=============================================================================
