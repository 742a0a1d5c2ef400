---------------------------- MODULE AlarmChains ----------------------------
(***************************************************************************)
(* Alarm chains, as go-db-scheduler/scheduler.go groups the rows of the    *)
(* table sqs_alarm_messages.  The code sorts the rows and walks them; here *)
(* a chain is defined by first-order formulas over the set of rows, so     *)
(* that it can be reasoned about.  SchedulingPass is the walk itself, and  *)
(* is checked to produce exactly these chains.                             *)
(*                                                                         *)
(* A row is a record with at least the fields id (the primary key), acct   *)
(* (aws_account_number), at (received_at), decided                         *)
(* (returned_spawn_decision_for_chained_set) and chained (is_chained).     *)
(***************************************************************************)
EXTENDS Integers

CONSTANT Window         \* chainWindow, one hour, in units of the clock

ASSUME WindowAssumption == Window \in Nat

(* The order of sort.SliceStable within one account: received_at, then id. *)
Before(r, s) ==
    /\ r.acct = s.acct
    /\ \/ r.at < s.at
       \/ r.at = s.at /\ r.id < s.id

(* alarmRowsAreChained: the later row is at most Window after the earlier. *)
Linked(r, s) == r.at <= s.at /\ s.at - r.at <= Window

(* A chain begins at a row that no earlier row of its account links to:    *)
(* the walk flushes the current chain and begins a new one there.          *)
Starts(rows, r) == ~ \E s \in rows : Before(s, r) /\ Linked(s, r)

NotAfter(r, s) == r.id = s.id \/ Before(r, s)

(* s is not before r, and the walk begins no chain after r and up to s:    *)
(* the two rows are flushed together.                                      *)
Reaches(rows, r, s) ==
    /\ NotAfter(r, s)
    /\ ~ \E t \in rows : Before(r, t) /\ NotAfter(t, s) /\ Starts(rows, t)

SameChain(rows, r, s) == Reaches(rows, r, s) \/ Reaches(rows, s, r)

ChainOf(rows, r) == {s \in rows : SameChain(rows, r, s)}

(* Wrong: only the row itself is looked at.                                *)
AlreadyDecided_rowOnly(rows, r) == r.decided

(* processAlarmChain: a chain with a decided row has had its decision.     *)
AlreadyDecided(rows, r) == \E s \in ChainOf(rows, r) : s.decided

(* processAlarmChain hands out the last row of the chain.                  *)
NewestOfChain(rows, r) == \A s \in ChainOf(rows, r) : ~ Before(r, s)

(* Wrong: every undecided row counts as a chain of its own.                *)
ToDecide_everyRow(rows) == {r \in rows : ~ r.decided}

(* Wrong: chains that had their decision are not skipped.                  *)
ToDecide_again(rows) == {r \in rows : NewestOfChain(rows, r)}

(* The rows scheduleAlarms turns into decisions: the newest row of every   *)
(* chain none of whose rows is decided.                                    *)
ToDecide(rows) ==
    {r \in rows : NewestOfChain(rows, r) /\ ~ AlreadyDecided(rows, r)}

(* Wrong: is_chained is not written.                                       *)
MarkAll_notChained(rows) == {[r EXCEPT !.decided = TRUE] : r \in rows}

(* What one pass writes: is_chained and the decision flag of every row.    *)
MarkAll(rows) == {[r EXCEPT !.chained = TRUE, !.decided = TRUE] : r \in rows}

=============================================================================
