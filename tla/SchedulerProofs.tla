--------------------------- MODULE SchedulerProofs ---------------------------
(***************************************************************************)
(* Theorems about Scheduler, for every value of its constants.  The type   *)
(* invariant, the ticket properties, and that a decided chain did have its *)
(* decision, hold whatever the clock does; that no chain has two needs a   *)
(* clock that is never set back (StepBack = 0).                            *)
(***************************************************************************)
EXTENDS Scheduler, TLAPS

(* What the lemmas need of a set of rows: numbers to compare, and a key.   *)
Table(rows) ==
    /\ \A r \in rows : r.id \in Nat /\ r.at \in Nat
    /\ \A r, s \in rows : r.id = s.id => r = s

-----------------------------------------------------------------------------
(* The rows of one account are strictly and totally ordered.               *)

LEMMA BeforeIsOrder ==
    ASSUME NEW rows, Table(rows)
    PROVE  /\ \A r \in rows : ~ Before(r, r)
           /\ \A r, s, t \in rows : Before(r, s) /\ Before(s, t) => Before(r, t)
           /\ \A r, s \in rows : r.acct = s.acct =>
                 r = s \/ Before(r, s) \/ Before(s, r)
           /\ \A r, s \in rows : Before(r, s) => r.acct = s.acct
           /\ \A r, s \in rows : NotAfter(r, s) <=> r = s \/ Before(r, s)
BY DEF Table, Before, NotAfter

(* To be in one chain is an equivalence: a pass partitions the table.      *)
LEMMA SameChainIsEquivalence ==
    ASSUME NEW rows, Table(rows)
    PROVE  /\ \A r \in rows : SameChain(rows, r, r)
           /\ \A r, s \in rows : SameChain(rows, r, s) => SameChain(rows, s, r)
           /\ \A r, s \in rows : SameChain(rows, r, s) => r.acct = s.acct
           /\ \A r, s, t \in rows :
                 SameChain(rows, r, s) /\ SameChain(rows, s, t)
                     => SameChain(rows, r, t)
<1> USE BeforeIsOrder
<1>1. \A r \in rows : Reaches(rows, r, r)
  BY DEF Reaches
<1>2. \A r, s, t \in rows :
        Reaches(rows, r, s) /\ Reaches(rows, s, t) => Reaches(rows, r, t)
  BY DEF Reaches
<1>3. \A r, s, t \in rows : r.acct = t.acct =>
        (Reaches(rows, r, s) /\ Reaches(rows, t, s)
            => Reaches(rows, r, t) \/ Reaches(rows, t, r))
  BY DEF Reaches
<1>4. \A r, s, t \in rows : r.acct = t.acct =>
        (Reaches(rows, s, r) /\ Reaches(rows, s, t)
            => Reaches(rows, r, t) \/ Reaches(rows, t, r))
  BY DEF Reaches
<1>5. \A r, s \in rows : Reaches(rows, r, s) => r.acct = s.acct
  BY DEF Reaches
<1> QED
  BY <1>1, <1>2, <1>3, <1>4, <1>5 DEF SameChain

(* A row no more than Window after another is in its chain.                *)
LEMMA LinkedRowsShareChain ==
    ASSUME NEW rows, Table(rows), NEW r \in rows, NEW s \in rows,
           r.acct = s.acct, Linked(r, s)
    PROVE  SameChain(rows, r, s)
BY WindowAssumption DEF Table, SameChain, Reaches, NotAfter, Before, Starts, Linked

(* The newest row of a chain is the only one, so a pass returns at most    *)
(* one decision for a chain.                                               *)
LEMMA NewestIsUnique ==
    ASSUME NEW rows, Table(rows), NEW r \in rows, NEW s \in rows,
           SameChain(rows, r, s), NewestOfChain(rows, r), NewestOfChain(rows, s)
    PROVE  r = s
BY BeforeIsOrder, SameChainIsEquivalence DEF NewestOfChain, ChainOf

-----------------------------------------------------------------------------
(* A new row that comes after every row of its account.                    *)

LEMMA NewRowLeavesChains ==
    ASSUME NEW rows, NEW n, Table(rows \cup {n}),
           \A r \in rows : ~ Before(n, r)
    PROVE  \A r, s \in rows :
              SameChain(rows \cup {n}, r, s) <=> SameChain(rows, r, s)
<1> DEFINE all == rows \cup {n}
<1>1. \A r \in rows : Starts(all, r) <=> Starts(rows, r)
  BY DEF Starts
<1>2. \A r, s \in rows : ~ (Before(r, n) /\ n # s /\ NotAfter(n, s))
  BY BeforeIsOrder
<1> HIDE DEF all
<1>3. \A r, s \in rows : Reaches(all, r, s) <=> Reaches(rows, r, s)
  BY <1>1, <1>2, BeforeIsOrder DEF Reaches, all
<1> QED
  BY <1>3 DEF SameChain, all

-----------------------------------------------------------------------------
(* A new row anywhere, also between old ones after the clock was set back. *)

LEMMA NewRowKeepsEnds ==
    ASSUME NEW rows, NEW n, Table(rows \cup {n}),
           \A some \in SUBSET rows : some # {} => HasEnds(some)
    PROVE  \A some \in SUBSET (rows \cup {n}) : some # {} => HasEnds(some)
<1> SUFFICES ASSUME NEW some \in SUBSET (rows \cup {n}), some # {}
             PROVE  HasEnds(some)
  OBVIOUS
<1>1. CASE n \notin some
  BY <1>1
<1>2. CASE some = {n}
  <2>1. ~ Before(n, n)
    BY BeforeIsOrder
  <2> QED
    BY <1>2, <2>1 DEF HasEnds
<1>3. CASE n \in some /\ some # {n}
  <2> DEFINE old == some \ {n}
  <2>1. old \in SUBSET rows /\ old # {} /\ some = old \cup {n}
    BY <1>3
  <2> HIDE DEF old
  <2>2. PICK r \in old : \A s \in old : ~ Before(s, r)
    BY <2>1 DEF HasEnds
  <2>3. PICK t \in old : \A s \in old : ~ Before(t, s)
    BY <2>1 DEF HasEnds
  <2>4. \E u \in some : \A s \in some : ~ Before(s, u)
    <3>1. CASE Before(n, r)
      BY <2>1, <2>2, <3>1, BeforeIsOrder
    <3>2. CASE ~ Before(n, r)
      BY <2>1, <2>2, <3>2
    <3> QED
      BY <3>1, <3>2
  <2>5. \E u \in some : \A s \in some : ~ Before(u, s)
    <3>1. CASE Before(t, n)
      BY <2>1, <2>3, <3>1, BeforeIsOrder
    <3>2. CASE ~ Before(t, n)
      BY <2>1, <2>3, <3>2
    <3> QED
      BY <3>1, <3>2
  <2> QED
    BY <2>4, <2>5 DEF HasEnds
<1> QED
  BY <1>1, <1>2, <1>3

(* A new row may join chains, but it never separates two rows of one: the  *)
(* first row after it that it could separate from the rows before it is    *)
(* linked to one of those, and so is the new row.                          *)
LEMMA NewRowSeparatesNone ==
    ASSUME NEW rows, NEW n, Table(rows \cup {n}), n \notin rows,
           \A some \in SUBSET rows : some # {} => HasEnds(some),
           NEW r \in rows, NEW s \in rows, Reaches(rows, r, s)
    PROVE  Reaches(rows \cup {n}, r, s)
<1> DEFINE all == rows \cup {n}
<1>1. SUFFICES ASSUME NEW t \in all, Before(r, t), NotAfter(t, s), Starts(all, t)
               PROVE  FALSE
  BY DEF Reaches
<1>2. t = n
  <2>1. t \in rows => Starts(rows, t)
    BY <1>1 DEF Starts
  <2> QED
    BY <1>1, <2>1 DEF Reaches
<1>3. Before(r, n) /\ Before(n, s)
  BY <1>1, <1>2, BeforeIsOrder
<1> DEFINE after == {u \in rows : Before(n, u) /\ NotAfter(u, s)}
<1>4. s \in after /\ after \in SUBSET rows
  BY <1>3 DEF NotAfter
<1>5. PICK u \in after : \A v \in after : ~ Before(v, u)
  BY <1>4 DEF HasEnds
<1>6. u \in rows /\ Before(n, u) /\ NotAfter(u, s) /\ Before(r, u)
  BY <1>3, BeforeIsOrder
<1>7. PICK v \in rows : Before(v, u) /\ Linked(v, u)
  BY <1>6 DEF Reaches, Starts
<1>8. NotAfter(v, s)
  BY <1>6, <1>7, BeforeIsOrder
<1>9. ~ Before(n, v)
  BY <1>5, <1>7, <1>8
<1>10. Before(v, n)
  BY <1>6, <1>7, <1>9, BeforeIsOrder DEF Before
<1>11. Linked(v, n)
  BY <1>6, <1>7, <1>10, WindowAssumption DEF Table, Linked, Before
<1> QED
  BY <1>1, <1>2, <1>10, <1>11 DEF Starts

(* The newest row of a chain, which a pass hands out.                      *)
LEMMA ChainHasNewest ==
    ASSUME NEW rows, Table(rows), NEW r \in rows,
           \A some \in SUBSET rows : some # {} => HasEnds(some)
    PROVE  \E s \in rows : SameChain(rows, r, s) /\ NewestOfChain(rows, s)
<1>1. r \in ChainOf(rows, r) /\ ChainOf(rows, r) \in SUBSET rows
  BY SameChainIsEquivalence DEF ChainOf
<1>2. PICK s \in ChainOf(rows, r) : \A t \in ChainOf(rows, r) : ~ Before(s, t)
  BY <1>1 DEF HasEnds
<1>3. s \in rows /\ SameChain(rows, r, s)
  BY DEF ChainOf
<1>4. ChainOf(rows, s) \subseteq ChainOf(rows, r)
  BY <1>3, SameChainIsEquivalence DEF ChainOf
<1> QED
  BY <1>2, <1>3, <1>4 DEF NewestOfChain

-----------------------------------------------------------------------------
(* Marking changes the flags of the rows, and chains do not look at them.  *)

(* b is row a after a pass.                                                *)
Marked(a, b) ==
    /\ b.id = a.id /\ b.acct = a.acct /\ b.at = a.at
    /\ b.decided /\ b.chained

LEMMA MarkAllMarks ==
    ASSUME NEW rows, rows \subseteq Alarm
    PROVE  /\ MarkAll(rows) \subseteq Alarm
           /\ \A a \in rows : \E b \in MarkAll(rows) : Marked(a, b)
           /\ \A b \in MarkAll(rows) : \E a \in rows : Marked(a, b)
<1> DEFINE M(a) == [a EXCEPT !.chained = TRUE, !.decided = TRUE]
<1>1. \A a \in rows : M(a) \in Alarm /\ Marked(a, M(a))
  BY DEF Alarm, Marked
<1> QED
  BY <1>1 DEF MarkAll

LEMMA MarkingLeavesChains ==
    ASSUME NEW rows, NEW marked, Table(rows), Table(marked),
           \A a \in rows : \E b \in marked : Marked(a, b),
           \A b \in marked : \E a \in rows : Marked(a, b),
           NEW r \in rows, NEW s \in rows, NEW u \in marked, NEW v \in marked,
           Marked(r, u), Marked(s, v)
    PROVE  SameChain(marked, u, v) <=> SameChain(rows, r, s)
<1>1. \A a, c \in rows : \A b, d \in marked : Marked(a, b) /\ Marked(c, d) =>
        /\ Before(a, c) <=> Before(b, d)
        /\ Linked(a, c) <=> Linked(b, d)
        /\ NotAfter(a, c) <=> NotAfter(b, d)
  BY DEF Marked, Before, Linked, NotAfter
<1>2. ASSUME NEW a \in rows, NEW b \in marked, Marked(a, b)
      PROVE  Starts(rows, a) <=> Starts(marked, b)
  <2>1. ASSUME NEW c \in rows, Before(c, a), Linked(c, a)
        PROVE  ~ Starts(marked, b)
    <3>1. PICK d \in marked : Marked(c, d)
      OBVIOUS
    <3> QED
      BY <1>1, <1>2, <2>1, <3>1 DEF Starts
  <2>2. ASSUME NEW d \in marked, Before(d, b), Linked(d, b)
        PROVE  ~ Starts(rows, a)
    <3>1. PICK c \in rows : Marked(c, d)
      OBVIOUS
    <3> QED
      BY <1>1, <1>2, <2>2, <3>1 DEF Starts
  <2> QED
    BY <2>1, <2>2 DEF Starts
<1>3. ASSUME NEW a \in rows, NEW b \in marked, Marked(a, b),
             NEW c \in rows, NEW d \in marked, Marked(c, d)
      PROVE  Reaches(rows, a, c) <=> Reaches(marked, b, d)
  <2>1. ASSUME NEW t \in rows, Before(a, t), NotAfter(t, c), Starts(rows, t)
        PROVE  ~ Reaches(marked, b, d)
    <3>1. PICK x \in marked : Marked(t, x)
      OBVIOUS
    <3>2. Before(b, x) /\ NotAfter(x, d) /\ Starts(marked, x)
      BY <1>1, <1>2, <1>3, <2>1, <3>1
    <3> QED
      BY <3>2 DEF Reaches
  <2>2. ASSUME NEW x \in marked, Before(b, x), NotAfter(x, d), Starts(marked, x)
        PROVE  ~ Reaches(rows, a, c)
    <3>1. PICK t \in rows : Marked(t, x)
      OBVIOUS
    <3>2. Before(a, t) /\ NotAfter(t, c) /\ Starts(rows, t)
      BY <1>1, <1>2, <1>3, <2>2, <3>1
    <3> QED
      BY <3>2 DEF Reaches
  <2>3. NotAfter(a, c) <=> NotAfter(b, d)
    BY <1>1, <1>3
  <2> QED
    BY <2>1, <2>2, <2>3 DEF Reaches
<1> QED
  BY <1>3 DEF SameChain

-----------------------------------------------------------------------------
(* Type correctness and tickets.                                           *)

LEMMA TypeOKInit == Init => TypeOK
BY SchedulerAssumption DEF Init, TypeOK

LEMMA NewDecisionsAreDecisions ==
    ASSUME TypeOK, RunScheduling
    PROVE  /\ AlarmDecisions(alarms, pass') \subseteq Decision
           /\ TicketDecisions(tickets, pass') \subseteq Decision
<1>1. pass' \in 1 .. MaxPasses
  BY SchedulerAssumption DEF TypeOK, RunScheduling
<1>2. AlarmDecisions(alarms, pass') \subseteq Decision
  BY <1>1 DEF TypeOK, AlarmDecisions, ToDecide, Decision, Alarm
<1>3. \A b \in Bodies : TicketText(b) \in Bodies \cup Texts
  BY SchedulerAssumption DEF TicketText
<1>4. TicketDecisions(tickets, pass') \subseteq Decision
  BY <1>1, <1>3 DEF TypeOK, TicketDecisions, Decision, Ticket
<1> QED
  BY <1>2, <1>4

LEMMA TypeOKStep == TypeOK /\ [Next]_vars => TypeOK'
<1> SUFFICES ASSUME TypeOK, [Next]_vars PROVE TypeOK'
  OBVIOUS
<1>1. ASSUME NEW acct \in Accounts, InsertAlarm(acct) PROVE TypeOK'
  <2>1. PICK i \in AlarmIds :
          alarms' = alarms \cup {[id |-> i, acct |-> acct, at |-> now,
                                 chained |-> FALSE, decided |-> FALSE]}
    BY <1>1 DEF InsertAlarm
  <2>2. [id |-> i, acct |-> acct, at |-> now,
         chained |-> FALSE, decided |-> FALSE] \in Alarm
    BY DEF TypeOK, Alarm
  <2>3. alarms' \subseteq Alarm
    BY <2>1, <2>2 DEF TypeOK
  <2> QED
    BY <1>1, <2>3 DEF InsertAlarm, TypeOK
<1>2. ASSUME NEW body \in Bodies, InsertTicket(body) PROVE TypeOK'
  <2>1. PICK i \in TicketIds :
          tickets' = tickets \cup {[id |-> i, body |-> body, decided |-> FALSE]}
    BY <1>2 DEF InsertTicket
  <2>2. [id |-> i, body |-> body, decided |-> FALSE] \in Ticket
    BY DEF Ticket
  <2>3. tickets' \subseteq Ticket
    BY <2>1, <2>2 DEF TypeOK
  <2> QED
    BY <1>2, <2>3 DEF InsertTicket, TypeOK
<1>3. ASSUME RunScheduling PROVE TypeOK'
  <2>1. alarms' \subseteq Alarm
    BY <1>3, MarkAllMarks DEF RunScheduling, TypeOK
  <2>2. tickets' \subseteq Ticket
    BY <1>3 DEF RunScheduling, TypeOK, Ticket
  <2>3. issued' \subseteq Decision
    BY <1>3, NewDecisionsAreDecisions DEF RunScheduling, TypeOK
  <2> QED
    BY <1>3, <2>1, <2>2, <2>3, SchedulerAssumption DEF RunScheduling, TypeOK
<1>4. ASSUME Tick PROVE TypeOK'
  <2>1. now' \in 0 .. MaxTime
    BY <1>4, SchedulerAssumption DEF Tick, TypeOK
  <2> QED
    BY <1>4, <2>1 DEF Tick, TypeOK
<1>5. ASSUME UNCHANGED vars PROVE TypeOK'
  BY <1>5 DEF vars, TypeOK
<1> QED
  BY <1>1, <1>2, <1>3, <1>4, <1>5 DEF Next

(* The tables and the returned decisions keep their types, whatever order  *)
(* the inserts, passes and clock changes come in.                          *)
THEOREM TypeCorrect == Spec => []TypeOK
BY TypeOKInit, TypeOKStep, PTL DEF Spec

LEMMA TInvStep == TInv /\ [Next]_vars => TInv'
<1> SUFFICES ASSUME TInv, [Next]_vars PROVE TInv'
  OBVIOUS
<1>0. TypeOK'
  BY TypeOKStep DEF TInv
<1>1. ASSUME NEW body \in Bodies, InsertTicket(body) PROVE TInv'
  <2>1. PICK i \in TicketIds :
          /\ IsNextId(tickets, i)
          /\ tickets' = tickets \cup {[id |-> i, body |-> body, decided |-> FALSE]}
    BY <1>1 DEF InsertTicket
  <2> DEFINE n == [id |-> i, body |-> body, decided |-> FALSE]
  <2>2. tickets' = tickets \cup {n} /\ n.id = i /\ n.decided = FALSE
    BY <2>1
  <2> HIDE DEF n
  <2>3. \A t \in tickets : t.id # i
    BY <2>1 DEF TInv, TypeOK, Ticket, IsNextId, TicketIds
  <2>4. issued' = issued
    BY <1>1 DEF InsertTicket
  <2>5. \A t, u \in tickets' : t.id = u.id => t = u
    BY <2>2, <2>3 DEF TInv
  <2>6. \A d \in issued : d.type = "TICKET" => d.row # i
    BY <2>3 DEF TInv
  <2>7. TicketDecidedOnce'
    BY <2>2, <2>4, <2>6 DEF TInv, TicketDecidedOnce
  <2> QED
    BY <1>0, <2>2, <2>4, <2>5, <2>7 DEF TInv
<1>2. ASSUME RunScheduling PROVE TInv'
  <2> DEFINE M(t) == [t EXCEPT !.decided = TRUE]
             new == {u \in tickets : ~ u.decided}
  <2>a. \A t \in tickets : M(t).id = t.id /\ M(t).decided
    BY DEF TInv, TypeOK, Ticket
  <2>b. tickets' = {M(t) : t \in tickets}
    BY <1>2 DEF RunScheduling
  <2> HIDE DEF M
  <2>1. /\ \A t \in tickets : \E u \in tickets' : u = M(t)
        /\ \A u \in tickets' : \E t \in tickets : u = M(t) /\ u.id = t.id /\ u.decided
        /\ \A t \in tickets : \E u \in tickets' : u.id = t.id
    BY <2>a, <2>b
  <2>2. ASSUME NEW u \in tickets', NEW v \in tickets', u.id = v.id PROVE u = v
    <3>1. PICK t \in tickets : u = M(t) /\ u.id = t.id
      BY <2>1
    <3>2. PICK s \in tickets : v = M(s) /\ v.id = s.id
      BY <2>1
    <3> QED
      BY <2>2, <3>1, <3>2 DEF TInv
  <2>3. \A d \in issued' : d.type = "TICKET" =>
          d \in issued \/ \E t \in new : d.row = t.id /\ d.pass = pass'
                                      /\ d.text = TicketText(t.body)
    BY <1>2 DEF RunScheduling, AlarmDecisions, TicketDecisions
  <2>4. \A t \in new : \E d \in issued' : d.type = "TICKET" /\ d.row = t.id
    <3> SUFFICES ASSUME NEW t \in new
                 PROVE  \E d \in issued' : d.type = "TICKET" /\ d.row = t.id
      OBVIOUS
    <3> DEFINE e == [type |-> "TICKET", row |-> t.id, pass |-> pass',
                     text |-> TicketText(t.body)]
    <3>1. e \in TicketDecisions(tickets, pass')
      BY DEF TicketDecisions
    <3> QED
      BY <1>2, <3>1 DEF RunScheduling
  <2>5. \A t \in new : \A d \in issued : ~ (d.type = "TICKET" /\ d.row = t.id)
    BY DEF TInv, TicketDecidedOnce
  <2>6. \A d \in issued' : d.type = "TICKET" => \E t \in tickets' : t.id = d.row
    BY <2>1, <2>3 DEF TInv
  <2>7. \A d, e \in issued' :
          d.type = "TICKET" /\ e.type = "TICKET" /\ d.row = e.row => d = e
    <3> SUFFICES ASSUME NEW d \in issued', NEW e \in issued',
                        d.type = "TICKET", e.type = "TICKET", d.row = e.row
                 PROVE  d = e
      OBVIOUS
    <3>1. CASE d \in issued \/ e \in issued
      BY <3>1, <2>3, <2>5 DEF TInv, TicketDecidedOnce
    <3>2. CASE d \notin issued /\ e \notin issued
      <4>1. d \in TicketDecisions(tickets, pass') /\ e \in TicketDecisions(tickets, pass')
        BY <1>2, <3>2 DEF RunScheduling, AlarmDecisions
      <4> QED
        BY <4>1 DEF TicketDecisions, TInv
    <3> QED
      BY <3>1, <3>2
  <2>8. \A t \in tickets' : t.decided <=>
          \E d \in issued' : d.type = "TICKET" /\ d.row = t.id
    <3>1. \A t \in tickets : \E d \in issued' : d.type = "TICKET" /\ d.row = t.id
      BY <1>2, <2>4 DEF RunScheduling, TInv, TicketDecidedOnce
    <3> QED
      BY <3>1, <2>1
  <2> QED
    BY <1>0, <2>2, <2>6, <2>7, <2>8 DEF TInv, TicketDecidedOnce
<1>3. CASE UNCHANGED <<tickets, issued>>
  BY <1>3, <1>0 DEF TInv, TicketDecidedOnce
<1> QED
  BY <1>1, <1>2, <1>3 DEF Next, vars, InsertAlarm, Tick

(* The inductive invariant of the tickets: primary keys stay keys, and no  *)
(* decision is about a ticket that is not in the table.                    *)
THEOREM TicketInvariance == Spec => []TInv
<1>1. Init => TInv
  BY TypeOKInit DEF Init, TInv, TicketDecidedOnce
<1> QED
  BY <1>1, TInvStep, PTL DEF Spec

(* Every stored ticket is handed out at most once and is marked exactly    *)
(* when it has been, through any sequence of inserts, passes and restarts. *)
THEOREM TicketsAreDecidedOnce == Spec => []TicketDecidedOnce
<1>1. TInv => TicketDecidedOnce
  BY DEF TInv
<1> QED
  BY <1>1, TicketInvariance, PTL

-----------------------------------------------------------------------------
(* Alarms, whatever the clock does.                                        *)

LEMMA AlarmsAreTable ==
    ASSUME TypeOK, IdsAreKeys
    PROVE  Table(alarms)
<1>1. \A r \in alarms : r \in Alarm
  BY DEF TypeOK
<1>2. \A r \in alarms : r.id \in Nat /\ r.at \in Nat
  BY <1>1, SchedulerAssumption DEF Alarm, AlarmIds
<1> QED
  BY <1>2 DEF Table, IdsAreKeys

(* What the step InsertAlarm does to the table: n is the new row.          *)
Inserted(n) ==
    /\ alarms' = alarms \cup {n}
    /\ n \notin alarms
    /\ Table(alarms \cup {n})
    /\ n.at = now /\ ~ n.decided
    /\ \A r \in alarms : r.id < n.id
    /\ \A d \in Incidents : d.row # n.id

LEMMA InsertAlarmInserts ==
    ASSUME AnyClockInv, NEW acct \in Accounts, InsertAlarm(acct)
    PROVE  \E n : Inserted(n)
<1>1. PICK i \in AlarmIds :
        /\ IsNextId(alarms, i)
        /\ alarms' = alarms \cup {[id |-> i, acct |-> acct, at |-> now,
                                   chained |-> FALSE, decided |-> FALSE]}
  BY DEF InsertAlarm
<1> DEFINE n == [id |-> i, acct |-> acct, at |-> now,
                 chained |-> FALSE, decided |-> FALSE]
<1>2. /\ alarms' = alarms \cup {n}
      /\ n.id = i /\ n.at = now /\ n.decided = FALSE
  BY <1>1
<1> HIDE DEF n
<1>3. Table(alarms)
  BY AlarmsAreTable DEF AnyClockInv
<1>4. i \in Nat /\ now \in Nat
  BY SchedulerAssumption DEF AlarmIds, AnyClockInv, TypeOK
<1>5. \A r \in alarms : r.id < i
  BY <1>1 DEF IsNextId
<1>6. n \notin alarms
  BY <1>2, <1>4, <1>5
<1>7. Table(alarms \cup {n})
  BY <1>2, <1>3, <1>4, <1>5 DEF Table
<1>8. \A d \in Incidents : d.row # i
  BY <1>3, <1>4, <1>5 DEF AnyClockInv, DecisionsAreAboutDecidedRows, About, Table
<1> QED
  BY <1>2, <1>5, <1>6, <1>7, <1>8 DEF Inserted

(* Inserting an alarm: the new row is undecided, no decision is about it,  *)
(* and the rows that shared a chain with a decided row still do.           *)
LEMMA InsertAlarmKeepsAnyClockInv ==
    ASSUME AnyClockInv, TypeOK', NEW acct \in Accounts, InsertAlarm(acct)
    PROVE  AnyClockInv'
<1>1. PICK n : Inserted(n)
  BY InsertAlarmInserts
<1>2. issued' = issued
  BY DEF InsertAlarm
<1>3. IdsAreKeys'
  BY <1>1 DEF Inserted, IdsAreKeys, Table
<1>4. EverySetHasEnds'
  BY <1>1, NewRowKeepsEnds DEF Inserted, AnyClockInv, EverySetHasEnds
<1>5. DecisionsAreAboutDecidedRows'
  BY <1>1, <1>2 DEF Inserted, AnyClockInv, DecisionsAreAboutDecidedRows, Incidents, About
<1>6. DecidedIsChained'
  BY <1>1 DEF Inserted, AnyClockInv, DecidedIsChained
<1>7. \A r, s \in alarms : SameChain(alarms, r, s) => SameChain(alarms', r, s)
  BY <1>1, NewRowSeparatesNone DEF Inserted, AnyClockInv, EverySetHasEnds, SameChain
<1>8. DecidedChainHasDecision'
  BY <1>1, <1>2, <1>7 DEF Inserted, AnyClockInv, DecidedChainHasDecision, Incidents, About
<1> QED
  BY <1>3, <1>4, <1>5, <1>6, <1>8 DEF AnyClockInv

(* What RunScheduling does to the alarms, and the decisions it adds.       *)
LEMMA PassMarks ==
    ASSUME AnyClockInv, TypeOK', RunScheduling
    PROVE  /\ Table(alarms) /\ Table(alarms')
           /\ \A a \in alarms : \E b \in alarms' : Marked(a, b)
           /\ \A b \in alarms' : \E a \in alarms : Marked(a, b)
           /\ \A r, s \in alarms : \A u, v \in alarms' :
                 Marked(r, u) /\ Marked(s, v) =>
                    (SameChain(alarms', u, v) <=> SameChain(alarms, r, s))
<1>1. Table(alarms)
  BY AlarmsAreTable DEF AnyClockInv
<1>2. alarms' = MarkAll(alarms)
  BY DEF RunScheduling
<1>3. /\ \A a \in alarms : \E b \in alarms' : Marked(a, b)
      /\ \A b \in alarms' : \E a \in alarms : Marked(a, b)
  BY <1>2, MarkAllMarks DEF AnyClockInv, TypeOK
<1>4. IdsAreKeys'
  <2> DEFINE M(a) == [a EXCEPT !.chained = TRUE, !.decided = TRUE]
  <2>1. alarms' = {M(a) : a \in alarms}
    BY <1>2 DEF MarkAll
  <2>2. \A a \in alarms : M(a).id = a.id
    BY DEF AnyClockInv, TypeOK, Alarm
  <2> HIDE DEF M
  <2>3. ASSUME NEW u \in alarms', NEW v \in alarms', u.id = v.id PROVE u = v
    <3>1. PICK a \in alarms : u = M(a)
      BY <2>1
    <3>2. PICK b \in alarms : v = M(b)
      BY <2>1
    <3> QED
      BY <2>2, <2>3, <3>1, <3>2, <1>1 DEF Table
  <2> QED
    BY <2>3 DEF IdsAreKeys
<1>5. Table(alarms')
  BY <1>1, <1>3, <1>4 DEF Table, IdsAreKeys, Marked
<1>6. \A r, s \in alarms : \A u, v \in alarms' : Marked(r, u) /\ Marked(s, v) =>
        (SameChain(alarms', u, v) <=> SameChain(alarms, r, s))
  BY <1>1, <1>3, <1>5, MarkingLeavesChains
<1> QED
  BY <1>1, <1>3, <1>5, <1>6

LEMMA PassDecides ==
    ASSUME RunScheduling
    PROVE  /\ Incidents \subseteq Incidents'
           /\ \A d \in Incidents' : d \in Incidents \/
                 \E r \in ToDecide(alarms) : About(d, r) /\ d \notin Incidents /\
                    d = [type |-> "INCIDENT", row |-> r.id, pass |-> pass']
           /\ \A r \in ToDecide(alarms) : \E d \in Incidents' : About(d, r)
<1>1. Incidents \subseteq Incidents'
  BY DEF RunScheduling, Incidents
<1>2. \A d \in Incidents' : d \in Incidents \/
        \E r \in ToDecide(alarms) : About(d, r) /\ d \notin Incidents /\
           d = [type |-> "INCIDENT", row |-> r.id, pass |-> pass']
  BY DEF RunScheduling, AlarmDecisions, TicketDecisions, Incidents, About
<1>3. ASSUME NEW r \in ToDecide(alarms)
      PROVE  \E d \in Incidents' : About(d, r)
  <2> DEFINE e == [type |-> "INCIDENT", row |-> r.id, pass |-> pass']
  <2>1. e \in AlarmDecisions(alarms, pass')
    BY DEF AlarmDecisions
  <2>2. e \in Incidents'
    BY <2>1 DEF RunScheduling, Incidents
  <2> QED
    BY <2>2 DEF About
<1> QED
  BY <1>1, <1>2, <1>3

(* A pass: chains stay, every row is marked, and the decisions added are   *)
(* about the newest rows of the chains that had none.                      *)
LEMMA RunSchedulingKeepsAnyClockInv ==
    ASSUME AnyClockInv, TypeOK', RunScheduling
    PROVE  AnyClockInv'
<1>1. Table(alarms) /\ Table(alarms')
  BY PassMarks
<1>2. ToDecide(alarms) \subseteq alarms
  BY DEF ToDecide
<1>3. /\ \A a \in alarms : \E b \in alarms' : Marked(a, b)
      /\ \A b \in alarms' : \E a \in alarms : Marked(a, b)
  BY PassMarks
<1>4. \A r, s \in alarms : \A u, v \in alarms' : Marked(r, u) /\ Marked(s, v) =>
        (SameChain(alarms', u, v) <=> SameChain(alarms, r, s))
  BY PassMarks
<1>5. DecisionsAreAboutDecidedRows'
  <2> SUFFICES ASSUME NEW d \in Incidents'
               PROVE  \E u \in alarms' : About(d, u) /\ u.decided
    BY DEF DecisionsAreAboutDecidedRows
  <2>1. PICK r \in alarms : About(d, r)
    BY <1>2, PassDecides DEF AnyClockInv, DecisionsAreAboutDecidedRows
  <2> QED
    BY <2>1, <1>3 DEF Marked, About
<1>6. EverySetHasEnds'
  <2> SUFFICES ASSUME NEW some \in SUBSET alarms', some # {} PROVE HasEnds(some)
    BY DEF EverySetHasEnds
  <2> DEFINE were == {a \in alarms : \E b \in some : Marked(a, b)}
  <2>1. /\ \A b \in some : \E a \in were : Marked(a, b)
        /\ \A a \in were : \E b \in some : Marked(a, b)
    BY <1>3
  <2>2. HasEnds(were)
    BY <2>1 DEF AnyClockInv, EverySetHasEnds
  <2> HIDE DEF were
  <2> QED
    BY <2>1, <2>2 DEF HasEnds, Before, Marked
<1>7. DecidedChainHasDecision'
  <2> SUFFICES ASSUME NEW u \in alarms'
               PROVE  \E d \in Incidents' : \E v \in alarms' :
                         About(d, v) /\ SameChain(alarms', u, v)
    BY DEF DecidedChainHasDecision
  <2>1. PICK r \in alarms : Marked(r, u)
    BY <1>3
  <2>2. \E d \in Incidents' : \E s \in alarms : About(d, s) /\ SameChain(alarms, r, s)
    <3>1. CASE AlreadyDecided(alarms, r)
      <4>1. PICK t \in alarms : SameChain(alarms, r, t) /\ t.decided
        BY <3>1 DEF AlreadyDecided, ChainOf
      <4>2. PICK d \in Incidents : \E s \in alarms :
               About(d, s) /\ SameChain(alarms, t, s)
        BY <4>1 DEF AnyClockInv, DecidedChainHasDecision
      <4> QED
        BY <4>1, <4>2, <1>1, PassDecides, SameChainIsEquivalence
    <3>2. CASE ~ AlreadyDecided(alarms, r)
      <4>1. PICK s \in alarms : SameChain(alarms, r, s) /\ NewestOfChain(alarms, s)
        BY <1>1, ChainHasNewest DEF AnyClockInv, EverySetHasEnds
      <4>2. s \in ToDecide(alarms)
        BY <1>1, <3>2, <4>1, SameChainIsEquivalence
           DEF ToDecide, AlreadyDecided, ChainOf
      <4> QED
        BY <4>1, <4>2, PassDecides
    <3> QED
      BY <3>1, <3>2
  <2>3. PICK d \in Incidents', s \in alarms : About(d, s) /\ SameChain(alarms, r, s)
    BY <2>2
  <2>4. PICK v \in alarms' : Marked(s, v)
    BY <1>3
  <2> QED
    BY <1>4, <2>1, <2>3, <2>4 DEF About, Marked
<1>8. DecidedIsChained' /\ IdsAreKeys'
  BY <1>1, <1>3 DEF DecidedIsChained, Marked, IdsAreKeys, Table
<1> QED
  BY <1>5, <1>6, <1>7, <1>8 DEF AnyClockInv

LEMMA AnyClockInvInit == Init => AnyClockInv
BY TypeOKInit DEF Init, AnyClockInv, IdsAreKeys, DecidedIsChained,
      DecisionsAreAboutDecidedRows, EverySetHasEnds, DecidedChainHasDecision, Incidents

LEMMA AnyClockInvStep == AnyClockInv /\ [Next]_vars => AnyClockInv'
<1> SUFFICES ASSUME AnyClockInv, [Next]_vars PROVE AnyClockInv'
  OBVIOUS
<1>0. TypeOK'
  BY TypeOKStep DEF AnyClockInv
<1>1. ASSUME NEW acct \in Accounts, InsertAlarm(acct) PROVE AnyClockInv'
  BY <1>0, <1>1, InsertAlarmKeepsAnyClockInv
<1>2. ASSUME RunScheduling PROVE AnyClockInv'
  BY <1>0, <1>2, RunSchedulingKeepsAnyClockInv
<1>3. CASE UNCHANGED <<alarms, issued>>
  BY <1>0, <1>3 DEF AnyClockInv, IdsAreKeys, DecidedIsChained,
        DecisionsAreAboutDecidedRows, EverySetHasEnds, DecidedChainHasDecision, Incidents
<1> QED
  BY <1>1, <1>2, <1>3 DEF Next, vars, InsertTicket, Tick

(***************************************************************************)
(* Wherever the clock puts the new rows, the chain of a row marked as      *)
(* decided did have its decision returned: what RunScheduling marks is     *)
(* never lost, also when chains grow together around rows that were        *)
(* inserted between old ones.                                              *)
(***************************************************************************)
THEOREM AtLeastOnce == Spec => []DecidedChainHasDecision
<1>1. AnyClockInv => DecidedChainHasDecision
  BY DEF AnyClockInv
<1> QED
  BY <1>1, AnyClockInvInit, AnyClockInvStep, PTL DEF Spec

(* A pass over tables without an undecided row returns nothing and writes  *)
(* nothing.                                                                *)
THEOREM Idempotent == Spec => PassIsIdempotent
<1> DEFINE Quiet == (\A r \in alarms \cup tickets : r.decided) /\ pass' # pass
                       => UNCHANGED <<alarms, tickets, issued>>
<1>1. AnyClockInv /\ [Next]_vars => [Quiet]_vars
  <2> SUFFICES ASSUME AnyClockInv, Next, \A r \in alarms \cup tickets : r.decided,
                      pass' # pass
               PROVE  UNCHANGED <<alarms, tickets, issued>>
    OBVIOUS
  <2>1. RunScheduling
    BY DEF Next, InsertAlarm, InsertTicket, Tick
  <2>2. \A r \in alarms : [r EXCEPT !.chained = TRUE, !.decided = TRUE] = r
    BY DEF AnyClockInv, DecidedIsChained, TypeOK, Alarm
  <2>3. alarms' = alarms
    BY <2>1, <2>2 DEF RunScheduling, MarkAll
  <2>4. \A t \in tickets : [t EXCEPT !.decided = TRUE] = t
    BY DEF AnyClockInv, TypeOK, Ticket
  <2>5. tickets' = tickets
    BY <2>1, <2>4 DEF RunScheduling
  <2>6. ToDecide(alarms) = {}
    BY AlarmsAreTable, SameChainIsEquivalence
       DEF AnyClockInv, ToDecide, AlreadyDecided, ChainOf
  <2>7. AlarmDecisions(alarms, pass') = {} /\ TicketDecisions(tickets, pass') = {}
    BY <2>6 DEF AlarmDecisions, TicketDecisions
  <2> QED
    BY <2>1, <2>3, <2>5, <2>7 DEF RunScheduling
<1> QED
  BY <1>1, AnyClockInvInit, AnyClockInvStep, PTL DEF Spec, PassIsIdempotent

-----------------------------------------------------------------------------
(* Alarms, under a clock that is never set back.                           *)

(* Inserting an alarm: the new row is the last of its account, so that the *)
(* chains of the old rows stay apart as well.                              *)
LEMMA InsertAlarmKeepsAlarmInv ==
    ASSUME AlarmInv, AnyClockInv', NEW acct \in Accounts, InsertAlarm(acct)
    PROVE  AlarmInv'
<1>1. PICK n : Inserted(n)
  BY InsertAlarmInserts DEF AlarmInv
<1>2. issued' = issued /\ now' = now
  BY DEF InsertAlarm
<1>3. now \in Nat
  BY SchedulerAssumption DEF AlarmInv, AnyClockInv, TypeOK
<1>4. \A r \in alarms : r.id < n.id /\ r.at <= n.at
  BY <1>1 DEF Inserted, AlarmInv, RowsNotInFuture
<1>5. \A r \in alarms : ~ Before(n, r)
  BY <1>1, <1>4 DEF Inserted, Table, Before
<1>6. \A r, s \in alarms : SameChain(alarms', r, s) <=> SameChain(alarms, r, s)
  BY <1>1, <1>5, NewRowLeavesChains DEF Inserted
<1>7. RowsInOrder'
  BY <1>1, <1>4 DEF Inserted, Table, AlarmInv, RowsInOrder
<1>8. RowsNotInFuture'
  BY <1>1, <1>2, <1>3 DEF Inserted, AlarmInv, RowsNotInFuture
<1>9. OneDecisionPerChain'
  BY <1>1, <1>2, <1>6 DEF Inserted, AlarmInv, OneDecisionPerChain, Incidents, About
<1> QED
  BY <1>7, <1>8, <1>9 DEF AlarmInv

LEMMA RunSchedulingKeepsAlarmInv ==
    ASSUME AlarmInv, AnyClockInv', RunScheduling
    PROVE  AlarmInv'
<1> USE DEF AlarmInv
<1>1. TypeOK' /\ AnyClockInv
  BY DEF AnyClockInv
<1>2. Table(alarms) /\ ToDecide(alarms) \subseteq alarms
  BY <1>1, PassMarks DEF ToDecide
<1>3. \A b \in alarms' : \E a \in alarms : Marked(a, b)
  BY <1>1, PassMarks
<1>4. RowsInOrder' /\ RowsNotInFuture'
  BY <1>3 DEF RowsInOrder, RowsNotInFuture, Marked, RunScheduling
<1>5. OneDecisionPerChain'
  <2> SUFFICES ASSUME NEW d \in Incidents', NEW e \in Incidents',
                      NEW u \in alarms', NEW v \in alarms',
                      About(d, u), About(e, v), SameChain(alarms', u, v)
               PROVE  d = e
    BY DEF OneDecisionPerChain
  <2>1. PICK r \in alarms : Marked(r, u)
    BY <1>3
  <2>2. PICK s \in alarms : Marked(s, v)
    BY <1>3
  <2>3. About(d, r) /\ About(e, s)
    BY <2>1, <2>2 DEF About, Marked
  <2>4. SameChain(alarms, r, s) /\ SameChain(alarms, s, r)
    BY <1>1, <1>2, <2>1, <2>2, PassMarks, SameChainIsEquivalence
  <2>5. \A f \in Incidents : \A t \in alarms : About(f, t) => t.decided
    BY <1>1, <1>2 DEF AnyClockInv, DecisionsAreAboutDecidedRows, About, Table
  <2>6. \A f \in Incidents' : \A t \in alarms : About(f, t) /\ f \notin Incidents =>
          /\ t \in ToDecide(alarms)
          /\ f = [type |-> "INCIDENT", row |-> t.id, pass |-> pass']
    BY <1>2, PassDecides DEF About, Table
  <2>7. CASE d \in Incidents /\ e \in Incidents
    BY <2>3, <2>4, <2>7 DEF OneDecisionPerChain
  <2>8. CASE d \in Incidents /\ e \notin Incidents
    BY <2>3, <2>4, <2>5, <2>6, <2>8 DEF ToDecide, AlreadyDecided, ChainOf
  <2>9. CASE d \notin Incidents /\ e \in Incidents
    BY <2>3, <2>4, <2>5, <2>6, <2>9 DEF ToDecide, AlreadyDecided, ChainOf
  <2>10. CASE d \notin Incidents /\ e \notin Incidents
    BY <1>2, <2>3, <2>4, <2>6, <2>10, NewestIsUnique DEF ToDecide
  <2> QED
    BY <2>7, <2>8, <2>9, <2>10
<1> QED
  BY <1>4, <1>5

LEMMA AlarmInvInit == Init => AlarmInv
BY AnyClockInvInit DEF Init, AlarmInv, RowsInOrder, RowsNotInFuture,
      OneDecisionPerChain, Incidents

LEMMA AlarmInvStep ==
    ASSUME StepBack = 0
    PROVE  AlarmInv /\ [Next]_vars => AlarmInv'
<1> SUFFICES ASSUME AlarmInv, [Next]_vars PROVE AlarmInv'
  OBVIOUS
<1>0. AnyClockInv'
  BY AnyClockInvStep DEF AlarmInv
<1>1. ASSUME NEW acct \in Accounts, InsertAlarm(acct) PROVE AlarmInv'
  BY <1>0, <1>1, InsertAlarmKeepsAlarmInv
<1>2. ASSUME RunScheduling PROVE AlarmInv'
  BY <1>0, <1>2, RunSchedulingKeepsAlarmInv
<1>3. ASSUME Tick PROVE AlarmInv'
  <2>1. RowsNotInFuture'
    <3>1. Table(alarms) /\ now \in Nat
      BY AlarmsAreTable, SchedulerAssumption DEF AlarmInv, AnyClockInv, TypeOK
    <3> QED
      BY <1>3, <3>1 DEF Tick, AlarmInv, RowsNotInFuture, Table
  <2> QED
    BY <1>0, <1>3, <2>1 DEF Tick, AlarmInv, RowsInOrder, OneDecisionPerChain, Incidents
<1>4. CASE UNCHANGED <<alarms, issued, now>>
  BY <1>0, <1>4 DEF AlarmInv, RowsInOrder, RowsNotInFuture, OneDecisionPerChain, Incidents
<1> QED
  BY <1>1, <1>2, <1>3, <1>4 DEF Next, vars, InsertTicket

(* The whole inductive invariant: the tables a pass reads, after any       *)
(* sequence of inserts, passes and restarts, are what the proofs about     *)
(* decisions take them to be.                                              *)
THEOREM Invariance ==
    ASSUME StepBack = 0
    PROVE  Spec => []IInv
<1>1. AlarmInv /\ [Next]_vars => AlarmInv'
  BY AlarmInvStep
<1>2. AlarmInv /\ TInv => IInv
  BY DEF IInv
<1> QED
  BY <1>1, <1>2, AlarmInvInit, TicketInvariance, PTL DEF Spec

(* However alarms, passes and restarts interleave, no chain of alarms is   *)
(* handed out twice.                                                       *)
THEOREM AtMostOnce ==
    ASSUME StepBack = 0
    PROVE  Spec => []OneDecisionPerChain
<1>1. IInv => OneDecisionPerChain
  BY DEF IInv, AlarmInv
<1> QED
  BY <1>1, Invariance, PTL

(* No row of either table ever has two decisions, whatever the clock does. *)
THEOREM RowsAreDecidedOnce == Spec => []OneDecisionPerRow
<1>1. Init => OneDecisionPerRow
  BY DEF Init, OneDecisionPerRow
<1>2. AnyClockInv /\ TInv /\ TInv' /\ OneDecisionPerRow /\ [Next]_vars
        => OneDecisionPerRow'
  <2> SUFFICES ASSUME AnyClockInv, TInv, TInv', OneDecisionPerRow, [Next]_vars
               PROVE  OneDecisionPerRow'
    OBVIOUS
  <2>1. CASE UNCHANGED issued
    BY <2>1 DEF OneDecisionPerRow
  <2>2. CASE RunScheduling
    <3> DEFINE Alarms == AlarmDecisions(alarms, pass')
               Tickets == TicketDecisions(tickets, pass')
    <3>1. issued' = issued \cup Alarms \cup Tickets
      BY <2>2 DEF RunScheduling
    <3>2. ASSUME NEW d \in Alarms, NEW e \in issued, e.type = "INCIDENT", e.row = d.row
          PROVE  FALSE
      <4>1. PICK r \in ToDecide(alarms) : d.row = r.id
        BY DEF AlarmDecisions
      <4>2. r \in alarms /\ ~ r.decided
        <5>1. r \in alarms /\ SameChain(alarms, r, r)
          BY AlarmsAreTable, SameChainIsEquivalence DEF AnyClockInv, ToDecide
        <5> QED
          BY <5>1 DEF ToDecide, AlreadyDecided, ChainOf
      <4>3. PICK s \in alarms : e.row = s.id /\ s.decided
        BY <3>2 DEF AnyClockInv, DecisionsAreAboutDecidedRows, Incidents, About
      <4> QED
        BY <3>2, <4>1, <4>2, <4>3 DEF AnyClockInv, IdsAreKeys
    <3>3. \A d \in Alarms : \E r \in alarms :
             d = [type |-> "INCIDENT", row |-> r.id, pass |-> pass']
      BY DEF AlarmDecisions, ToDecide
    <3>4. \A d \in Tickets : d.type = "TICKET"
      BY DEF TicketDecisions
    <3>5. \A d, e \in issued' : d.type = "TICKET" /\ e.type = "TICKET" /\ d.row = e.row
             => d = e
      BY DEF TInv, TicketDecidedOnce
    <3>6. \A d \in issued' : d.type \in {"INCIDENT", "TICKET"}
      BY DEF TInv, TypeOK, Decision
    <3> HIDE DEF Alarms, Tickets
    <3> SUFFICES ASSUME NEW d \in issued', NEW e \in issued',
                        d.type = e.type, d.row = e.row
                 PROVE  d = e
      BY DEF OneDecisionPerRow
    <3>7. CASE d.type = "TICKET"
      BY <3>5, <3>7
    <3>8. CASE d.type = "INCIDENT"
      <4>1. d \in issued \cup Alarms /\ e \in issued \cup Alarms
        BY <3>1, <3>4, <3>8
      <4>2. CASE d \in issued /\ e \in issued
        BY <4>2 DEF OneDecisionPerRow
      <4>3. CASE d \in Alarms /\ e \in Alarms
        BY <3>3, <4>3
      <4> QED
        BY <3>2, <3>8, <4>1, <4>2, <4>3
    <3> QED
      BY <3>6, <3>7, <3>8
  <2> QED
    BY <2>1, <2>2 DEF Next, vars, InsertAlarm, InsertTicket, Tick
<1>3. Spec => []AnyClockInv
  BY AnyClockInvInit, AnyClockInvStep, PTL DEF Spec
<1> QED
  BY <1>1, <1>2, <1>3, TicketInvariance, PTL DEF Spec

(* Two agents are never started for alarms of one account that are within  *)
(* the chain window of each other.                                         *)
THEOREM Apart ==
    ASSUME StepBack = 0
    PROVE  Spec => []DecisionsAreApart
<1>1. IInv => DecisionsAreApart
  <2> SUFFICES ASSUME AlarmInv, NEW d \in Incidents, NEW e \in Incidents,
                      NEW r \in alarms, NEW s \in alarms,
                      About(d, r), About(e, s), r.acct = s.acct, Linked(r, s)
               PROVE  d = e
    BY DEF DecisionsAreApart, IInv
  <2>1. SameChain(alarms, r, s)
    BY AlarmsAreTable, LinkedRowsShareChain DEF AlarmInv, AnyClockInv
  <2> QED
    BY <2>1 DEF AlarmInv, OneDecisionPerChain
<1> QED
  BY <1>1, Invariance, PTL

=============================================================================
