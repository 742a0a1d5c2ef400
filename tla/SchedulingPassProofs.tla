------------------------- MODULE SchedulingPassProofs -------------------------
(***************************************************************************)
(* The walk of scheduleAlarms over the sorted rows, with its flushes, the  *)
(* loop over the tickets, the commit and the rollback, implements the one  *)
(* step RunScheduling of Scheduler, for every table, every order of        *)
(* accounts, every chain window and every clock.                           *)
(***************************************************************************)
EXTENDS SchedulingPass, SchedulerProofs, SequenceTheorems

-----------------------------------------------------------------------------
(* Sequences and the rows in them.                                         *)

LEMMA HeadAndTail ==
    ASSUME NEW S, NEW seq \in Seq(S), seq # <<>>
    PROVE  /\ Head(seq) \in S /\ Tail(seq) \in Seq(S)
           /\ Range(seq) = {Head(seq)} \cup Range(Tail(seq))
           /\ Sorted(seq) => /\ Sorted(Tail(seq))
                             /\ \A r \in Range(Tail(seq)) : Less(Head(seq), r)
<1>1. /\ Len(seq) \in Nat \ {0} /\ DOMAIN seq = 1 .. Len(seq)
      /\ Head(seq) = seq[1] /\ Head(seq) \in S
      /\ Tail(seq) \in Seq(S) /\ Len(Tail(seq)) = Len(seq) - 1
      /\ \A i \in 1 .. Len(Tail(seq)) : Tail(seq)[i] = seq[i + 1]
  BY HeadTailProperties, EmptySeq
<1>2. DOMAIN Tail(seq) = 1 .. Len(seq) - 1
  BY <1>1
<1>3. \A i \in DOMAIN seq : i = 1 \/ (i - 1 \in DOMAIN Tail(seq) /\ seq[i] = Tail(seq)[i - 1])
  BY <1>1, <1>2
<1>4. Range(seq) = {Head(seq)} \cup Range(Tail(seq))
  <2>1. \A i \in DOMAIN Tail(seq) : Tail(seq)[i] = seq[i + 1] /\ i + 1 \in DOMAIN seq
    BY <1>1, <1>2
  <2>2. Range(Tail(seq)) \subseteq Range(seq)
    BY <2>1 DEF Range
  <2>3. Head(seq) \in Range(seq)
    BY <1>1 DEF Range
  <2>4. \A i \in DOMAIN seq : seq[i] \in {Head(seq)} \cup Range(Tail(seq))
    BY <1>1, <1>3 DEF Range
  <2>5. Range(seq) \subseteq {Head(seq)} \cup Range(Tail(seq))
    BY <2>4 DEF Range
  <2> QED
    BY <2>2, <2>3, <2>5
<1>5. ASSUME Sorted(seq)
      PROVE  Sorted(Tail(seq)) /\ \A r \in Range(Tail(seq)) : Less(Head(seq), r)
  <2>1. Sorted(Tail(seq))
    BY <1>1, <1>2, <1>5 DEF Sorted
  <2>2. \A i \in DOMAIN Tail(seq) : Less(Head(seq), Tail(seq)[i])
    BY <1>1, <1>2, <1>5 DEF Sorted
  <2> QED
    BY <2>1, <2>2 DEF Range
<1> QED
  BY <1>1, <1>4, <1>5

LEMMA AppendRow ==
    ASSUME NEW S, NEW seq \in Seq(S), NEW x \in S
    PROVE  /\ Append(seq, x) \in Seq(S) /\ Append(seq, x) # <<>>
           /\ Range(Append(seq, x)) = Range(seq) \cup {x}
           /\ Sorted(seq) /\ (\A r \in Range(seq) : Less(r, x))
                 => Sorted(Append(seq, x))
<1> DEFINE longer == Append(seq, x)
<1>1. /\ Len(seq) \in Nat /\ DOMAIN seq = 1 .. Len(seq)
      /\ longer \in Seq(S) /\ Len(longer) = Len(seq) + 1
      /\ DOMAIN longer = 1 .. Len(seq) + 1
      /\ \A i \in 1 .. Len(seq) : longer[i] = seq[i]
      /\ longer[Len(seq) + 1] = x
  BY AppendProperties, LenProperties
<1> HIDE DEF longer
<1>2. longer # <<>>
  BY <1>1
<1>3. Range(longer) = Range(seq) \cup {x}
  BY <1>1 DEF Range
<1>4. ASSUME Sorted(seq), \A r \in Range(seq) : Less(r, x)
      PROVE  Sorted(longer)
  <2> SUFFICES ASSUME NEW i \in DOMAIN longer, NEW j \in DOMAIN longer, i < j
               PROVE  Less(longer[i], longer[j])
    BY DEF Sorted
  <2>1. i \in DOMAIN seq /\ longer[i] = seq[i]
    BY <1>1
  <2>2. CASE j = Len(seq) + 1
    BY <1>1, <1>4, <2>1, <2>2 DEF Range
  <2>3. CASE j # Len(seq) + 1
    BY <1>1, <1>4, <2>1, <2>3 DEF Sorted
  <2> QED
    BY <2>2, <2>3
<1> QED
  BY <1>1, <1>2, <1>3, <1>4 DEF longer

LEMMA OneRow ==
    ASSUME NEW S, NEW x \in S
    PROVE  /\ <<x>> \in Seq(S) /\ <<x>> # <<>>
           /\ Range(<<x>>) = {x}
           /\ Sorted(<<x>>)
BY DEF Range, Sorted

LEMMA NoRow ==
    ASSUME NEW S
    PROVE  <<>> \in Seq(S) /\ Range(<<>>) = {} /\ Sorted(<<>>)
BY DEF Range, Sorted

LEMMA LastRow ==
    ASSUME NEW S, NEW seq \in Seq(S), seq # <<>>, Sorted(seq)
    PROVE  /\ seq[Len(seq)] \in Range(seq)
           /\ \A r \in Range(seq) : r = seq[Len(seq)] \/ Less(r, seq[Len(seq)])
<1>1. Len(seq) \in Nat \ {0} /\ DOMAIN seq = 1 .. Len(seq)
  BY EmptySeq, LenProperties
<1> QED
  BY <1>1 DEF Range, Sorted

LEMMA RowsOfSeq ==
    ASSUME NEW S, NEW seq \in Seq(S)
    PROVE  /\ Range(seq) \subseteq S
           /\ seq # <<>> => Range(seq) # {}
<1>1. Len(seq) \in Nat /\ DOMAIN seq = 1 .. Len(seq)
  BY LenProperties
<1>2. \A i \in 1 .. Len(seq) : seq[i] \in S
  BY ElementOfSeq
<1>3. Range(seq) \subseteq S
  BY <1>1, <1>2 DEF Range
<1>4. seq # <<>> => Len(seq) \in Nat \ {0}
  BY EmptySeq
<1>5. seq # <<>> => seq[1] \in Range(seq)
  BY <1>1, <1>4 DEF Range
<1> QED
  BY <1>3, <1>5

(* The order of the sort is total, and within an account it is Before.     *)
LEMMA LessIsOrder ==
    ASSUME NEW table, Table(table), \A r \in table : r.acct \in Accounts
    PROVE  /\ \A r \in table : ~ Less(r, r)
           /\ \A r, s, t \in table : Less(r, s) /\ Less(s, t) => Less(r, t)
           /\ \A r, s \in table : r = s \/ Less(r, s) \/ Less(s, r)
           /\ \A r, s \in table : r.acct = s.acct => (Less(r, s) <=> Before(r, s))
           /\ \A r, s, t \in table : Less(r, s) /\ Less(s, t) /\ r.acct = t.acct
                 => r.acct = s.acct
<1> USE SortKeyAssumption DEF Table, Less, Before
<1>1. \A r \in table : SortKey[r.acct] \in Nat
  OBVIOUS
<1>2. \A r, s \in table : SortKey[r.acct] = SortKey[s.acct] <=> r.acct = s.acct
  OBVIOUS
<1>3. \A r \in table : ~ Less(r, r)
  BY <1>1
<1>4. \A r, s, t \in table : Less(r, s) /\ Less(s, t) => Less(r, t)
  BY <1>1, <1>2
<1>5. \A r, s \in table : r = s \/ Less(r, s) \/ Less(s, r)
  BY <1>1, <1>2
<1>6. \A r, s \in table : r.acct = s.acct => (Less(r, s) <=> Before(r, s))
  BY <1>1, <1>2
<1>7. \A r, s, t \in table : Less(r, s) /\ Less(s, t) /\ r.acct = t.acct
         => r.acct = s.acct
  BY <1>1, <1>2
<1> QED
  BY <1>3, <1>4, <1>5, <1>6, <1>7

-----------------------------------------------------------------------------
(* The walk and the chains.  h is the row the walk reaches, p the one just *)
(* before it in the sorted order.                                          *)

LEMMA RowsAreAlarms ==
    ASSUME AnyClockInv
    PROVE  /\ Table(alarms) /\ alarms \subseteq Alarm
           /\ \A r \in alarms : r.acct \in Accounts
<1>1. alarms \subseteq Alarm
  BY DEF AnyClockInv, TypeOK
<1>2. \A r \in alarms : r.acct \in Accounts
  BY <1>1 DEF Alarm
<1> QED
  BY <1>1, <1>2, AlarmsAreTable DEF AnyClockInv

(* Where the row before does not link to h, no earlier row does: those are *)
(* further away.  So the walk starts a chain only where one starts.        *)
LEMMA BrokenLinkStartsChain ==
    ASSUME AnyClockInv, NEW h \in alarms, NEW p \in alarms, Less(p, h),
           \A r \in alarms : Less(r, h) => r = p \/ Less(r, p),
           ~ (p.acct = h.acct /\ alarmRowsAreChained(p, h))
    PROVE  Starts(alarms, h)
<1> SUFFICES ASSUME NEW r \in alarms, Before(r, h), Linked(r, h) PROVE FALSE
  BY DEF Starts
<1>1. Less(r, h) /\ r.acct = h.acct
  BY DEF Before, Less
<1>2. p.acct = h.acct
  BY <1>1, LessIsOrder, RowsAreAlarms
<1>3. r = p \/ Before(r, p)
  BY <1>1, <1>2, LessIsOrder, RowsAreAlarms
<1>4. Before(p, h)
  BY <1>2, LessIsOrder, RowsAreAlarms
<1>5. Linked(p, h)
  BY <1>3, <1>4, RowsAreAlarms, WindowAssumption DEF Before, Linked, Table
<1> QED
  BY <1>2, <1>5 DEF Linked, alarmRowsAreChained

LEMMA LinkedRowStartsNone ==
    ASSUME AnyClockInv, NEW h \in alarms, NEW p \in alarms, Less(p, h),
           p.acct = h.acct, alarmRowsAreChained(p, h)
    PROVE  Before(p, h) /\ ~ Starts(alarms, h)
<1>1. Before(p, h)
  BY LessIsOrder, RowsAreAlarms
<1> QED
  BY <1>1 DEF Starts, Linked, alarmRowsAreChained

(* The current chain, when the walk flushes it: done are the rows before   *)
(* it, and ahead those after it, the first of which starts a chain.        *)
CompleteChain(done, chain, ahead) ==
    /\ alarms = done \cup chain \cup ahead
    /\ \A r \in done, s \in chain : Less(r, s)
    /\ \E r \in chain :
          /\ Starts(alarms, r)
          /\ \A s \in chain \ {r} : Before(r, s) /\ ~ Starts(alarms, s)
    /\ \A s \in ahead : \E h \in ahead :
          /\ Starts(alarms, h) /\ (s = h \/ Less(h, s))
          /\ \A r \in chain : Less(r, h)

(* It is one of the chains that AlarmChains defines, all of it.            *)
LEMMA CompleteChainIsChain ==
    ASSUME AnyClockInv, NEW done, NEW chain, NEW ahead,
           CompleteChain(done, chain, ahead)
    PROVE  \A c \in chain : ChainOf(alarms, c) = chain
<1> USE RowsAreAlarms
<1>1. chain \subseteq alarms /\ done \subseteq alarms /\ ahead \subseteq alarms
  BY DEF CompleteChain
<1>2. PICK first \in chain :
        /\ Starts(alarms, first)
        /\ \A s \in chain \ {first} : Before(first, s) /\ ~ Starts(alarms, s)
  BY DEF CompleteChain
<1>3. \A c \in chain : c.acct = first.acct /\ NotAfter(first, c)
  BY <1>2 DEF Before, NotAfter
<1>4. ASSUME NEW c \in chain, NEW s \in done PROVE ~ SameChain(alarms, c, s)
  <2> SUFFICES ASSUME SameChain(alarms, c, s) PROVE FALSE
    OBVIOUS
  <2>1. Less(s, c) /\ Less(s, first)
    BY <1>2, <1>4 DEF CompleteChain
  <2>2. s.acct = c.acct /\ s.acct = first.acct
    BY <1>1, <1>3, <1>4, SameChainIsEquivalence
  <2>3. Before(s, c) /\ Before(s, first)
    BY <1>1, <1>2, <1>4, <2>1, <2>2, LessIsOrder
  <2>4. ~ Reaches(alarms, c, s)
    BY <1>1, <1>4, <2>3, BeforeIsOrder DEF Reaches
  <2>5. ~ Reaches(alarms, s, c)
    BY <1>1, <1>2, <1>3, <2>3 DEF Reaches
  <2> QED
    BY <2>4, <2>5 DEF SameChain
<1>5. ASSUME NEW c \in chain, NEW s \in ahead PROVE ~ SameChain(alarms, c, s)
  <2> SUFFICES ASSUME SameChain(alarms, c, s) PROVE FALSE
    OBVIOUS
  <2>1. PICK h \in ahead : /\ Starts(alarms, h) /\ (s = h \/ Less(h, s))
                           /\ Less(c, h)
    BY DEF CompleteChain
  <2>2. s.acct = c.acct
    BY <1>1, <1>5, SameChainIsEquivalence
  <2>3. h.acct = c.acct /\ Less(c, s)
    BY <1>1, <1>5, <2>1, <2>2, LessIsOrder
  <2>4. Before(c, h) /\ Before(c, s) /\ NotAfter(h, s)
    BY <1>1, <1>5, <2>1, <2>2, <2>3, LessIsOrder DEF NotAfter
  <2>5. ~ Reaches(alarms, s, c)
    BY <1>1, <1>5, <2>4, BeforeIsOrder DEF Reaches
  <2>6. ~ Reaches(alarms, c, s)
    BY <1>1, <2>1, <2>4 DEF Reaches
  <2> QED
    BY <2>5, <2>6 DEF SameChain
<1>6. ASSUME NEW c \in chain, NEW s \in chain, NotAfter(c, s)
      PROVE  Reaches(alarms, c, s)
  <2> SUFFICES ASSUME NEW t \in alarms, Before(c, t), NotAfter(t, s), Starts(alarms, t)
               PROVE  FALSE
    BY <1>6 DEF Reaches
  <2>1. Less(c, t) /\ (t = s \/ Less(t, s))
    BY <1>1, <1>6, BeforeIsOrder, LessIsOrder DEF Before
  <2>2. t \notin done
    BY <1>1, <2>1, LessIsOrder DEF CompleteChain
  <2>3. t \notin ahead
    <3> SUFFICES ASSUME t \in ahead PROVE FALSE
      OBVIOUS
    <3>1. PICK h \in ahead : (t = h \/ Less(h, t)) /\ Less(s, h)
      BY DEF CompleteChain
    <3> QED
      BY <1>1, <2>1, <3>1, LessIsOrder
  <2>4. t = first
    BY <1>2, <2>2, <2>3 DEF CompleteChain
  <2> QED
    BY <1>1, <1>3, <2>4, BeforeIsOrder
<1>7. \A c, s \in chain : SameChain(alarms, c, s)
  <2> SUFFICES ASSUME NEW c \in chain, NEW s \in chain PROVE SameChain(alarms, c, s)
    OBVIOUS
  <2>1. NotAfter(c, s) \/ NotAfter(s, c)
    BY <1>1, <1>3, BeforeIsOrder
  <2> QED
    BY <1>6, <2>1 DEF SameChain
<1>8. alarms = done \cup chain \cup ahead
  BY DEF CompleteChain
<1> QED
  BY <1>4, <1>5, <1>7, <1>8 DEF ChainOf

(* So the decision processAlarmChain makes about it is the one ToDecide    *)
(* asks for.                                                               *)
LEMMA CompleteChainIsDecided ==
    ASSUME AnyClockInv, NEW done, NEW chain, NEW ahead,
           CompleteChain(done, chain, ahead),
           NEW last \in chain, \A r \in chain : r = last \/ Less(r, last)
    PROVE  ToDecide(alarms) \cap chain =
              IF \E r \in chain : r.decided THEN {} ELSE {last}
<1> USE RowsAreAlarms
<1>1. chain \subseteq alarms
  BY DEF CompleteChain
<1>2. \A c \in chain : ChainOf(alarms, c) = chain
  BY CompleteChainIsChain
<1>3. \A c \in chain : AlreadyDecided(alarms, c) <=> \E r \in chain : r.decided
  BY <1>2 DEF AlreadyDecided
<1>4. \A c, d \in chain : c.acct = d.acct
  BY DEF CompleteChain, Before
<1>5. \A c \in chain : NewestOfChain(alarms, c) <=> c = last
  BY <1>1, <1>2, <1>4, LessIsOrder, BeforeIsOrder DEF NewestOfChain
<1> QED
  BY <1>1, <1>3, <1>5 DEF ToDecide

-----------------------------------------------------------------------------
(* The two UPDATE statements of processAlarmChain, run on a transaction in *)
(* which the rows of done are marked, leave those of chain marked as well. *)

LEMMA UpdatesMarkChain ==
    ASSUME alarms \subseteq Alarm, IdsAreKeys,
           NEW done, done \subseteq alarms, NEW chain, chain \subseteq alarms,
           done \cap chain = {},
           NEW unchained, unchained = {r.id : r \in {s \in chain : ~ s.chained}},
           NEW undecided, undecided = {r.id : r \in {s \in chain : ~ s.decided}}
    PROVE  SetSQSAlarmMessageSpawnDecision(
              MarkSQSAlarmMessageChained(MarkSome(alarms, done), unchained), undecided)
                 = MarkSome(alarms, done \cup chain)
<1> DEFINE M(a) == [a EXCEPT !.chained = TRUE, !.decided = TRUE]
           U(a) == [a EXCEPT !.chained = @ \/ a.id \in unchained]
           V(a) == [a EXCEPT !.decided = @ \/ a.id \in undecided]
           some == done \cup chain
<1>1. \A a \in alarms : M(a) \in Alarm /\ V(U(M(a))) = M(a)
  BY DEF Alarm
<1>2. ASSUME NEW a \in chain PROVE V(U(a)) = M(a)
  <2>1. a \in Alarm
    OBVIOUS
  <2>2. a.chained \/ a.id \in unchained
    OBVIOUS
  <2>3. a.decided \/ a.id \in undecided
    OBVIOUS
  <2> QED
    BY <2>1, <2>2, <2>3 DEF Alarm
<1>3. ASSUME NEW a \in alarms, a \notin chain PROVE V(U(a)) = a
  <2>1. a \in Alarm
    OBVIOUS
  <2>2. a.id \notin unchained /\ a.id \notin undecided
    BY <1>3 DEF IdsAreKeys
  <2> QED
    BY <2>1, <2>2 DEF Alarm
<1>4. MarkSome(alarms, done) = {M(a) : a \in done} \cup (alarms \ done)
  BY DEF MarkSome, MarkAll
<1>5. MarkSome(alarms, some) = {M(a) : a \in some} \cup (alarms \ some)
  BY DEF MarkSome, MarkAll
<1>6. SetSQSAlarmMessageSpawnDecision(
         MarkSQSAlarmMessageChained(MarkSome(alarms, done), unchained), undecided)
            = {V(x) : x \in {U(a) : a \in MarkSome(alarms, done)}}
  BY DEF SetSQSAlarmMessageSpawnDecision, MarkSQSAlarmMessageChained
<1> HIDE DEF M, U, V
<1>7. {V(x) : x \in {U(a) : a \in MarkSome(alarms, done)}}
         = {V(U(a)) : a \in MarkSome(alarms, done)}
  <2> DEFINE T == MarkSome(alarms, done)
             both == {V(x) : x \in {U(a) : a \in T}}
  <2> HIDE DEF T
  <2>1. ASSUME NEW y \in both PROVE y \in {V(U(a)) : a \in T}
    <3>1. PICK x \in {U(a) : a \in T} : y = V(x)
      OBVIOUS
    <3>2. PICK a \in T : x = U(a)
      BY <3>1
    <3> QED
      BY <3>1, <3>2
  <2>2. ASSUME NEW y \in {V(U(a)) : a \in T} PROVE y \in both
    <3>1. PICK a \in T : y = V(U(a))
      OBVIOUS
    <3>2. U(a) \in {U(b) : b \in T}
      OBVIOUS
    <3> QED
      BY <3>1, <3>2
  <2>3. both \subseteq {V(U(a)) : a \in T} /\ {V(U(a)) : a \in T} \subseteq both
    <3> HIDE DEF both
    <3> QED
      BY <2>1, <2>2
  <2>4. both = {V(U(a)) : a \in T}
    BY <2>3
  <2> QED
    BY <2>4 DEF T
<1>8. ASSUME NEW x \in MarkSome(alarms, done)
      PROVE  V(U(x)) \in MarkSome(alarms, some)
  <2>1. CASE x \in {M(a) : a \in done}
    <3>1. PICK a \in done : x = M(a)
      BY <2>1
    <3>2. V(U(x)) = M(a) /\ a \in some
      BY <1>1, <3>1
    <3> QED
      BY <1>5, <3>2
  <2>2. CASE x \in chain
    BY <1>2, <1>5, <2>2
  <2>3. CASE x \in alarms \ some
    BY <1>3, <1>5, <2>3
  <2> QED
    BY <1>4, <1>8, <2>1, <2>2, <2>3
<1>9. ASSUME NEW y \in MarkSome(alarms, some)
      PROVE  y \in {V(U(a)) : a \in MarkSome(alarms, done)}
  <2>1. CASE y \in alarms \ some
    BY <1>3, <1>4, <2>1
  <2>2. CASE y \in {M(a) : a \in some}
    <3>1. PICK a \in some : y = M(a)
      BY <2>2
    <3>2. CASE a \in done
      <4>1. y = V(U(y)) /\ y \in MarkSome(alarms, done)
        BY <1>1, <1>4, <3>1, <3>2
      <4> QED
        BY <4>1
    <3>3. CASE a \in chain
      <4>1. y = V(U(a)) /\ a \in MarkSome(alarms, done)
        BY <1>2, <1>4, <3>1, <3>3
      <4> QED
        BY <4>1
    <3> QED
      BY <3>2, <3>3
  <2> QED
    BY <1>5, <2>1, <2>2
<1>10. \A y \in {V(U(a)) : a \in MarkSome(alarms, done)} : y \in MarkSome(alarms, some)
  BY <1>8
<1> HIDE DEF some
<1> QED
  BY <1>6, <1>7, <1>9, <1>10 DEF some

LEMMA MarkNone ==
    ASSUME NEW table
    PROVE  MarkSome(table, {}) = table /\ MarkSome(table, table) = MarkAll(table)
BY DEF MarkSome, MarkAll

(***************************************************************************)
(* A flush between two rows or after the last: the rows flushed are those  *)
(* of done, and chain are the rows of the current chain.                   *)
(***************************************************************************)
LEMMA FlushHandlesChain ==
    ASSUME AnyClockInv, WalkInv, current # <<>>, processAlarmChain(current),
           NEW ahead, CompleteChain(Flushed, Range(current), ahead)
    PROVE  LET flushed == Flushed \cup Range(current)
           IN  /\ txAlarms' = MarkSome(alarms, flushed)
               /\ decisions' = {[type |-> "INCIDENT", row |-> r.id, pass |-> pass + 1] :
                                    r \in ToDecide(alarms) \cap flushed}
               /\ \A r \in flushed, s \in alarms :
                     SameChain(alarms, r, s) => s \in flushed
<1> DEFINE chain == Range(current)
           flushed == Flushed \cup chain
           last == current[Len(current)]
           D(r) == [type |-> "INCIDENT", row |-> r.id, pass |-> pass + 1]
<1>1. current \in Seq(alarms) /\ Sorted(current)
  BY DEF WalkInv, RowsAreSorted
<1>2. chain \subseteq alarms /\ last \in chain /\ \A r \in chain : r = last \/ Less(r, last)
  BY <1>1, LastRow, RowsOfSeq
<1>3. Flushed \subseteq alarms /\ Flushed \cap chain = {}
  BY DEF Flushed
<1>4. txAlarms' = MarkSome(alarms, flushed)
  <2> DEFINE unchained == {r.id : r \in {s \in chain : ~ s.chained}}
             undecided == {r.id : r \in {s \in chain : ~ s.decided}}
  <2>1. txAlarms' = SetSQSAlarmMessageSpawnDecision(
                       MarkSQSAlarmMessageChained(txAlarms, unchained), undecided)
    BY DEF processAlarmChain
  <2>2. txAlarms = MarkSome(alarms, Flushed)
    BY DEF WalkInv
  <2>3. alarms \subseteq Alarm /\ IdsAreKeys
    BY RowsAreAlarms DEF AnyClockInv
  <2>4. unchained = {r.id : r \in {s \in chain : ~ s.chained}}
        /\ undecided = {r.id : r \in {s \in chain : ~ s.decided}}
    OBVIOUS
  <2> HIDE DEF unchained, undecided, chain
  <2> QED
    BY <1>2, <1>3, <2>1, <2>2, <2>3, <2>4, UpdatesMarkChain
<1>5. ToDecide(alarms) \cap chain = IF \E r \in chain : r.decided THEN {} ELSE {last}
  BY <1>2, CompleteChainIsDecided
<1>6. decisions = {D(r) : r \in ToDecide(alarms) \cap Flushed}
  BY DEF WalkInv
<1>7. decisions' = IF \E r \in chain : r.decided THEN decisions
                   ELSE decisions \cup {D(last)}
  BY DEF processAlarmChain
<1>8. decisions' = {D(r) : r \in ToDecide(alarms) \cap flushed}
  <2> HIDE DEF D, chain, last
  <2>1. CASE \E r \in chain : r.decided
    <3>1. ToDecide(alarms) \cap flushed = ToDecide(alarms) \cap Flushed
      BY <1>5, <2>1
    <3> QED
      BY <1>6, <1>7, <2>1, <3>1
  <2>2. CASE ~ \E r \in chain : r.decided
    <3>1. ToDecide(alarms) \cap flushed = (ToDecide(alarms) \cap Flushed) \cup {last}
      BY <1>5, <2>2
    <3> QED
      BY <1>6, <1>7, <2>2, <3>1
  <2> QED
    BY <2>1, <2>2
<1>9. \A r \in flushed, s \in alarms : SameChain(alarms, r, s) => s \in flushed
  <2>1. \A r \in Flushed, s \in alarms : SameChain(alarms, r, s) => s \in Flushed
    BY DEF WalkInv, WholeChainsAreFlushed
  <2>2. \A c \in chain : ChainOf(alarms, c) = chain
    BY CompleteChainIsChain
  <2> QED
    BY <2>1, <2>2 DEF ChainOf
<1> QED
  BY <1>4, <1>8, <1>9

-----------------------------------------------------------------------------
(* Each step of the walk keeps WalkInv; the last one establishes what the  *)
(* loop over the tickets begins with.                                      *)

LEMMA BeginKeepsWalkInv ==
    ASSUME PassInv, Begin
    PROVE  WalkInv'
<1>1. UNCHANGED vars /\ current' = <<>> /\ decisions' = {}
  BY DEF Begin, PassInv
<1>2. rows' \in Seq(alarms) /\ Range(rows') = alarms /\ Sorted(rows')
  <2>1. PICK n \in 0 .. MaxAlarms : rows' \in [1 .. n -> alarms]
    BY DEF Begin, ListSQSAlarmMessages
  <2>2. n \in Nat
    BY SchedulerAssumption
  <2>3. rows' \in Seq(alarms)
    BY <2>1, <2>2, SeqDef
  <2> QED
    BY <2>3 DEF Begin, ListSQSAlarmMessages
<1>3. current' \in Seq(alarms) /\ Range(current') = {} /\ Sorted(current')
  BY <1>1, NoRow
<1>4. alarms' = alarms /\ tickets' = tickets
  BY <1>1 DEF vars
<1>5. Flushed' = {}
  BY <1>2, <1>3, <1>4 DEF Flushed
<1>6. RowsAreSorted'
  BY <1>2, <1>3, <1>4, <1>5 DEF RowsAreSorted
<1>7. CurrentIsChain' /\ WholeChainsAreFlushed'
  BY <1>1, <1>5 DEF CurrentIsChain, WholeChainsAreFlushed
<1>8. txAlarms' = MarkSome(alarms', Flushed') /\ txTickets' = tickets'
  BY <1>4, <1>5, MarkNone DEF Begin
<1>9. decisions' = {[type |-> "INCIDENT", row |-> r.id, pass |-> pass' + 1] :
                      r \in ToDecide(alarms') \cap Flushed'}
  BY <1>1, <1>5
<1> QED
  BY <1>6, <1>7, <1>8, <1>9 DEF WalkInv

(* What a step that takes the next row needs to know of it.                *)
LEMMA NextRow ==
    ASSUME AnyClockInv, WalkInv, rows # <<>>
    PROVE  LET h == Head(rows)
           IN  /\ h \in alarms /\ h \notin Range(current) /\ h \notin Flushed
               /\ Tail(rows) \in Seq(alarms) /\ Sorted(Tail(rows))
               /\ Range(Tail(rows)) = Range(rows) \ {h}
               /\ \A r \in Range(Tail(rows)) : Less(h, r)
               /\ \A r \in alarms : Less(r, h) <=> r \in Flushed \cup Range(current)
               /\ alarms = Flushed \cup Range(current) \cup Range(rows)
<1> USE RowsAreAlarms
<1> DEFINE h == Head(rows)
<1>1. /\ rows \in Seq(alarms) /\ current \in Seq(alarms) /\ Sorted(rows)
      /\ \A r \in Flushed \cup Range(current), s \in Range(rows) : Less(r, s)
  BY DEF WalkInv, RowsAreSorted
<1>2. /\ h \in alarms /\ Tail(rows) \in Seq(alarms)
      /\ Range(rows) = {h} \cup Range(Tail(rows))
      /\ Sorted(Tail(rows)) /\ \A r \in Range(Tail(rows)) : Less(h, r)
  BY <1>1, HeadAndTail
<1>3. Range(rows) \subseteq alarms /\ Range(current) \subseteq alarms /\ Flushed \subseteq alarms
  BY <1>1, RowsOfSeq DEF Flushed
<1> HIDE DEF h
<1>4. \A r \in Flushed \cup Range(current) : Less(r, h)
  BY <1>1, <1>2
<1>5. \A r \in Range(rows) : ~ Less(r, h)
  BY <1>2, <1>3, LessIsOrder
<1>6. alarms = Flushed \cup Range(current) \cup Range(rows)
  BY <1>3 DEF Flushed
<1>7. h \notin Range(Tail(rows))
  BY <1>2, LessIsOrder
<1> QED
  BY <1>2, <1>4, <1>5, <1>6, <1>7 DEF h

LEMMA JoinRowKeepsWalkInv ==
    ASSUME AnyClockInv, WalkInv, JoinRow
    PROVE  WalkInv'
<1> USE RowsAreAlarms
<1> DEFINE h == Head(rows)
<1>1. /\ rows # <<>> /\ JoinsCurrent(h)
      /\ current' = Append(current, h) /\ rows' = Tail(rows)
      /\ UNCHANGED <<alarms, tickets, pass, txAlarms, txTickets, decisions>>
  BY DEF JoinRow, vars
<1>2. /\ h \in alarms /\ h \notin Range(current) /\ h \notin Flushed
      /\ rows' \in Seq(alarms) /\ Sorted(rows')
      /\ Range(rows') = Range(rows) \ {h}
      /\ \A r \in Range(rows') : Less(h, r)
      /\ \A r \in alarms : Less(r, h) <=> r \in Flushed \cup Range(current)
      /\ alarms = Flushed \cup Range(current) \cup Range(rows)
  BY <1>1, NextRow
<1>3. /\ current \in Seq(alarms) /\ Sorted(current)
      /\ \A r \in Flushed, s \in Range(current) \cup Range(rows) : Less(r, s)
      /\ \A r \in Range(current), s \in Range(rows) : Less(r, s)
  BY DEF WalkInv, RowsAreSorted
<1>4. h \in Range(rows)
  BY <1>2
<1>5. /\ current' \in Seq(alarms) /\ current' # <<>>
      /\ Range(current') = Range(current) \cup {h}
      /\ Sorted(current')
  BY <1>1, <1>2, <1>3, <1>4, AppendRow
<1> HIDE DEF h
<1>6. Flushed' = Flushed
  BY <1>1, <1>2, <1>5 DEF Flushed
<1>7. RowsAreSorted'
  BY <1>1, <1>2, <1>3, <1>4, <1>5, <1>6 DEF RowsAreSorted
<1>8. \E r \in Range(current') :
         /\ Starts(alarms, r)
         /\ \A s \in Range(current') \ {r} : Before(r, s) /\ ~ Starts(alarms, s)
  <2>1. CASE current = <<>>
    <3>1. Flushed = {} /\ Range(current) = {}
      BY <2>1, NoRow DEF WalkInv, CurrentIsChain
    <3>2. \A r \in alarms : ~ Less(r, h)
      BY <1>2, <3>1
    <3>3. Starts(alarms, h)
      BY <3>2 DEF Starts, Less, Before
    <3> QED
      BY <1>5, <3>1, <3>3
  <2>2. CASE current # <<>>
    <3> DEFINE p == current[Len(current)]
    <3>1. p \in Range(current) /\ \A r \in Range(current) : r = p \/ Less(r, p)
      BY <1>3, <2>2, LastRow
    <3>2. p.acct = h.acct /\ alarmRowsAreChained(p, h)
      BY <1>1, <2>2 DEF JoinsCurrent
    <3> HIDE DEF p
    <3>3. Less(p, h) /\ p \in alarms
      BY <1>2, <3>1
    <3>4. Before(p, h) /\ ~ Starts(alarms, h)
      BY <1>2, <3>2, <3>3, LinkedRowStartsNone
    <3>5. PICK r \in Range(current) :
            /\ Starts(alarms, r)
            /\ \A s \in Range(current) \ {r} : Before(r, s) /\ ~ Starts(alarms, s)
      BY <2>2 DEF WalkInv, CurrentIsChain
    <3>6. Before(r, h)
      BY <1>2, <3>1, <3>3, <3>4, <3>5, BeforeIsOrder
    <3> QED
      BY <1>5, <3>4, <3>5, <3>6
  <2> QED
    BY <2>1, <2>2
<1>9. CurrentIsChain'
  BY <1>1, <1>5, <1>8 DEF CurrentIsChain
<1>10. WholeChainsAreFlushed'
  BY <1>1, <1>6 DEF WalkInv, WholeChainsAreFlushed
<1> QED
  BY <1>1, <1>6, <1>7, <1>9, <1>10 DEF WalkInv

LEMMA FlushAndStartChainKeepsWalkInv ==
    ASSUME AnyClockInv, WalkInv, FlushAndStartChain
    PROVE  WalkInv'
<1> USE RowsAreAlarms
<1> DEFINE h == Head(rows)
           p == current[Len(current)]
<1>1. /\ rows # <<>> /\ ~ JoinsCurrent(h) /\ processAlarmChain(current)
      /\ current' = <<h>> /\ rows' = Tail(rows)
      /\ UNCHANGED <<alarms, tickets, pass, txTickets>>
  BY DEF FlushAndStartChain, vars
<1>2. /\ h \in alarms /\ h \notin Range(current) /\ h \notin Flushed
      /\ rows' \in Seq(alarms) /\ Sorted(rows')
      /\ Range(rows') = Range(rows) \ {h}
      /\ \A r \in Range(rows') : Less(h, r)
      /\ \A r \in alarms : Less(r, h) <=> r \in Flushed \cup Range(current)
      /\ alarms = Flushed \cup Range(current) \cup Range(rows)
  BY <1>1, NextRow
<1>3. /\ current \in Seq(alarms) /\ Sorted(current)
      /\ \A r \in Flushed, s \in Range(current) \cup Range(rows) : Less(r, s)
      /\ \A r \in Range(current), s \in Range(rows) : Less(r, s)
  BY DEF WalkInv, RowsAreSorted
<1>4. current # <<>> /\ ~ (p.acct = h.acct /\ alarmRowsAreChained(p, h))
  BY <1>1 DEF JoinsCurrent
<1>5. p \in Range(current) /\ \A r \in Range(current) : r = p \/ Less(r, p)
  BY <1>3, <1>4, LastRow
<1>6. /\ current' \in Seq(alarms) /\ current' # <<>>
      /\ Range(current') = {h} /\ Sorted(current')
  BY <1>1, <1>2, OneRow
<1> HIDE DEF h, p
<1>7. Starts(alarms, h)
  <2>1. p \in alarms /\ Less(p, h)
    BY <1>2, <1>5
  <2>2. \A r \in alarms : Less(r, h) => r = p \/ Less(r, p)
    BY <1>2, <1>3, <1>5
  <2> QED
    BY <1>2, <1>4, <2>1, <2>2, BrokenLinkStartsChain
<1>8. CompleteChain(Flushed, Range(current), Range(rows))
  BY <1>2, <1>3, <1>4, <1>7 DEF CompleteChain, WalkInv, CurrentIsChain
<1>9. Flushed' = Flushed \cup Range(current)
  <2>1. Range(current) \cap Range(rows) = {} /\ Range(current) \subseteq alarms
    BY <1>2, <1>3, LessIsOrder
  <2> QED
    BY <1>1, <1>2, <1>6, <2>1 DEF Flushed
<1>10. /\ txAlarms' = MarkSome(alarms, Flushed')
       /\ decisions' = {[type |-> "INCIDENT", row |-> r.id, pass |-> pass + 1] :
                           r \in ToDecide(alarms) \cap Flushed'}
       /\ \A r \in Flushed', s \in alarms : SameChain(alarms, r, s) => s \in Flushed'
  BY <1>1, <1>4, <1>8, <1>9, FlushHandlesChain
<1>11. RowsAreSorted'
  BY <1>1, <1>2, <1>3, <1>6, <1>9 DEF RowsAreSorted
<1>12. CurrentIsChain'
  BY <1>1, <1>6, <1>7 DEF CurrentIsChain
<1>13. WholeChainsAreFlushed'
  BY <1>1, <1>10 DEF WholeChainsAreFlushed
<1>14. txTickets' = tickets'
  BY <1>1 DEF WalkInv
<1> QED
  BY <1>1, <1>10, <1>11, <1>12, <1>13, <1>14 DEF WalkInv

LEMMA FlushLastChainStartsTickets ==
    ASSUME AnyClockInv, WalkInv, FlushLastChain
    PROVE  TicketsInv'
<1> DEFINE D(r) == [type |-> "INCIDENT", row |-> r.id, pass |-> pass + 1]
<1>1. /\ rows = <<>> /\ processAlarmChain(current)
      /\ rows' = <<>> /\ current' = <<>>
      /\ UNCHANGED <<alarms, tickets, pass, txTickets>>
  BY DEF FlushLastChain, vars
<1>2. Range(rows) = {}
  BY <1>1, NoRow
<1>3. txAlarms' = MarkAll(alarms) /\ decisions' = {D(r) : r \in ToDecide(alarms)}
  <2>1. CASE current = <<>>
    <3>1. Range(current) = {} /\ Flushed = {} /\ alarms = {}
      BY <1>2, <2>1, NoRow DEF WalkInv, CurrentIsChain, Flushed
    <3>2. txAlarms = {} /\ decisions = {}
      BY <3>1, MarkNone DEF WalkInv
    <3>3. txAlarms' = {} /\ decisions' = {}
      BY <1>1, <2>1, <3>2 DEF processAlarmChain, SetSQSAlarmMessageSpawnDecision,
         MarkSQSAlarmMessageChained
    <3>4. MarkAll(alarms) = {} /\ ToDecide(alarms) = {}
      BY <3>1 DEF MarkAll, ToDecide
    <3> QED
      BY <3>3, <3>4
  <2>2. CASE current # <<>>
    <3>1. /\ \A r \in Flushed, s \in Range(current) : Less(r, s)
          /\ Range(current) \subseteq alarms
      BY RowsOfSeq DEF WalkInv, RowsAreSorted
    <3>2. alarms = Flushed \cup Range(current)
      BY <1>2, <3>1 DEF Flushed
    <3>3. CompleteChain(Flushed, Range(current), {})
      BY <2>2, <3>1, <3>2 DEF CompleteChain, WalkInv, CurrentIsChain
    <3>4. /\ txAlarms' = MarkSome(alarms, alarms)
          /\ decisions' = {D(r) : r \in ToDecide(alarms) \cap alarms}
      BY <1>1, <2>2, <3>2, <3>3, FlushHandlesChain
    <3>5. ToDecide(alarms) \cap alarms = ToDecide(alarms)
      BY DEF ToDecide
    <3> QED
      BY <3>4, <3>5, MarkNone
  <2> QED
    BY <2>1, <2>2
<1>4. decisions' = AlarmDecisions(alarms, pass + 1)
  BY <1>3 DEF AlarmDecisions
<1> DEFINE marked(done) == {[t EXCEPT !.decided = TRUE] : t \in done}
<1>5. /\ txTickets' = marked({}) \cup (tickets \ {})
      /\ decisions' = AlarmDecisions(alarms, pass + 1) \cup TicketDecisions({}, pass + 1)
  BY <1>1, <1>4 DEF WalkInv, TicketDecisions
<1>6. {} \in SUBSET {t \in tickets : ~ t.decided}
  OBVIOUS
<1> QED
  BY <1>1, <1>3, <1>5, <1>6 DEF TicketsInv

LEMMA TicketRowKeepsTicketsInv ==
    ASSUME PassInv, TicketsInv, TicketRow
    PROVE  TicketsInv'
<1> DEFINE undecided == {t \in tickets : ~ t.decided}
           M(t) == [t EXCEPT !.decided = TRUE]
           tx(done) == {M(t) : t \in done} \cup (tickets \ done)
           T(t) == [type |-> "TICKET", row |-> t.id, pass |-> pass + 1,
                    text |-> TicketText(t.body)]
<1>1. /\ UNCHANGED <<alarms, tickets, pass, txAlarms, rows, current>>
      /\ \E t \in {u \in txTickets : ~ u.decided} :
            /\ txTickets' = SetSQSTicketMessageSpawnDecision(txTickets, t.id)
            /\ decisions' = decisions \cup {T(t)}
  BY DEF TicketRow, vars, ListSQSTicketMessagesNeedingDecision
<1>2. PICK t \in {u \in txTickets : ~ u.decided} :
            /\ txTickets' = SetSQSTicketMessageSpawnDecision(txTickets, t.id)
            /\ decisions' = decisions \cup {T(t)}
  BY <1>1
<1>3. PICK done \in SUBSET undecided :
            /\ txTickets = tx(done)
            /\ decisions = AlarmDecisions(alarms, pass + 1) \cup TicketDecisions(done, pass + 1)
  BY DEF TicketsInv
<1>4. tickets \subseteq Ticket /\ \A u, v \in tickets : u.id = v.id => u = v
  BY DEF PassInv, TInv, TypeOK
<1>5. \A u \in tickets : M(u) \in Ticket /\ M(u).decided /\ M(u).id = u.id /\ M(M(u)) = M(u)
  BY <1>4 DEF Ticket
<1>6. t \in tickets /\ t \in undecided /\ t \notin done
  <2> HIDE DEF M
  <2>1. t \notin {M(u) : u \in done}
    BY <1>2, <1>5
  <2> QED
    BY <1>2, <1>3, <2>1
<1> DEFINE more == done \cup {t}
           W(u) == [u EXCEPT !.decided = @ \/ u.id = t.id]
<1>7. more \in SUBSET undecided
  BY <1>6
<1>8. txTickets' = {W(u) : u \in txTickets}
  BY <1>2 DEF SetSQSTicketMessageSpawnDecision
<1>9. /\ \A u \in done : W(M(u)) = M(u)
      /\ W(t) = M(t)
      /\ \A u \in tickets : u # t => W(u) = u
  <2>1. \A u \in tickets : W(M(u)) = M(u)
    BY <1>4, <1>5 DEF Ticket
  <2>2. W(t) = M(t)
    BY <1>4, <1>6 DEF Ticket
  <2>3. \A u \in tickets : u # t => W(u) = u
    BY <1>4, <1>6 DEF Ticket
  <2> QED
    BY <2>1, <2>2, <2>3
<1> HIDE DEF W, M
<1>10. txTickets' = tx(more)
  <2>1. ASSUME NEW u \in txTickets PROVE W(u) \in tx(more)
    <3>1. CASE u \in {M(v) : v \in done}
      BY <1>9, <3>1
    <3>2. CASE u \in tickets \ done
      BY <1>9, <3>2
    <3> QED
      BY <1>3, <2>1, <3>1, <3>2
  <2>2. ASSUME NEW v \in more PROVE M(v) \in {W(u) : u \in txTickets}
    <3>1. CASE v \in done
      <4>1. M(v) \in txTickets /\ W(M(v)) = M(v)
        BY <1>3, <1>9, <3>1
      <4> QED
        BY <4>1
    <3>2. CASE v = t
      <4>1. t \in txTickets /\ W(t) = M(t)
        BY <1>2, <1>9
      <4> QED
        BY <3>2, <4>1
    <3> QED
      BY <3>1, <3>2
  <2>3. ASSUME NEW v \in tickets \ more PROVE v \in {W(u) : u \in txTickets}
    <3>1. v \in txTickets /\ W(v) = v
      BY <1>3, <1>9
    <3> QED
      BY <3>1
  <2>4. {W(u) : u \in txTickets} \subseteq tx(more)
    BY <2>1
  <2>5. tx(more) \subseteq {W(u) : u \in txTickets}
    <3> HIDE DEF more
    <3> QED
      BY <2>2, <2>3
  <2> QED
    BY <1>8, <2>4, <2>5
<1>11. TicketDecisions(more, pass + 1) = TicketDecisions(done, pass + 1) \cup {T(t)}
  <2>1. \A some \in SUBSET undecided : TicketDecisions(some, pass + 1) = {T(u) : u \in some}
    BY DEF TicketDecisions
  <2>2. {T(u) : u \in more} = {T(u) : u \in done} \cup {T(t)}
    <3> HIDE DEF T
    <3> QED
      OBVIOUS
  <2> HIDE DEF T, more, undecided
  <2> QED
    BY <1>7, <2>1, <2>2
<1>12. decisions' = AlarmDecisions(alarms, pass + 1) \cup TicketDecisions(more, pass + 1)
  BY <1>2, <1>3, <1>11
<1>13. /\ more \in SUBSET {u \in tickets' : ~ u.decided}
       /\ txTickets' = {[u EXCEPT !.decided = TRUE] : u \in more} \cup (tickets' \ more)
       /\ decisions' = AlarmDecisions(alarms', pass' + 1) \cup TicketDecisions(more, pass' + 1)
  BY <1>1, <1>7, <1>10, <1>12 DEF M
<1>14. rows' = <<>> /\ current' = <<>> /\ txAlarms' = MarkAll(alarms')
  BY <1>1 DEF TicketsInv
<1> HIDE DEF more
<1> QED
  BY <1>13, <1>14 DEF TicketsInv

(***************************************************************************)
(* The commit writes the marks and returns the decisions of one whole      *)
(* RunScheduling.                                                          *)
(***************************************************************************)
LEMMA CommitIsRunScheduling ==
    ASSUME PassInv, pc = "tickets" => pass < MaxPasses, Commit
    PROVE  RunScheduling
<1> DEFINE undecided == {t \in tickets : ~ t.decided}
           M(t) == [t EXCEPT !.decided = TRUE]
<1>1. /\ TicketsInv /\ pass < MaxPasses
      /\ \A t \in txTickets : t.decided
      /\ alarms' = txAlarms /\ tickets' = txTickets /\ pass' = pass + 1
      /\ issued' = issued \cup decisions /\ now' = now
  BY DEF Commit, PassInv, ListSQSTicketMessagesNeedingDecision
<1>2. PICK done \in SUBSET undecided :
            /\ txTickets = {M(t) : t \in done} \cup (tickets \ done)
            /\ decisions = AlarmDecisions(alarms, pass + 1) \cup TicketDecisions(done, pass + 1)
  BY <1>1 DEF TicketsInv
<1>3. tickets \subseteq Ticket
  BY DEF PassInv, TInv, TypeOK
<1>4. done = undecided
  BY <1>1, <1>2
<1>5. \A t \in tickets \ done : M(t) = t
  BY <1>3, <1>4 DEF Ticket
<1>6. txTickets = {M(t) : t \in tickets}
  <2> HIDE DEF M
  <2>1. \A t \in tickets : M(t) \in txTickets
    BY <1>2, <1>5
  <2>2. txTickets \subseteq {M(t) : t \in tickets}
    BY <1>2, <1>4, <1>5
  <2> QED
    BY <2>1, <2>2
<1>7. TicketDecisions(done, pass + 1) = TicketDecisions(tickets, pass + 1)
  BY <1>4 DEF TicketDecisions
<1>8. issued' = issued \cup AlarmDecisions(alarms, pass') \cup TicketDecisions(tickets, pass')
  BY <1>1, <1>2, <1>7
<1>9. alarms' = MarkAll(alarms)
  BY <1>1 DEF TicketsInv
<1> QED
  BY <1>1, <1>6, <1>8, <1>9 DEF RunScheduling

(* Every other step is one between passes, or leaves the tables alone.     *)
LEMMA StepsImplementScheduler ==
    ASSUME PassInv, [PassNext]_passVars
    PROVE  [Next]_vars
<1>1. CASE Commit
  BY <1>1, CommitIsRunScheduling DEF PassInv, Next, Commit
<1>2. CASE Insert
  BY <1>2 DEF Insert, Next
<1>3. CASE Clock
  BY <1>3 DEF Clock, Next
<1>4. CASE Begin \/ JoinRow \/ FlushAndStartChain \/ FlushLastChain \/ TicketRow \/ Rollback
  BY <1>4 DEF Begin, JoinRow, FlushAndStartChain, FlushLastChain, TicketRow, Rollback
<1>5. CASE UNCHANGED passVars
  BY <1>5 DEF passVars
<1> QED
  BY <1>1, <1>2, <1>3, <1>4, <1>5 DEF PassNext

LEMMA PassInvInit == PassInit => PassInv
<1> SUFFICES ASSUME PassInit PROVE PassInv
  OBVIOUS
<1>1. Init
  BY DEF PassInit
<1>2. AnyClockInv
  BY <1>1, AnyClockInvInit
<1>3. TInv
  BY <1>1, TypeOKInit DEF Init, TInv, TicketDecidedOnce
<1> QED
  BY <1>2, <1>3 DEF PassInit, PassInv

LEMMA PassInvStep == PassInv /\ [PassNext]_passVars => PassInv'
<1> SUFFICES ASSUME PassInv, [PassNext]_passVars PROVE PassInv'
  OBVIOUS
<1>1. AnyClockInv /\ AnyClockInv' /\ TInv'
  BY StepsImplementScheduler, AnyClockInvStep, TInvStep DEF PassInv
<1>2. CASE Begin
  <2>1. WalkInv' /\ pc' = "walk" /\ pass' < MaxPasses
    BY <1>2, BeginKeepsWalkInv DEF Begin, vars
  <2> QED
    BY <1>1, <2>1 DEF PassInv
<1>3. CASE JoinRow
  <2>1. WalkInv' /\ pc' = "walk" /\ pass' < MaxPasses
    BY <1>1, <1>3, JoinRowKeepsWalkInv DEF JoinRow, PassInv, vars
  <2> QED
    BY <1>1, <2>1 DEF PassInv
<1>4. CASE FlushAndStartChain
  <2>1. WalkInv' /\ pc' = "walk" /\ pass' < MaxPasses
    BY <1>1, <1>4, FlushAndStartChainKeepsWalkInv DEF FlushAndStartChain, PassInv, vars
  <2> QED
    BY <1>1, <2>1 DEF PassInv
<1>5. CASE FlushLastChain
  <2>1. TicketsInv' /\ pc' = "tickets" /\ pass' < MaxPasses
    BY <1>1, <1>5, FlushLastChainStartsTickets DEF FlushLastChain, PassInv, vars
  <2> QED
    BY <1>1, <2>1 DEF PassInv
<1>6. CASE TicketRow
  <2>1. TicketsInv' /\ pc' = "tickets" /\ pass' < MaxPasses
    BY <1>6, TicketRowKeepsTicketsInv DEF TicketRow, PassInv, vars
  <2> QED
    BY <1>1, <2>1 DEF PassInv
<1>7. CASE Commit \/ Rollback
  BY <1>1, <1>7 DEF Commit, Rollback, NoTransaction, PassInv
<1>8. CASE Insert \/ Clock
  BY <1>1, <1>8 DEF Insert, Clock, PassInv
<1>9. CASE UNCHANGED passVars
  <2>1. UNCHANGED <<alarms, tickets, now, pass, issued,
                    pc, txAlarms, txTickets, rows, current, decisions>>
    BY <1>9 DEF passVars, vars
  <2>2. WalkInv => WalkInv'
    BY <2>1 DEF WalkInv, RowsAreSorted, CurrentIsChain, WholeChainsAreFlushed, Flushed
  <2>3. TicketsInv => TicketsInv'
    BY <2>1 DEF TicketsInv
  <2> QED
    BY <1>1, <2>1, <2>2, <2>3 DEF PassInv
<1> QED
  BY <1>2, <1>3, <1>4, <1>5, <1>6, <1>7, <1>8, <1>9 DEF PassNext

-----------------------------------------------------------------------------

(***************************************************************************)
(* What the walk has done when it stands between two rows: whole chains,   *)
(* and only those, are marked in the transaction and have their decision,  *)
(* and the rows of the current chain are a chain that may still grow.      *)
(***************************************************************************)
THEOREM WalkFollowsChains == PassSpec => []PassInv
BY PassInvInit, PassInvStep, PTL DEF PassSpec

(***************************************************************************)
(* Sort, walk, flushes, ticket loop, commit and rollback do to the tables  *)
(* and to the decisions returned what one RunScheduling step does, or      *)
(* nothing.                                                                *)
(***************************************************************************)
THEOREM WalkImplementsScheduler == PassSpec => ImplementsScheduler
<1>1. PassInit => Init
  BY DEF PassInit
<1>2. PassInv /\ [PassNext]_passVars => [Next]_vars
  BY StepsImplementScheduler
<1> QED
  BY <1>1, <1>2, WalkFollowsChains, PTL DEF PassSpec, Spec, ImplementsScheduler

(***************************************************************************)
(* Wherever the clock puts new rows, the walk marks no row as decided      *)
(* without a decision for its chain.                                       *)
(***************************************************************************)
THEOREM WalkDecidesEveryChain == PassSpec => []DecidedChainHasDecision
BY WalkImplementsScheduler, AtLeastOnce, PTL DEF ImplementsScheduler

(***************************************************************************)
(* The walk hands out no chain twice, over all passes and rollbacks, as    *)
(* long as the clock is not set back.                                      *)
(***************************************************************************)
THEOREM WalkDecidesNoChainTwice ==
    ASSUME StepBack = 0
    PROVE  PassSpec => []OneDecisionPerChain
BY WalkImplementsScheduler, AtMostOnce, PTL DEF ImplementsScheduler

(***************************************************************************)
(* In the middle of a pass every decided row of the transaction is chained *)
(* too, and every decision collected is about a row that was undecided and *)
(* is marked in the transaction.                                           *)
(***************************************************************************)
THEOREM MarksGoWithDecisions == PassSpec => []CollectedDecisionsAreMarked
<1> DEFINE M(a) == [a EXCEPT !.chained = TRUE, !.decided = TRUE]
           MT(t) == [t EXCEPT !.decided = TRUE]
           IncidentIsMarked(d) ==
              /\ \E r \in txAlarms : r.id = d.row /\ r.decided
              /\ \E r \in alarms : r.id = d.row /\ ~ r.decided
           TicketIsMarked(d) ==
              /\ \E t \in txTickets : t.id = d.row /\ t.decided
              /\ \E t \in tickets : t.id = d.row /\ ~ t.decided
<1>1. ASSUME PassInv,
             NEW some, some \subseteq alarms, txAlarms = MarkSome(alarms, some),
             NEW r \in ToDecide(alarms) \cap some,
             NEW d, d.row = r.id
      PROVE  IncidentIsMarked(d)
  <2>1. r \in alarms /\ r \in Alarm
    BY <1>1, RowsAreAlarms DEF PassInv
  <2>2. ~ r.decided
    BY <1>1, <2>1, RowsAreAlarms, SameChainIsEquivalence
       DEF PassInv, ToDecide, AlreadyDecided, ChainOf
  <2>3. M(r) \in txAlarms
    BY <1>1 DEF MarkSome, MarkAll
  <2>4. M(r).id = r.id /\ M(r).decided
    BY <2>1 DEF Alarm
  <2> HIDE DEF M
  <2> QED
    BY <1>1, <2>1, <2>2, <2>3, <2>4
<1>2. ASSUME PassInv PROVE \A r \in txAlarms : r.decided => r.chained
  <2>1. \A r \in alarms : r \in Alarm /\ (r.decided => r.chained)
    BY <1>2, RowsAreAlarms DEF PassInv, AnyClockInv, DecidedIsChained
  <2>2. ASSUME NEW some, some \subseteq alarms, txAlarms = MarkSome(alarms, some)
        PROVE  \A r \in txAlarms : r.decided => r.chained
    BY <2>1, <2>2 DEF MarkSome, MarkAll, Alarm
  <2>3. CASE pc = "walk"
    BY <1>2, <2>2, <2>3 DEF PassInv, WalkInv, Flushed
  <2>4. CASE pc = "tickets"
    BY <1>2, <2>2, <2>4, MarkNone DEF PassInv, TicketsInv
  <2>5. CASE pc = "idle"
    BY <1>2, <2>5 DEF PassInv
  <2> QED
    BY <1>2, <2>3, <2>4, <2>5 DEF PassInv
<1>3. PassInv => CollectedDecisionsAreMarked
  <2> SUFFICES ASSUME PassInv, NEW d \in decisions
               PROVE  IF d.type = "INCIDENT" THEN IncidentIsMarked(d) ELSE TicketIsMarked(d)
    BY <1>2 DEF CollectedDecisionsAreMarked
  <2>1. CASE pc = "walk"
    <3>1. txAlarms = MarkSome(alarms, Flushed) /\ Flushed \subseteq alarms
      BY <2>1 DEF PassInv, WalkInv, Flushed
    <3>2. PICK r \in ToDecide(alarms) \cap Flushed :
            d = [type |-> "INCIDENT", row |-> r.id, pass |-> pass + 1]
      BY <2>1 DEF PassInv, WalkInv
    <3>3. d.type = "INCIDENT" /\ d.row = r.id
      BY <3>2
    <3> QED
      BY <1>1, <3>1, <3>2, <3>3
  <2>2. CASE pc = "tickets"
    <3>1. PICK done \in SUBSET {t \in tickets : ~ t.decided} :
            /\ txTickets = {MT(t) : t \in done} \cup (tickets \ done)
            /\ decisions = AlarmDecisions(alarms, pass + 1)
                              \cup TicketDecisions(done, pass + 1)
      BY <2>2 DEF PassInv, TicketsInv
    <3>2. CASE d \in AlarmDecisions(alarms, pass + 1)
      <4>1. PICK r \in ToDecide(alarms) \cap alarms : d.type = "INCIDENT" /\ d.row = r.id
        BY <3>2 DEF AlarmDecisions, ToDecide
      <4>2. txAlarms = MarkSome(alarms, alarms)
        BY <2>2, MarkNone DEF PassInv, TicketsInv
      <4> QED
        BY <1>1, <4>1, <4>2
    <3>3. CASE d \in TicketDecisions(done, pass + 1)
      <4>1. PICK t \in done : d.type = "TICKET" /\ d.row = t.id
        BY <3>3 DEF TicketDecisions
      <4>2. MT(t).id = t.id /\ MT(t).decided
        BY DEF PassInv, TInv, TypeOK, Ticket
      <4>3. MT(t) \in txTickets
        BY <3>1
      <4> HIDE DEF MT
      <4> QED
        BY <4>1, <4>2, <4>3
    <3> QED
      BY <3>1, <3>2, <3>3
  <2>3. CASE pc = "idle"
    BY <2>3 DEF PassInv
  <2> QED
    BY <2>1, <2>2, <2>3 DEF PassInv
<1> QED
  BY <1>3, WalkFollowsChains, PTL

=============================================================================
