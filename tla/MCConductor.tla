----------------------------- MODULE MCConductor -----------------------------
EXTENDS Conductor, TLC
CONSTANTS w1, w2, t1, a1, acct1
NoMsgs == {}
OneTicket == {t1}
OneAlarm == {a1}
TwoWorkers == {w1, w2}
NoAccount == [m \in {} |-> acct1]
OneAlarmAccount == [m \in {a1} |-> acct1]
Symmetry == Permutations(Workers)
=============================================================================
