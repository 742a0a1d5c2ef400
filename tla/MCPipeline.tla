----------------------------- MODULE MCPipeline -----------------------------
EXTENDS Pipeline
CONSTANTS a1, t1, j1, acct1
NoMsgs == {}
OneAlarm == {a1}
OneTicket == {t1}
OneJunk == {j1}
OneAlarmAccount == [m \in {a1} |-> acct1]
=============================================================================
