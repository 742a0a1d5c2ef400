SPECIFICATION ConductorSpec
SYMMETRY Symmetry
CONSTANTS
  w1 = w1
  w2 = w2
  t1 = t1
  a1 = a1
  acct1 = acct1
  None = None
  Workers <- TwoWorkers
  AlarmMsgs <- OneAlarm
  TicketMsgs <- NoMsgs
  JunkMsgs <- NoMsgs
  Account <- OneAlarmAccount
  Window = 1
  MaxAlarms = 3
  MaxTickets = 0
  MaxTime = 2
  MaxPasses = 3
  MaxFaults = 1
  MaxUpsets = 2
CHECK_DEADLOCK FALSE
INVARIANT AgentsAreApart
