SPECIFICATION FairSpec
CONSTANTS
  a1 = a1
  t1 = t1
  j1 = j1
  acct1 = acct1
  None = None
  AlarmMsgs <- OneAlarm
  TicketMsgs <- OneTicket
  JunkMsgs <- OneJunk
  Account <- OneAlarmAccount
  Window = 0
  MaxAlarms = 4
  MaxTickets = 4
  MaxTime = 1
  MaxPasses = 6
  MaxFaults = 2
CHECK_DEADLOCK FALSE
INVARIANTS
  NoMessageLost
  LossesNeedDisturbances
PROPERTY EveryMessageDecided
