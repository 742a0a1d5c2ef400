SPECIFICATION FairConductor
CONSTANTS
  w1 = w1
  w2 = w2
  t1 = t1
  a1 = a1
  acct1 = acct1
  None = None
  Workers <- TwoWorkers
  AlarmMsgs <- NoMsgs
  TicketMsgs <- OneTicket
  JunkMsgs <- NoMsgs
  Account <- NoAccount
  Window = 0
  MaxAlarms = 0
  MaxTickets = 3
  MaxTime = 0
  MaxPasses = 3
  MaxFaults = 2
  MaxUpsets = 1
CHECK_DEADLOCK FALSE
INVARIANTS
  IInv
  GateWaitsForWorkers
  NoPhantomWorker
  UnknownTaskOnlyAfterFailedLaunch
  OneAgentPerRow
  AgentsNeedUpsets
PROPERTIES
  DrainCompletes
  WorkersKeepProtocol
  GateImplementsDeploy
  EveryTicketServed
