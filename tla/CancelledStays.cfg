CONSTANTS
  t1 = t1
  k1 = k1
  caller = caller
  orch = orch
  worker = worker
  kernel = kernel
  lmr = lmr
  bot = bot
  p1 = p1
  NoTask = NoTask
  NoKey = NoKey
  NoSession = NoSession
  NoAgent = NoAgent
  NoExecutor = NoExecutor
  NoRequest = NoRequest
  NoMsg = NoMsg
  Task = {t1}
  Key <- MCKey
  Session = {caller, orch}
  Agent <- MCAgent
  AgentOf <- MCAgentOf
  Project <- MCProject
  McpSession = {caller}
  Workers <- MCWorkers
  OrchestratedBy <- MCOrchestratedBy
  Kernel = kernel
  Lmr = lmr
  MaxHops = 2
  MaxSessions = 3
  Requests <- McpCall
  Source <- McpSource
  BridgeRequests <- McpCall
  WorkerResults = {FALSE}
  e1 = e1
  e2 = e2
  Executor = {e1}
  Lossy = FALSE
  MaxSends = 1
  MaxRestarts = 0
SPECIFICATION DispSpec
PROPERTIES
  CancelledStays
