CONSTANTS
  t1 = t1
  t2 = t2
  k1 = k1
  alice = alice
  bob = bob
  lead = lead
  bot = bot
  proj = proj
  first = first
  again = again
  wait = wait
  NoTask = NoTask
  NoKey = NoKey
  NoSession = NoSession
  NoAgent = NoAgent
  Task = {t1, t2}
  Key = {k1}
  Session <- MCSession
  Agent = {lead, bot}
  AgentOf <- MCAgentOf
  Project = {proj}
  Requests <- MCRequests
  MaxHops = 1
  MaxSessions = 2
  Call <- MCCall
  SessionOf <- MCSessionOf
  ClientReason = {"UserStop", "Other"}
  Wants <- MCWants
  MaxOpenTasks = 2
  MaxMustPerSession = 1
  MaxMustPerAgent = 1
  KernelWrites = {"EXECUTING"}
  Together <- MCTogether
  MaxElsewhere = 1
SPECIFICATION OrchSpec
PROPERTIES
  CancelJustified
  OneWinner
  AllAnswered
