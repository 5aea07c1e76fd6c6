CONSTANTS
  t1 = t1
  t2 = t2
  t3 = t3
  k1 = k1
  caller = caller
  worker = worker
  lead = lead
  bot = bot
  p1 = p1
  p2 = p2
  NoTask = NoTask
  NoKey = NoKey
  NoSession = NoSession
  NoAgent = NoAgent
  Task <- MCTask
  Key <- MCKey
  Session <- MCSession
  Agent <- MCAgent
  AgentOf <- MCAgentOf
  Project <- MCProject
  Requests <- MCRequests
  MaxHops = 2
  MaxSessions = 1
  CodingRequests <- MCCodingRequests
  FollowUp = {t2, t3}
  TestKey <- MCTestKey
  Tester = bot
  Attempts = 2
  MaxAnswers = 2
  MaxExits = 1
SPECIFICATION MCSpec
INVARIANTS
  KeyHolder
  LineageSound
  MustDeliverNeverExpired
  OneOpenTest
  FollowedUp
PROPERTIES
  DeliveredNotExpired
  ClaimSticks
  Admission
CHECK_DEADLOCK FALSE
