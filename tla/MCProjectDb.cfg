CONSTANTS
  repo = repo
  j1 = j1
  j2 = j2
  j3 = j3
  m1 = m1
  s1 = s1
  s2 = s2
  Repo = {repo}
  Asker = {j1, j2, j3, m1}
  RepoOf <- MCRepoOf
  Job = {j1, j2, j3}
  Scan = {s1, s2}
  Together = {{j1, j2, j3, s1}, {j1, m1, s1, s2}}
  Page = {1}
  MaxScanJobs = 1
  Concurrency = 1
  MaxJobs = 2
  e1 = e1
  e2 = e2
  id1 = id1
  id2 = id2
  Opener = {app, mcp}
  Found = {e1, e2}
  Later = {e3}
  OldId = {id1, id2}
  Canonical = id
  FiledUnder <- MCFiledUnder
  Releases = {"none", "bare", "ungoverned", "unmapped", "mapped"}
  MaxDeaths = 1
SPECIFICATION ProjectDbSpec
INVARIANTS
  PermitsAccounted
  NoLeftovers
  UpgradeKeeps
PROPERTIES
  ScanServed
  ForgottenOnlyAsleep
  Opens
CHECK_DEADLOCK FALSE
