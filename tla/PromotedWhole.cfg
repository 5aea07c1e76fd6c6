CONSTANTS
  repo = repo
  j1 = j1
  j2 = j2
  j3 = j3
  m1 = m1
  s1 = s1
  s2 = s2
  Repo = {repo}
  Asker = {j1, m1}
  RepoOf <- MCRepoOf
  Job = {j1}
  Scan = {s1}
  Together = {{j1, m1, s1}}
  Page = {1, 2}
  MaxScanJobs = 1
  Concurrency = 1
  MaxJobs = 2
SPECIFICATION QueueSpec
INVARIANTS
  PromotedWhole
