SPECIFICATION FairSpec
CONSTANTS
  Null = Null
  Absent = Absent
  o1 = o1
  o2 = o2
  ann = ann
  amy = amy
  max = max
  mia = mia
  moe = moe
  zed = zed
  u1 = u1
  u2 = u2
  p1 = p1
  p2 = p2
  p3 = p3
  t1 = t1
  t2 = t2
  e1 = e1
  Orgs = {o1, o2}
  InitOrgs = {o1, o2}
  Users = {ann, max, mia}
  Tasks = {t1}
  Projects = {p1}
  Requests = {r1, r2}
  StatusFilters = {"all"}
  PriorityFilters = {"all"}
  Emails <- MCEmails
  Names <- MCNames
  InitUsers <- MCUsers
  InitProjects <- MCProjects
  InitTasks <- MCTasks
  Calls <- SettleCalls
  RedisMayFail = TRUE
  MayCrash = TRUE
PROPERTY CacheSettles
