SPECIFICATION BootSpec
CONSTANTS
  Null = Null
  o1 = o1
  u1 = u1
  u2 = u2
  p1 = p1
  Orgs = {o1, o2, o3, o4}
  InitOrgs = {o1}
  Users = {u1, u2, u3, u4, u5}
  Projects = {p1, p2, p3, p4}
  Tasks = {t1, t2, t3, t4, t5, t6, t7, t8, t9}
  Emails = {"ADMIN", "MANAGER", "MEMBER", "other"}
  Names <- MCNames
  InitUsers <- MCUsers
  InitProjects <- MCProjects
  InitTasks <- MCTasks
  MaxFaults = 1
  MaxUses = 2
INVARIANT DemoReady
INVARIANT StrangersAreDemo
PROPERTY ServesAgain
PROPERTY SeedIsIdempotent
