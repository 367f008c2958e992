----------------------------- MODULE BootProofs -----------------------------
(***************************************************************************)
(* Proofs about Boot, for every pool of ids, every new volume and every    *)
(* used one with legal tables, and any number of deaths, outages and       *)
(* operations of the API: what the seed leaves behind, and that it does    *)
(* not repeat itself.                                                      *)
(***************************************************************************)
EXTENDS Boot, TLAPS

(* ---- the invariant -------------------------------------------------------- *)

Progress == [pc : BootPCs, org : Orgs \cup {Null},
             people : [Roles -> Users \cup {Null}], project : Projects \cup {Null}]

TablesOK ==
  /\ orgs \subseteq Orgs /\ demo \subseteq orgs
  /\ users \in UserTable /\ projects \in ProjectTable /\ tasks \in TaskTable
  /\ boot \in Progress

\* The id of a row was given out, so that a new row overwrites none.
IdsIssued ==
  /\ \A u \in Users : Row(users, u) => u \in issued
  /\ \A p \in Projects : Row(projects, p) => p \in issued
  /\ \A t \in Tasks : Row(tasks, t) => t \in issued

ProjectsExist == \A t \in Tasks : Row(tasks, t) => Row(projects, tasks[t].project)

DataInv == TablesOK /\ IdsIssued /\ ProjectsExist /\ StrangersAreDemo

\* What main() holds while it goes through its look-ups.
Past(pcs) == boot.pc \in pcs
SeedFound ==
  /\ Past({"seed.ADMIN", "seed.MANAGER", "seed.MEMBER", "seed.project", "seed.tasks"}) =>
       boot.org \in demo
  /\ Past({"seed.MANAGER", "seed.MEMBER", "seed.project", "seed.tasks"}) =>
       boot.people["ADMIN"] \in Found("ADMIN")
  /\ Past({"seed.MEMBER", "seed.project", "seed.tasks"}) =>
       boot.people["MANAGER"] \in Found("MANAGER")
  /\ Past({"seed.project", "seed.tasks"}) => boot.people["MEMBER"] \in Found("MEMBER")
  /\ Past({"seed.tasks"}) => boot.project \in DemoProjects(boot.org)

\* What DemoReady promises of the tables.
SeedDone ==
  /\ \A role \in Roles : EmailTaken(role)
  /\ \E o \in demo, p \in Projects : p \in DemoProjects(o) /\ HasTasks(p)

DoneWhen == untouched \/ Past({"redis", "db"})

SeedInv == SeedFound /\ (DoneWhen => SeedDone)

BootInv == DataInv /\ SeedInv

\* The step may be one of a start that follows a completed one.
Repeats == untouched /\ untouched' /\ OneDemo => UNCHANGED tables

(* ---- tables ----------------------------------------------------------------- *)

\* Every row of table is one of later, unchanged.
Kept(ids, table, later) == \A x \in ids : Row(table, x) => later[x] = table[x]

LEMMA RowTyped ==
  ASSUME TablesOK
  PROVE  /\ \A u \in Users : Row(users, u) => users[u] \in UserRow
         /\ \A p \in Projects : Row(projects, p) => projects[p] \in ProjectRow
         /\ \A t \in Tasks : Row(tasks, t) => tasks[t] \in TaskRow
BY DEF TablesOK, UserTable, ProjectTable, TaskTable, Row

\* The tasks that are left are as they were, or lost their assignee, and the
\* rows they name are as they were.
LEMMA TasksKept ==
  ASSUME DataInv, demo \subseteq demo',
         \A t \in Tasks : Row(tasks', t) =>
           /\ Row(tasks, t)
           /\ tasks'[t].project = tasks[t].project /\ tasks'[t].creator = tasks[t].creator
           /\ tasks'[t].assignee \in {tasks[t].assignee, Null}
           /\ Row(projects', tasks[t].project)
           /\ projects'[tasks[t].project].org = projects[tasks[t].project].org
           /\ users'[tasks[t].creator] = users[tasks[t].creator]
           /\ tasks'[t].assignee # Null => users'[tasks[t].assignee] = users[tasks[t].assignee]
  PROVE  ProjectsExist' /\ StrangersAreDemo'
<1>1. ProjectsExist'
  BY DEF ProjectsExist, Row
<1>2. ASSUME NEW t \in Tasks, tasks'[t] # Null,
             NEW u \in {tasks'[t].creator, tasks'[t].assignee} \ {Null}
      PROVE  /\ users'[u] # Null
             /\ users'[u].org # projects'[tasks'[t].project].org =>
                  users'[u].email \in Roles /\ projects'[tasks'[t].project].org \in demo'
  <2>1. /\ Row(tasks, t) /\ u \in {tasks[t].creator, tasks[t].assignee} \ {Null}
        /\ users'[u] = users[u]
        /\ projects'[tasks'[t].project].org = projects[tasks[t].project].org
    BY <1>2 DEF Row
  <2>2. /\ users[u] # Null
        /\ users[u].org # projects[tasks[t].project].org =>
             users[u].email \in Roles /\ projects[tasks[t].project].org \in demo
    BY <2>1 DEF DataInv, StrangersAreDemo, Row
  <2> QED BY <2>1, <2>2
<1>3. StrangersAreDemo'
  BY <1>2 DEF StrangersAreDemo, Row
<1> QED BY <1>1, <1>3

\* No task is written, no row of another table goes.
LEMMA Grown ==
  ASSUME DataInv, demo \subseteq demo', tasks' = tasks,
         Kept(Users, users, users'),
         \A p \in Projects : Row(projects, p) =>
           Row(projects', p) /\ projects'[p].org = projects[p].org
  PROVE  ProjectsExist' /\ StrangersAreDemo'
<1>1. ASSUME NEW t \in Tasks, Row(tasks', t)
      PROVE  /\ Row(tasks, t)
             /\ tasks'[t].project = tasks[t].project /\ tasks'[t].creator = tasks[t].creator
             /\ tasks'[t].assignee \in {tasks[t].assignee, Null}
             /\ Row(projects', tasks[t].project)
             /\ projects'[tasks[t].project].org = projects[tasks[t].project].org
             /\ users'[tasks[t].creator] = users[tasks[t].creator]
             /\ tasks'[t].assignee # Null => users'[tasks[t].assignee] = users[tasks[t].assignee]
  <2>1. Row(tasks, t) /\ tasks[t] \in TaskRow
    BY <1>1, RowTyped DEF DataInv, Row
  <2>2. tasks[t].project \in Projects /\ tasks[t].creator \in Users /\ tasks[t].assignee \in Users \cup {Null}
    BY <2>1 DEF TaskRow
  <2>3. tasks[t].creator # Null
    BY <2>2, SchemaAssumption
  <2>4. Row(projects, tasks[t].project) /\ Row(users, tasks[t].creator)
        /\ (tasks[t].assignee # Null => Row(users, tasks[t].assignee))
    BY <2>1, <2>3 DEF DataInv, ProjectsExist, StrangersAreDemo
  <2> QED BY <1>1, <2>1, <2>2, <2>4 DEF Kept
<1> QED BY <1>1, TasksKept

\* An insert under an id that was not given out.
LEMMA InsertKeeps ==
  ASSUME NEW ids, NEW table, NEW rows, table \in [ids -> rows \cup {Null}],
         NEW x \in ids, ~Row(table, x), NEW row \in rows
  PROVE  /\ Insert(table, x, row) \in [ids -> rows \cup {Null}]
         /\ Insert(table, x, row)[x] = row
         /\ \A y \in ids : y # x => Insert(table, x, row)[y] = table[y]
         /\ Kept(ids, table, Insert(table, x, row))
BY DEF Insert, Kept

\* What the seed has completed stays complete.
LEMMA DoneKept ==
  ASSUME SeedDone, demo \subseteq demo',
         Kept(Users, users, users'), Kept(Projects, projects, projects'), Kept(Tasks, tasks, tasks')
  PROVE  SeedDone'
<1>1. ASSUME NEW role \in Roles PROVE \E u \in Users : users'[u] # Null /\ users'[u].email = role
  BY DEF SeedDone, EmailTaken, Kept, Row
<1>2. PICK o \in demo, p \in Projects, t \in Tasks :
        /\ projects[p] # Null /\ projects[p] = [org |-> o, name |-> DemoProject]
        /\ tasks[t] # Null /\ tasks[t].project = p
  BY DEF SeedDone, DemoProjects, HasTasks, Row
<1>3. o \in demo' /\ projects'[p] = projects[p] /\ tasks'[t] = tasks[t]
  BY <1>2 DEF Kept, Row
<1> QED BY <1>1, <1>2, <1>3 DEF SeedDone, EmailTaken, DemoProjects, HasTasks, Row

LEMMA FoundKept ==
  ASSUME Kept(Users, users, users'), NEW role
  PROVE  Found(role) \subseteq Found(role)'
BY DEF Found, Kept, Row

LEMMA PickOne ==
  ASSUME NEW S, S # {}
  PROVE  Pick(S) \in S
BY DEF Pick

(* ---- steps that write no table ---------------------------------------------- *)

LEMMA Quiet ==
  ASSUME BootInv, UNCHANGED <<tables, demo>>, boot' \in Progress, SeedFound', DoneWhen' => DoneWhen
  PROVE  BootInv' /\ Repeats
<1>1. UNCHANGED <<orgs, users, projects, tasks, issued, demo>>
  BY DEF tables
<1>2. TablesOK' /\ IdsIssued'
  BY <1>1 DEF BootInv, DataInv, TablesOK, IdsIssued, Row
<1>3. ProjectsExist' /\ StrangersAreDemo'
  BY <1>1 DEF BootInv, DataInv, ProjectsExist, StrangersAreDemo, Row
<1>4. SeedDone => SeedDone'
  BY <1>1 DEF SeedDone, EmailTaken, DemoProjects, HasTasks, Row
<1>5. SeedInv'
  BY <1>4 DEF BootInv, SeedInv
<1> QED BY <1>2, <1>3, <1>5 DEF BootInv, DataInv, Repeats

\* A process outside its seed holds nothing.
LEMMA Reset ==
  ASSUME NEW pc \in BootPCs \ (SeedPCs \cup {"redis", "db"}), boot' = [Fresh EXCEPT !.pc = pc]
  PROVE  boot' \in Progress /\ SeedFound' /\ (DoneWhen' => untouched')
<1>1. boot'.pc = pc
  BY DEF Fresh
<1>2. boot' \in Progress
  BY DEF Fresh, Progress, BootPCs
<1>3. SeedFound' /\ (DoneWhen' => untouched')
  BY <1>1 DEF SeedFound, DoneWhen, Past, SeedPCs
<1> QED BY <1>2, <1>3

LEMMA StartsOver ==
  ASSUME BootInv, UNCHANGED <<tables, demo>>, untouched' => untouched,
         boot' = Fresh \/ \E pc \in {"exited", "stopped", "serving"} : boot' = [Fresh EXCEPT !.pc = pc]
  PROVE  BootInv' /\ Repeats
<1>1. Fresh = [Fresh EXCEPT !.pc = "migrate"]
  BY DEF Fresh
<1>2. PICK pc \in {"exited", "stopped", "serving", "migrate"} : boot' = [Fresh EXCEPT !.pc = pc]
  BY <1>1
<1>3. pc \in BootPCs \ (SeedPCs \cup {"redis", "db"})
  BY DEF BootPCs, SeedPCs
<1>4. boot' \in Progress /\ SeedFound' /\ (DoneWhen' => untouched')
  BY <1>2, <1>3, Reset
<1> QED BY <1>4, Quiet DEF DoneWhen

\* Outside the seed only the place changes.
LEMMA GoesOn ==
  ASSUME BootInv, UNCHANGED <<tables, demo, untouched>>,
         NEW pc \in BootPCs, boot' = After(pc),
         pc \notin SeedPCs \/ pc = "seed.org", pc \in {"redis", "db"} => DoneWhen
  PROVE  BootInv' /\ Repeats
<1>1. boot' \in Progress /\ boot'.pc = pc
  BY DEF BootInv, DataInv, TablesOK, Progress, After
<1>2. SeedFound'
  BY <1>1 DEF SeedFound, Past, SeedPCs
<1>3. DoneWhen' => DoneWhen
  BY <1>1 DEF DoneWhen, Past
<1> QED BY <1>1, <1>2, <1>3, Quiet

LEMMA MigrateKeeps ==
  ASSUME BootInv, Migrate
  PROVE  BootInv' /\ Repeats
<1>1. CASE boot' = Exited
  BY <1>1, StartsOver DEF Migrate, MigrateCheck, MigrateApply, Command, Exited
<1>2. CASE boot' # Exited
  BY <1>2, GoesOn DEF Migrate, MigrateCheck, MigrateApply, Command, BootPCs, SeedPCs
<1> QED BY <1>1, <1>2

LEMMA SeedFailsKeeps ==
  ASSUME BootInv, SeedFails
  PROVE  BootInv' /\ Repeats
BY StartsOver DEF SeedFails, Exited

LEMMA ConnectKeeps ==
  ASSUME BootInv, ConnectRedis
  PROVE  BootInv' /\ Repeats
BY GoesOn DEF ConnectRedis, Running, BootPCs, SeedPCs, DoneWhen, Past

LEMMA SignalKeeps ==
  ASSUME BootInv, Signal
  PROVE  BootInv' /\ Repeats
BY GoesOn DEF Signal, Running, BootPCs, SeedPCs

LEMMA ClosedKeeps ==
  ASSUME BootInv, Closed
  PROVE  BootInv' /\ Repeats
BY StartsOver DEF Closed

LEMMA RestartKeeps ==
  ASSUME BootInv, Restart \/ ComposeUp
  PROVE  BootInv' /\ Repeats
BY StartsOver DEF Restart, ComposeUp

LEMMA DieKeeps ==
  ASSUME BootInv, Die
  PROVE  BootInv' /\ Repeats
BY StartsOver DEF Die

\* PostgreSQL and Redis go and come back.
LEMMA ServicesKeep ==
  ASSUME BootInv, NEW s, Outage(s) \/ Recover(s)
  PROVE  BootInv' /\ Repeats
<1>1. UNCHANGED <<tables, demo, boot, untouched>>
  BY DEF Outage, Recover
<1>2. boot' \in Progress
  BY <1>1 DEF BootInv, DataInv, TablesOK
<1>3. UNCHANGED <<users, projects>>
  BY <1>1 DEF tables
<1>4. SeedFound'
  BY <1>1, <1>3 DEF BootInv, SeedInv, SeedFound, Past, Found, DemoProjects, Row
<1>5. DoneWhen' => DoneWhen
  BY <1>1 DEF DoneWhen, Past
<1> QED BY <1>1, <1>2, <1>4, <1>5, Quiet

\* The server listens after its seed: the tables are as the seed left them.
LEMMA ListenKeeps ==
  ASSUME BootInv, Listen
  PROVE  BootInv' /\ Repeats
<1>1. /\ UNCHANGED <<tables, demo>> /\ boot' = [Fresh EXCEPT !.pc = "serving"] /\ DoneWhen
  BY DEF Listen, Running, DoneWhen, Past
<1>2. "serving" \in BootPCs \ (SeedPCs \cup {"redis", "db"})
  BY DEF BootPCs, SeedPCs
<1>3. boot' \in Progress /\ SeedFound'
  BY <1>1, <1>2, Reset
<1> QED BY <1>1, <1>3, Quiet

(* ---- the steps of the seed ---------------------------------------------------- *)

\* An insert of the seed: no start that follows a completed one makes it.
LEMMA SeedInserts ==
  ASSUME BootInv, UNCHANGED untouched, untouched => ~OneDemo, demo \subseteq demo',
         Kept(Users, users, users'), Kept(Projects, projects, projects'), Kept(Tasks, tasks, tasks'),
         TablesOK', IdsIssued', ProjectsExist', StrangersAreDemo', SeedFound',
         Past({"redis", "db"})' => SeedDone'
  PROVE  BootInv' /\ Repeats
<1>1. DoneWhen' => SeedDone'
  <2>1. SUFFICES ASSUME untouched' PROVE SeedDone'
    BY DEF DoneWhen
  <2>2. SeedDone
    BY <2>1 DEF BootInv, SeedInv, DoneWhen
  <2> QED BY <2>2, DoneKept
<1> QED BY <1>1 DEF BootInv, DataInv, SeedInv, Repeats

LEMMA SeedOrgKeeps ==
  ASSUME BootInv, SeedOrg
  PROVE  BootInv' /\ Repeats
<1>1. /\ Running("seed.org") /\ UNCHANGED <<users, projects, tasks, issued, untouched>>
  BY DEF SeedOrg, SeedStep, Command
<1>2. CASE \E o \in demo : boot' = [After(AfterOrgFound) EXCEPT !.org = o] /\ UNCHANGED <<orgs, demo>>
  <2>1. PICK o \in demo : boot' = [After(AfterOrgFound) EXCEPT !.org = o] /\ UNCHANGED <<orgs, demo>>
    BY <1>2
  <2>2. o \in Orgs
    BY <2>1 DEF BootInv, DataInv, TablesOK
  <2>3. boot' \in Progress /\ boot'.pc = "seed.ADMIN" /\ boot'.org = o
    BY <2>1, <2>2 DEF BootInv, DataInv, TablesOK, Progress, After, AfterOrgFound, BootPCs, SeedPCs
  <2>4. SeedFound' /\ (DoneWhen' => DoneWhen)
    BY <1>1, <2>1, <2>3 DEF SeedFound, Past, DoneWhen
  <2>5. UNCHANGED <<tables, demo>>
    BY <1>1, <2>1 DEF tables
  <2> QED BY <2>3, <2>4, <2>5, Quiet
<1>3. CASE /\ demo = {} /\ Orgs \ orgs # {}
           /\ LET o == Pick(Orgs \ orgs)
              IN /\ orgs' = orgs \cup {o} /\ demo' = {o}
                 /\ boot' = [After("seed.ADMIN") EXCEPT !.org = o]
  <2>1. PICK o \in Orgs \ orgs : /\ orgs' = orgs \cup {o} /\ demo' = {o}
                                 /\ boot' = [After("seed.ADMIN") EXCEPT !.org = o]
    BY <1>3, PickOne
  <2>2. boot' \in Progress /\ boot'.pc = "seed.ADMIN" /\ boot'.org = o
    BY <2>1 DEF BootInv, DataInv, TablesOK, Progress, After, BootPCs, SeedPCs
  <2>3. SeedFound' /\ ~Past({"redis", "db"})'
    BY <2>1, <2>2 DEF SeedFound, Past
  <2>4. ~untouched
    BY <1>3 DEF BootInv, SeedInv, DoneWhen, SeedDone
  <2>5. /\ Kept(Users, users, users') /\ Kept(Projects, projects, projects')
        /\ Kept(Tasks, tasks, tasks') /\ demo \subseteq demo'
    BY <1>1, <1>3 DEF Kept
  <2>6. TablesOK' /\ IdsIssued'
    BY <1>1, <2>1, <2>2 DEF BootInv, DataInv, TablesOK, IdsIssued, Row
  <2>7. ProjectsExist' /\ StrangersAreDemo'
    BY <1>1, <2>5, Grown DEF BootInv, Row
  <2> QED BY <1>1, <2>3, <2>4, <2>5, <2>6, <2>7, SeedInserts
<1> QED BY <1>2, <1>3 DEF SeedOrg

\* What a step for one role leaves.
PersonFound(role, then) ==
  /\ boot'.pc = then /\ UNCHANGED <<demo, untouched>>
  /\ boot'.org = boot.org /\ boot'.project = boot.project
  /\ boot'.people[role] \in Found(role)'
  /\ \A other \in Roles \ {role} : boot'.people[other] = boot.people[other]
  /\ Kept(Users, users, users') /\ UNCHANGED projects

LEMMA SeedUserKeeps ==
  ASSUME BootInv, NEW pc, NEW role \in Roles, NEW then \in {"seed.MANAGER", "seed.MEMBER", "seed.project"},
         SeedUser(pc, role, then), boot.org \in demo, PersonFound(role, then) => SeedFound'
  PROVE  BootInv' /\ Repeats
<1>1. UNCHANGED <<orgs, projects, tasks, demo, untouched>>
  BY DEF SeedUser, SeedStep, Command
<1>2. boot \in Progress /\ then \in BootPCs /\ then \notin {"redis", "db"}
  BY DEF BootInv, DataInv, TablesOK, BootPCs, SeedPCs
<1>3. ASSUME NEW u \in Users, boot' = [After(then) EXCEPT !.people[role] = u]
      PROVE  /\ boot' \in Progress /\ boot'.pc = then
             /\ boot'.org = boot.org /\ boot'.project = boot.project
             /\ boot'.people[role] = u
             /\ \A other \in Roles \ {role} : boot'.people[other] = boot.people[other]
  BY <1>2, <1>3 DEF Progress, After
<1>4. CASE \E u \in Found(role) : boot' = [After(then) EXCEPT !.people[role] = u]
                                   /\ UNCHANGED <<users, issued>>
  <2>1. PICK u \in Found(role) : boot' = [After(then) EXCEPT !.people[role] = u]
                                   /\ UNCHANGED <<users, issued>>
    BY <1>4
  <2>2. u \in Users /\ u \in Found(role)'
    BY <2>1 DEF Found, Row
  <2>3. PersonFound(role, then)
    BY <1>1, <1>3, <2>1, <2>2 DEF PersonFound, Kept
  <2>4. boot' \in Progress /\ (DoneWhen' => DoneWhen)
    BY <1>1, <1>2, <1>3, <2>1, <2>2 DEF DoneWhen, Past
  <2>5. UNCHANGED <<tables, demo>>
    BY <1>1, <2>1 DEF tables
  <2> QED BY <2>3, <2>4, <2>5, Quiet
<1>5. CASE Found(role) = {} /\ \E u \in Users \ issued :
             /\ users' = Insert(users, u, [org |-> boot.org, role |-> role, email |-> role])
             /\ issued' = issued \cup {u}
             /\ boot' = [After(then) EXCEPT !.people[role] = u]
  <2> DEFINE row == [org |-> boot.org, role |-> role, email |-> role]
  <2>1. PICK u \in Users \ issued :
             /\ users' = Insert(users, u, row)
             /\ issued' = issued \cup {u}
             /\ boot' = [After(then) EXCEPT !.people[role] = u]
    BY <1>5
  <2>2. row \in UserRow /\ row.email = role
    BY SchemaAssumption, BootAssumption DEF BootInv, DataInv, TablesOK, UserRow
  <2>3. users \in [Users -> UserRow \cup {Null}] /\ ~Row(users, u)
    BY <2>1 DEF BootInv, DataInv, TablesOK, IdsIssued, UserTable
  <2>4. /\ users' \in UserTable /\ users'[u] = row /\ Kept(Users, users, users')
        /\ \A v \in Users : v # u => users'[v] = users[v]
    <3> HIDE DEF row
    <3>1. row \in UserRow
      BY <2>2
    <3> QED BY <2>1, <2>3, <3>1, InsertKeeps DEF UserTable
  <2>5. u \in Found(role)'
    BY <2>2, <2>4, SchemaAssumption DEF Found, Row
  <2>6. PersonFound(role, then)
    BY <1>1, <1>3, <2>1, <2>4, <2>5 DEF PersonFound
  <2>7. TablesOK' /\ IdsIssued'
    BY <1>1, <1>3, <2>1, <2>4 DEF BootInv, DataInv, TablesOK, IdsIssued, Row
  <2>8. ProjectsExist' /\ StrangersAreDemo'
    BY <1>1, <2>4, Grown DEF BootInv, Row
  <2>9. ~untouched
    BY <1>5 DEF BootInv, SeedInv, DoneWhen, SeedDone, EmailTaken, Found
  <2>10. ~Past({"redis", "db"})'
    BY <1>2, <1>3, <2>1 DEF Past
  <2>11. Kept(Projects, projects, projects') /\ Kept(Tasks, tasks, tasks')
    BY <1>1 DEF Kept
  <2> QED BY <1>1, <2>4, <2>6, <2>7, <2>8, <2>9, <2>10, <2>11, SeedInserts
<1>6. ASSUME Found(role) = {} PROVE ~EmailTaken(role)
  BY <1>6 DEF Found, EmailTaken
<1> QED BY <1>4, <1>5, <1>6, PickOne DEF SeedUser

LEMMA SeedPeopleKeep ==
  ASSUME BootInv,
         \/ SeedUser("seed.ADMIN", "ADMIN", "seed.MANAGER")
         \/ SeedUser("seed.MANAGER", "MANAGER", "seed.MEMBER")
         \/ SeedUser("seed.MEMBER", "MEMBER", "seed.project")
  PROVE  BootInv' /\ Repeats
<1> USE DEF Roles
<1>1. ASSUME NEW role, NEW then, PersonFound(role, then)
      PROVE  \A r : Found(r) \subseteq Found(r)'
  BY <1>1, FoundKept DEF PersonFound
<1>2. CASE SeedUser("seed.ADMIN", "ADMIN", "seed.MANAGER")
  <2>1. boot.org \in demo
    BY <1>2 DEF BootInv, SeedInv, SeedFound, Past, SeedUser, SeedStep, Command, Running
  <2>2. PersonFound("ADMIN", "seed.MANAGER") => SeedFound'
    BY <2>1 DEF PersonFound, SeedFound, Past
  <2> QED BY <1>2, <2>1, <2>2, SeedUserKeeps
<1>3. CASE SeedUser("seed.MANAGER", "MANAGER", "seed.MEMBER")
  <2>1. boot.org \in demo /\ boot.people["ADMIN"] \in Found("ADMIN")
    BY <1>3 DEF BootInv, SeedInv, SeedFound, Past, SeedUser, SeedStep, Command, Running
  <2>2. PersonFound("MANAGER", "seed.MEMBER") => SeedFound'
    BY <1>1, <2>1 DEF PersonFound, SeedFound, Past
  <2> QED BY <1>3, <2>1, <2>2, SeedUserKeeps
<1>4. CASE SeedUser("seed.MEMBER", "MEMBER", "seed.project")
  <2>1. /\ boot.org \in demo /\ boot.people["ADMIN"] \in Found("ADMIN")
        /\ boot.people["MANAGER"] \in Found("MANAGER")
    BY <1>4 DEF BootInv, SeedInv, SeedFound, Past, SeedUser, SeedStep, Command, Running
  <2>2. PersonFound("MEMBER", "seed.project") => SeedFound'
    BY <1>1, <2>1 DEF PersonFound, SeedFound, Past
  <2> QED BY <1>4, <2>1, <2>2, SeedUserKeeps
<1> QED BY <1>2, <1>3, <1>4

LEMMA SeedProjectKeeps ==
  ASSUME BootInv, SeedProject
  PROVE  BootInv' /\ Repeats
<1>1. /\ Running("seed.project") /\ UNCHANGED <<orgs, users, tasks, demo, untouched>>
  BY DEF SeedProject, SeedStep, Command
<1>2. /\ boot \in Progress /\ boot.org \in demo /\ boot.people["ADMIN"] \in Found("ADMIN")
      /\ boot.people["MANAGER"] \in Found("MANAGER") /\ boot.people["MEMBER"] \in Found("MEMBER")
  BY <1>1 DEF BootInv, DataInv, TablesOK, SeedInv, SeedFound, Past, Running
<1>3. Kept(Users, users, users') /\ \A role : Found(role)' = Found(role)
  BY <1>1 DEF Kept, Found
<1>4. ASSUME NEW p \in Projects, boot' = [After("seed.tasks") EXCEPT !.project = p],
             p \in DemoProjects(boot.org)'
      PROVE  boot' \in Progress /\ SeedFound' /\ (DoneWhen' => DoneWhen) /\ ~Past({"redis", "db"})'
  <2>1. /\ boot' \in Progress /\ boot'.pc = "seed.tasks" /\ boot'.org = boot.org
        /\ boot'.project = p /\ boot'.people = boot.people
    BY <1>2, <1>4 DEF Progress, After, BootPCs, SeedPCs
  <2> QED BY <1>1, <1>2, <1>3, <1>4, <2>1 DEF SeedFound, Past, DoneWhen
<1>5. CASE \E p \in DemoProjects(boot.org) : boot' = [After("seed.tasks") EXCEPT !.project = p]
                                              /\ UNCHANGED <<projects, issued>>
  <2>1. PICK p \in DemoProjects(boot.org) : boot' = [After("seed.tasks") EXCEPT !.project = p]
                                              /\ UNCHANGED <<projects, issued>>
    BY <1>5
  <2>2. boot'.org = boot.org
    BY <1>2, <2>1 DEF Progress, After
  <2>3. p \in Projects /\ p \in DemoProjects(boot.org)'
    BY <2>1, <2>2 DEF DemoProjects, Row
  <2>4. UNCHANGED <<tables, demo>>
    BY <1>1, <2>1 DEF tables
  <2> QED BY <1>4, <2>1, <2>3, <2>4, Quiet
<1>6. CASE DemoProjects(boot.org) = {} /\ \E p \in Projects \ issued :
             /\ projects' = Insert(projects, p, [org |-> boot.org, name |-> DemoProject])
             /\ issued' = issued \cup {p}
             /\ boot' = [After("seed.tasks") EXCEPT !.project = p]
  <2> DEFINE row == [org |-> boot.org, name |-> DemoProject]
  <2>1. PICK p \in Projects \ issued :
             /\ projects' = Insert(projects, p, row)
             /\ issued' = issued \cup {p}
             /\ boot' = [After("seed.tasks") EXCEPT !.project = p]
    BY <1>6
  <2>2. row \in ProjectRow
    BY <1>2, BootAssumption DEF BootInv, DataInv, TablesOK, ProjectRow
  <2>3. projects \in [Projects -> ProjectRow \cup {Null}] /\ ~Row(projects, p)
    BY <2>1 DEF BootInv, DataInv, TablesOK, IdsIssued, ProjectTable
  <2>4. /\ projects' \in ProjectTable /\ projects'[p] = row /\ Kept(Projects, projects, projects')
        /\ \A q \in Projects : q # p => projects'[q] = projects[q]
    <3> HIDE DEF row
    <3>1. row \in ProjectRow
      BY <2>2
    <3>2. /\ Insert(projects, p, row) \in [Projects -> ProjectRow \cup {Null}]
          /\ Insert(projects, p, row)[p] = row /\ Kept(Projects, projects, Insert(projects, p, row))
          /\ \A q \in Projects : q # p => Insert(projects, p, row)[q] = projects[q]
      <4>1. p \in Projects
        BY <2>1
      <4> QED BY <2>3, <3>1, <4>1, InsertKeeps
    <3> QED BY <2>1, <3>2 DEF ProjectTable
  <2>5. boot'.org = boot.org
    BY <1>2, <2>1 DEF Progress, After
  <2>6. p \in DemoProjects(boot.org)'
    BY <2>2, <2>4, <2>5, SchemaAssumption DEF DemoProjects, Row
  <2>7. boot' \in Progress /\ SeedFound' /\ ~Past({"redis", "db"})'
    BY <1>4, <2>1, <2>6
  <2>8. TablesOK' /\ IdsIssued'
    BY <1>1, <2>1, <2>4, <2>7 DEF BootInv, DataInv, TablesOK, IdsIssued, Row
  <2>9. ProjectsExist' /\ StrangersAreDemo'
    BY <1>1, <1>3, <2>4, Grown DEF BootInv, Row, Kept
  <2>10. untouched => ~OneDemo
    BY <1>2, <1>6 DEF BootInv, SeedInv, DoneWhen, SeedDone, OneDemo
  <2>11. Kept(Tasks, tasks, tasks')
    BY <1>1 DEF Kept
  <2> QED BY <1>1, <1>3, <2>4, <2>7, <2>8, <2>9, <2>10, <2>11, SeedInserts
<1> QED BY <1>5, <1>6, PickOne DEF SeedProject

\* The rows createMany writes: about accounts that are there, by their demo
\* addresses, in a project of an organization 'Demo Corp'.
Samples ==
  {Sample("ADMIN", "DONE", "HIGH"), Sample("MANAGER", "IN_PROGRESS", "HIGH"),
   Sample("MANAGER", "TODO", "MEDIUM")}

LEMMA SamplesFit ==
  ASSUME BootInv, Running("seed.tasks")
  PROVE  /\ Samples \subseteq TaskRow
         /\ \A s \in Samples : s.project = boot.project
         /\ \A s \in Samples : \A u \in {s.creator, s.assignee} :
              Row(users, u) /\ users[u].email \in Roles
<1> USE DEF Roles
<1>1. /\ boot.people["ADMIN"] \in Found("ADMIN") /\ boot.people["MANAGER"] \in Found("MANAGER")
      /\ boot.people["MEMBER"] \in Found("MEMBER") /\ boot.project \in DemoProjects(boot.org)
  BY DEF BootInv, SeedInv, SeedFound, Past, Running
<1>2. \A role \in Roles : /\ boot.people[role] \in Users
                          /\ Row(users, boot.people[role]) /\ users[boot.people[role]].email = role
  BY <1>1 DEF Found
<1>3. boot.project \in Projects
  BY <1>1 DEF DemoProjects
<1>4. ASSUME NEW creator \in {"ADMIN", "MANAGER"}, NEW status \in Statuses, NEW priority \in Priorities,
             NEW s, s = Sample(creator, status, priority)
      PROVE  /\ s \in TaskRow /\ s.project = boot.project
             /\ \A u \in {s.creator, s.assignee} : Row(users, u) /\ users[u].email \in Roles
  <2>1. s \in TaskRow
    BY <1>2, <1>3, <1>4, Zenon DEF TaskRow, Sample
  <2> QED BY <1>2, <1>4, <2>1 DEF Sample
<1> QED BY <1>4 DEF Samples, Statuses, Priorities

LEMMA SeedTasksKeeps ==
  ASSUME BootInv, SeedTasks
  PROVE  BootInv' /\ Repeats
<1>1. /\ Running("seed.tasks") /\ UNCHANGED <<orgs, users, projects, demo, untouched>>
      /\ boot' = After("redis")
  BY DEF SeedTasks, SeedStep, Command
<1>2. /\ boot.org \in demo /\ boot.people["ADMIN"] \in Found("ADMIN")
      /\ boot.people["MANAGER"] \in Found("MANAGER") /\ boot.people["MEMBER"] \in Found("MEMBER")
      /\ boot.project \in DemoProjects(boot.org)
  BY <1>1 DEF BootInv, SeedInv, SeedFound, Past, Running
<1>3. /\ boot' \in Progress /\ SeedFound'
  BY <1>1 DEF BootInv, DataInv, TablesOK, Progress, After, BootPCs, SeedFound, Past
<1>4. \A role \in Roles : EmailTaken(role)
  BY <1>2 DEF Found, EmailTaken, Roles
<1>5. boot.project \in Projects
  BY <1>2 DEF DemoProjects
<1>6. CASE ~NoTasks(boot.project)
  <2>1. SeedDone
    BY <1>2, <1>4, <1>5, <1>6 DEF SeedDone, NoTasks
  <2>2. UNCHANGED <<tables, demo>>
    BY <1>1, <1>6 DEF SeedTasks, tables
  <2>3. BootInv /\ SeedDone'
    BY <2>1, <2>2, <1>1 DEF tables, SeedDone, EmailTaken, DemoProjects, HasTasks, Row
  <2>4. TablesOK' /\ IdsIssued' /\ ProjectsExist' /\ StrangersAreDemo'
    BY <1>3, <2>2 DEF tables, BootInv, DataInv, TablesOK, IdsIssued, ProjectsExist, StrangersAreDemo, Row
  <2> QED BY <1>3, <2>2, <2>3, <2>4 DEF BootInv, DataInv, SeedInv, Repeats
<1>7. CASE NoTasks(boot.project)
  <2> DEFINE left == Tasks \ issued
             a == Pick(left)
             b == Pick(left \ {a})
             c == Pick(left \ {a, b})
             ids == {a, b, c}
             New(t) == IF t = c THEN Sample("MANAGER", "TODO", "MEDIUM")
                       ELSE IF t = b THEN Sample("MANAGER", "IN_PROGRESS", "HIGH")
                       ELSE Sample("ADMIN", "DONE", "HIGH")
  <2>1. /\ left # {} /\ left \ {a} # {} /\ left \ {a, b} # {} /\ issued' = issued \cup ids
        /\ tasks' = [tasks EXCEPT ![a] = Sample("ADMIN", "DONE", "HIGH"),
                                  ![b] = Sample("MANAGER", "IN_PROGRESS", "HIGH"),
                                  ![c] = Sample("MANAGER", "TODO", "MEDIUM")]
    BY <1>7 DEF SeedTasks
  <2>2. a \in left /\ b \in left \ {a} /\ c \in left \ {a, b}
    BY <2>1, PickOne
  <2>3. ids \subseteq Tasks \ issued
    BY <2>2
  <2>4. \A t : New(t) \in Samples
    BY DEF Samples
  <2>5. \A t \in Tasks : tasks'[t] = IF t \in ids THEN New(t) ELSE tasks[t]
    <3> HIDE DEF left, a, b, c
    <3> QED BY <2>1 DEF BootInv, DataInv, TablesOK, TaskTable
  <2>6. /\ Samples \subseteq TaskRow
        /\ \A s \in Samples : s.project = boot.project
        /\ \A s \in Samples : \A u \in {s.creator, s.assignee} :
              Row(users, u) /\ users[u].email \in Roles
    BY <1>1, SamplesFit
  <2> HIDE DEF left, a, b, c, ids, New
  <2>7. \A t \in Tasks : Row(tasks, t) => t \notin ids
    BY <2>3 DEF BootInv, DataInv, IdsIssued
  <2>8. tasks' \in TaskTable
    <3>1. tasks' \in [Tasks -> {tasks'[t] : t \in Tasks}]
      BY <2>1 DEF BootInv, DataInv, TablesOK, TaskTable
    <3>2. \A t \in Tasks : tasks'[t] \in TaskRow \cup {Null}
      BY <2>4, <2>5, <2>6 DEF BootInv, DataInv, TablesOK, TaskTable
    <3> QED BY <3>1, <3>2 DEF TaskTable
  <2>9. TablesOK' /\ IdsIssued'
    BY <1>1, <1>3, <2>1, <2>5, <2>8 DEF BootInv, DataInv, TablesOK, IdsIssued, Row
  <2>10. Row(projects, boot.project) /\ projects[boot.project].org \in demo
    BY <1>2 DEF DemoProjects
  <2>11. ASSUME NEW t \in Tasks, Row(tasks', t)
         PROVE  /\ Row(projects', tasks'[t].project)
                /\ \A u \in {tasks'[t].creator, tasks'[t].assignee} \ {Null} :
                     /\ Row(users', u)
                     /\ users'[u].org # projects'[tasks'[t].project].org =>
                          users'[u].email \in Roles /\ projects'[tasks'[t].project].org \in demo'
    <3>1. CASE t \in ids
      BY <1>1, <2>4, <2>5, <2>6, <2>10, <3>1 DEF Row
    <3>2. CASE t \notin ids
      <4>1. tasks'[t] = tasks[t] /\ Row(tasks, t)
        BY <2>5, <2>11, <3>2 DEF Row
      <4> QED BY <1>1, <4>1 DEF BootInv, DataInv, ProjectsExist, StrangersAreDemo, Row
    <3> QED BY <3>1, <3>2
  <2>12. ProjectsExist' /\ StrangersAreDemo'
    BY <2>11 DEF ProjectsExist, StrangersAreDemo, Row
  <2>13. \E t \in Tasks : Row(tasks', t) /\ tasks'[t].project = boot.project
    <3>1. PICK t \in Tasks : t \in ids
      BY <2>3 DEF ids
    <3>2. tasks'[t] \in Samples
      BY <2>4, <2>5, <3>1
    <3> QED BY <2>6, <3>2, SchemaAssumption DEF Row
  <2>14. SeedDone'
    BY <1>1, <1>2, <1>4, <1>5, <2>13 DEF SeedDone, EmailTaken, DemoProjects, HasTasks, Row
  <2>15. untouched => ~OneDemo
    <3> SUFFICES ASSUME untouched, OneDemo PROVE FALSE
      OBVIOUS
    <3>1. PICK o \in demo, p \in Projects : p \in DemoProjects(o) /\ HasTasks(p)
      BY DEF BootInv, SeedInv, DoneWhen, SeedDone
    <3>2. o = boot.org /\ p = boot.project
      BY <1>2, <3>1 DEF OneDemo
    <3> QED BY <1>7, <3>1, <3>2 DEF NoTasks
  <2>16. /\ Kept(Users, users, users') /\ Kept(Projects, projects, projects')
         /\ Kept(Tasks, tasks, tasks')
    BY <1>1, <2>5, <2>7 DEF Kept
  <2> QED BY <1>1, <1>3, <2>9, <2>12, <2>14, <2>15, <2>16, SeedInserts
<1> QED BY <1>6, <1>7

LEMMA SeedKeeps ==
  ASSUME BootInv, Seed
  PROVE  BootInv' /\ Repeats
BY SeedOrgKeeps, SeedPeopleKeep, SeedProjectKeeps, SeedTasksKeeps DEF Seed

(* ---- the API while the server listens ----------------------------------------- *)

USE DEF Board!Row, Board!Insert, Board!Delete, Board!EmailTaken, Board!HasTasks,
        Board!HasCreated, Board!UnassignAll, Board!Holds, Board!Roles, Board!Managers

\* The rows a task names are there.
LEMMA RefsThere ==
  ASSUME DataInv, NEW t \in Tasks, Row(tasks, t)
  PROVE  /\ tasks[t] \in TaskRow
         /\ tasks[t].project \in Projects /\ Row(projects, tasks[t].project)
         /\ tasks[t].creator \in Users /\ Row(users, tasks[t].creator)
         /\ tasks[t].assignee \in Users \cup {Null}
         /\ tasks[t].assignee # Null => Row(users, tasks[t].assignee)
<1>1. tasks[t] \in TaskRow
  BY RowTyped DEF DataInv
<1>2. /\ tasks[t].project \in Projects /\ tasks[t].creator \in Users
      /\ tasks[t].assignee \in Users \cup {Null} /\ tasks[t].creator # Null
  BY <1>1, SchemaAssumption DEF TaskRow
<1> QED BY <1>1, <1>2 DEF DataInv, ProjectsExist, StrangersAreDemo

LEMMA AddAccountKeeps ==
  ASSUME DataInv, boot' = boot, Board!AddAccount, demo' \in {demo, demo \cup (orgs' \ orgs)}
  PROVE  DataInv'
<1>1. PICK v \in Users \ issued, o \in Orgs, role \in Roles, e \in Emails :
        /\ orgs' = orgs \cup {o}
        /\ users' = [users EXCEPT ![v] = [org |-> o, role |-> role, email |-> e]]
        /\ issued' = issued \cup {v}
  BY DEF Board!AddAccount, Roles
<1>2. UNCHANGED <<projects, tasks>>
  BY DEF Board!AddAccount
<1> DEFINE row == [org |-> o, role |-> role, email |-> e]
<1>3. row \in UserRow
  BY DEF UserRow
<1> HIDE DEF row
<1>4. users' = [users EXCEPT ![v] = row]
  BY <1>1 DEF row
<1>5. users' \in UserTable /\ \A w \in Users : w # v => users'[w] = users[w]
  BY <1>3, <1>4 DEF DataInv, TablesOK, UserTable
<1>6. Kept(Users, users, users')
  BY <1>1, <1>5 DEF DataInv, IdsIssued, Kept
<1>7. demo \subseteq demo' /\ demo' \subseteq orgs' /\ orgs' \subseteq Orgs
  BY <1>1 DEF DataInv, TablesOK
<1>8. TablesOK' /\ IdsIssued'
  BY <1>1, <1>2, <1>5, <1>7 DEF DataInv, TablesOK, IdsIssued, Row
<1>9. ProjectsExist' /\ StrangersAreDemo'
  BY <1>2, <1>6, <1>7, Grown DEF Row
<1> QED BY <1>8, <1>9 DEF DataInv

\* An account leaves: it created no task, and the tasks it was assigned are
\* unassigned.
LEMMA RemoveAccountKeeps ==
  ASSUME DataInv, boot' = boot, NEW u \in Users, NEW v \in Users, Board!RemoveAccount(u, v),
         demo' \in {demo, demo \cup (orgs' \ orgs)}
  PROVE  DataInv'
<1>1. /\ UNCHANGED <<orgs, projects, issued>> /\ demo' = demo
      /\ users' = [users EXCEPT ![v] = Null]
      /\ tasks' = [t \in Tasks |-> IF Row(tasks, t) /\ tasks[t].assignee = v
                                   THEN [tasks[t] EXCEPT !.assignee = Null] ELSE tasks[t]]
      /\ \A t \in Tasks : Row(tasks, t) => tasks[t].creator # v
  BY DEF Board!RemoveAccount, Row
<1>2. users' \in UserTable /\ users'[v] = Null /\ \A w \in Users : w # v => users'[w] = users[w]
  BY <1>1 DEF DataInv, TablesOK, UserTable
<1>3. ASSUME NEW t \in Tasks, Row(tasks, t)
      PROVE  /\ tasks'[t] \in TaskRow
             /\ tasks'[t].project = tasks[t].project /\ tasks'[t].creator = tasks[t].creator
             /\ tasks'[t].assignee \in {tasks[t].assignee, Null} /\ tasks'[t].assignee # v
  <2>1. tasks[t] \in TaskRow /\ v # Null
    BY <1>3, RefsThere, SchemaAssumption
  <2>2. CASE tasks[t].assignee = v
    <3>1. tasks'[t] = [tasks[t] EXCEPT !.assignee = Null]
      BY <1>1, <1>3, <2>2
    <3> QED BY <2>1, <3>1 DEF TaskRow
  <2>3. CASE tasks[t].assignee # v
    BY <1>1, <2>1, <2>3
  <2> QED BY <2>2, <2>3
<1>4. ASSUME NEW t \in Tasks PROVE (Row(tasks', t) => Row(tasks, t)) /\ (~Row(tasks, t) => tasks'[t] = Null)
  BY <1>1 DEF Row
<1>5. tasks' \in TaskTable
  <2>1. \A t \in Tasks : tasks'[t] \in TaskRow \cup {Null}
    BY <1>3, <1>4
  <2>2. tasks' = [t \in Tasks |-> tasks'[t]]
    BY <1>1
  <2> QED BY <2>1, <2>2 DEF TaskTable
<1>6. TablesOK' /\ IdsIssued'
  BY <1>1, <1>2, <1>4, <1>5 DEF DataInv, TablesOK, IdsIssued, Row
<1>7. ASSUME NEW t \in Tasks, Row(tasks', t)
      PROVE  /\ Row(tasks, t)
             /\ tasks'[t].project = tasks[t].project /\ tasks'[t].creator = tasks[t].creator
             /\ tasks'[t].assignee \in {tasks[t].assignee, Null}
             /\ Row(projects', tasks[t].project)
             /\ projects'[tasks[t].project].org = projects[tasks[t].project].org
             /\ users'[tasks[t].creator] = users[tasks[t].creator]
             /\ tasks'[t].assignee # Null => users'[tasks[t].assignee] = users[tasks[t].assignee]
  <2>1. Row(tasks, t)
    BY <1>4, <1>7
  <2> QED BY <1>1, <1>2, <1>3, <2>1, RefsThere
<1> QED BY <1>1, <1>6, <1>7, TasksKept DEF DataInv

LEMMA WriteProjectKeeps ==
  ASSUME DataInv, boot' = boot, NEW u \in Users, Board!WriteProject(u),
         demo' \in {demo, demo \cup (orgs' \ orgs)}
  PROVE  DataInv'
<1>1. UNCHANGED <<orgs, users, tasks>> /\ demo' = demo
  BY DEF Board!WriteProject
<1>2. PICK p \in Projects, o \in orgs, n \in Names :
        /\ p \notin issued \/ (Row(projects, p) /\ projects[p].org = o)
        /\ projects' = [projects EXCEPT ![p] = [org |-> o, name |-> n]]
        /\ issued' = issued \cup {p}
  BY DEF Board!WriteProject, Row
<1> DEFINE row == [org |-> o, name |-> n]
<1>3. row \in ProjectRow /\ row.org = o
  BY DEF DataInv, TablesOK, ProjectRow
<1> HIDE DEF row
<1>4. projects' = [projects EXCEPT ![p] = row]
  BY <1>2 DEF row
<1>5. /\ projects' \in ProjectTable /\ projects'[p] = row
      /\ \A q \in Projects : q # p => projects'[q] = projects[q]
  BY <1>3, <1>4 DEF DataInv, TablesOK, ProjectTable
<1>6. \A q \in Projects : Row(projects, q) =>
        Row(projects', q) /\ projects'[q].org = projects[q].org
  BY <1>2, <1>3, <1>5, SchemaAssumption DEF DataInv, IdsIssued, Row
<1>7. TablesOK' /\ IdsIssued'
  BY <1>1, <1>2, <1>5 DEF DataInv, TablesOK, IdsIssued, Row
<1>8. ProjectsExist' /\ StrangersAreDemo'
  BY <1>1, <1>6, Grown DEF Kept
<1> QED BY <1>7, <1>8 DEF DataInv

LEMMA DeleteTaskKeeps ==
  ASSUME DataInv, boot' = boot, NEW u \in Users, NEW t \in Tasks, Board!DeleteTask(u, t),
         demo' \in {demo, demo \cup (orgs' \ orgs)}
  PROVE  DataInv'
<1>1. /\ UNCHANGED <<orgs, users, projects, issued>> /\ demo' = demo
      /\ tasks' = [tasks EXCEPT ![t] = Null]
  BY DEF Board!DeleteTask
<1>2. tasks' \in TaskTable /\ \A x \in Tasks : Row(tasks', x) => Row(tasks, x) /\ tasks'[x] = tasks[x]
  BY <1>1 DEF DataInv, TablesOK, TaskTable, Row
<1>3. TablesOK' /\ IdsIssued'
  BY <1>1, <1>2 DEF DataInv, TablesOK, IdsIssued, Row
<1>4. ProjectsExist' /\ StrangersAreDemo'
  BY <1>1, <1>2, RefsThere, TasksKept
<1> QED BY <1>3, <1>4 DEF DataInv

LEMMA DeleteProjectKeeps ==
  ASSUME DataInv, boot' = boot, NEW u \in Users, NEW p \in Projects, Board!DeleteProject(u, p),
         demo' \in {demo, demo \cup (orgs' \ orgs)}
  PROVE  DataInv'
<1>1. /\ UNCHANGED <<orgs, users, tasks, issued>> /\ demo' = demo
      /\ projects' = [projects EXCEPT ![p] = Null]
      /\ \A t \in Tasks : Row(tasks, t) => tasks[t].project # p
  BY DEF Board!DeleteProject, Row
<1>2. /\ projects' \in ProjectTable
      /\ \A q \in Projects : Row(projects', q) => Row(projects, q)
      /\ \A q \in Projects : q # p => projects'[q] = projects[q]
  BY <1>1 DEF DataInv, TablesOK, ProjectTable, Row
<1>3. TablesOK' /\ IdsIssued'
  BY <1>1, <1>2 DEF DataInv, TablesOK, IdsIssued, Row
<1>4. ASSUME NEW t \in Tasks, Row(tasks', t)
      PROVE  /\ Row(tasks, t) /\ Row(projects', tasks[t].project)
             /\ projects'[tasks[t].project] = projects[tasks[t].project]
  BY <1>1, <1>2, <1>4, RefsThere DEF Row
<1>5. ProjectsExist' /\ StrangersAreDemo'
  BY <1>1, <1>4, TasksKept
<1> QED BY <1>3, <1>5 DEF DataInv

LEMMA UseKeeps ==
  ASSUME BootInv, Use
  PROVE  BootInv' /\ Repeats
<1>1. /\ UNCHANGED boot /\ boot.pc \in {"serving", "closing"} /\ ~untouched'
      /\ demo' \in {demo, demo \cup (orgs' \ orgs)}
  BY DEF Use
<1>2. DataInv'
  BY <1>1, AddAccountKeeps, RemoveAccountKeeps, WriteProjectKeeps, DeleteTaskKeeps,
     DeleteProjectKeeps DEF BootInv, Use
<1>3. SeedFound' /\ ~DoneWhen'
  BY <1>1 DEF SeedFound, DoneWhen, Past
<1> QED BY <1>1, <1>2, <1>3 DEF BootInv, SeedInv, Repeats

(* ---- the theorems -------------------------------------------------------------- *)

LEMMA BootInitInv ==
  ASSUME BootInit
  PROVE  BootInv
<1>1. boot = Fresh /\ ~untouched
  BY DEF BootInit
<1>2. Fresh = [Fresh EXCEPT !.pc = "migrate"]
  BY DEF Fresh
<1>3. boot \in Progress /\ boot.pc = "migrate"
  BY <1>1 DEF Fresh, Progress, BootPCs
<1>4. SeedFound /\ ~DoneWhen
  BY <1>1, <1>3 DEF SeedFound, DoneWhen, Past
<1>5. CASE NoTables /\ demo = {}
  <2>1. TablesOK /\ IdsIssued
    BY <1>3, <1>5 DEF NoTables, TablesOK, IdsIssued, Row, UserTable, ProjectTable, TaskTable
  <2>2. ProjectsExist /\ StrangersAreDemo
    BY <1>5 DEF NoTables, ProjectsExist, StrangersAreDemo, Row
  <2> QED BY <1>4, <2>1, <2>2 DEF BootInv, DataInv, SeedInv
<1>6. CASE SchemaInit /\ demo \in SUBSET orgs
  <2>1. /\ orgs = InitOrgs /\ users = InitUsers /\ projects = InitProjects /\ tasks = InitTasks
        /\ LegalTables(users, projects, tasks) /\ orgs \subseteq Orgs
    BY <1>6, SchemaAssumption DEF SchemaInit
  <2>2. TablesOK
    BY <1>3, <1>6, <2>1 DEF TablesOK, LegalTables
  <2>3. IdsIssued
    BY <1>6, <2>1 DEF SchemaInit, IdsIssued
  <2>4. ProjectsExist /\ StrangersAreDemo
    BY <2>1 DEF LegalTables, ProjectsExist, StrangersAreDemo
  <2> QED BY <1>4, <2>2, <2>3, <2>4 DEF BootInv, DataInv, SeedInv
<1> QED BY <1>5, <1>6 DEF BootInit

LEMMA NextKeeps ==
  ASSUME BootInv, BootNext
  PROVE  BootInv' /\ Repeats
<1>1. CASE BootStep
  BY <1>1, MigrateKeeps, SeedKeeps, SeedFailsKeeps, ConnectKeeps, ListenKeeps, ClosedKeeps,
     RestartKeeps DEF BootStep
<1>2. CASE Signal \/ ComposeUp \/ Use \/ Die
  BY <1>2, SignalKeeps, RestartKeeps, UseKeeps, DieKeeps
<1>3. CASE \E s \in Services : Outage(s) \/ Recover(s)
  BY <1>3, ServicesKeep
<1> QED BY <1>1, <1>2, <1>3 DEF BootNext

LEMMA StutterKeeps ==
  ASSUME BootInv, UNCHANGED bootVars
  PROVE  BootInv' /\ Repeats
<1>1. UNCHANGED <<tables, demo, boot, untouched>>
  BY DEF bootVars
<1>2. boot' \in Progress /\ UNCHANGED <<users, projects>>
  BY <1>1 DEF BootInv, DataInv, TablesOK, tables
<1>3. SeedFound' /\ (DoneWhen' => DoneWhen)
  BY <1>1, <1>2 DEF BootInv, SeedInv, SeedFound, Past, Found, DemoProjects, Row, DoneWhen
<1> QED BY <1>1, <1>2, <1>3, Quiet

\* The tables stay well formed and every look-up of the seed stays answered:
\* the invariant the other theorems follow from.
THEOREM BootIsInductive == BootSpec => []BootInv
<1>1. BootInit => BootInv
  BY BootInitInv
<1>2. BootInv /\ [BootNext]_bootVars => BootInv'
  BY NextKeeps, StutterKeeps
<1> QED BY <1>1, <1>2, PTL DEF BootSpec

\* A server that listens has the accounts of the seed and a demo project with
\* tasks (README.md:33), at whatever step an earlier seed or server died.
THEOREM SeedCompletes == BootSpec => []DemoReady
<1>1. BootInv => DemoReady
  BY DEF BootInv, SeedInv, DoneWhen, SeedDone, DemoReady
<1> QED BY <1>1, BootIsInductive, PTL

\* The seed's look-ups by address across organizations lead it to strangers
\* only by a demo address, and only into the tasks of a 'Demo Corp'.
THEOREM StrangersBounded == BootSpec => []StrangersAreDemo
<1>1. BootInv => StrangersAreDemo
  BY DEF BootInv, DataInv
<1> QED BY <1>1, BootIsInductive, PTL

\* "Idempotent seed -- safe to re-run" (seed.js:1): a start that follows a
\* completed one writes nothing, unless two rows answer one of its look-ups.
THEOREM SeedRepeatsNothing == BootSpec => SeedIsIdempotent
<1>1. BootInv /\ [BootNext]_bootVars =>
        [untouched /\ untouched' /\ OneDemo => UNCHANGED tables]_bootVars
  BY NextKeeps DEF Repeats
<1> QED BY <1>1, BootIsInductive, PTL DEF BootSpec, SeedIsIdempotent
=============================================================================
