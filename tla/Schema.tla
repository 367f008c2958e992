------------------------------- MODULE Schema -------------------------------
(***************************************************************************)
(* The PostgreSQL tables of prisma/schema.prisma and the referential       *)
(* actions of the init migration.  A table maps each possible id to its    *)
(* row, or to Null when there is no such row.  Ids are uuids: `issued'     *)
(* remembers the ones handed out, and none is handed out twice.  The data  *)
(* kept of a task is what some guard, filter or property tells apart:      *)
(* priority stands for all metadata, completedAt is whether it is set.     *)
(***************************************************************************)
EXTENDS Policy

CONSTANTS
  Orgs, Users, Projects, Tasks, \* the ids of each table (a bound)
  Emails,                       \* e-mail addresses (a bound)
  Names,                        \* project names (a bound)
  Null,                         \* SQL NULL, "no row", JavaScript null
  InitOrgs, InitUsers, InitProjects, InitTasks  \* the database at start-up

VARIABLES
  orgs,      \* ids of the Organization table
  users, projects, tasks,
  issued     \* the uuids given out so far

tables == <<orgs, users, projects, tasks, issued>>

UserRow    == [org : Orgs, role : Roles, email : Emails]
ProjectRow == [org : Orgs, name : Names]
TaskRow    == [project : Projects, assignee : Users \cup {Null}, creator : Users,
               status : Statuses, priority : Priorities, completedAt : BOOLEAN]

UserTable    == [Users -> UserRow \cup {Null}]
ProjectTable == [Projects -> ProjectRow \cup {Null}]
TaskTable    == [Tasks -> TaskRow \cup {Null}]

Row(table, id)    == table[id] # Null
Insert(table, id, row) == [table EXCEPT ![id] = row]
Delete(table, id) == [table EXCEPT ![id] = Null]

\* findFirst({ where: { id, organizationId } }): the row, or Null.
InOrg(table, id, org) ==
  IF Row(table, id) /\ table[id].org = org THEN table[id] ELSE Null

\* Unique index User_email_key.
EmailTaken(email) == \E u \in Users : Row(users, u) /\ users[u].email = email

\* Foreign keys Task_assigneeId, Task_creatorId, Task_projectId on a write.
TaskKeysHold(row) ==
  /\ Row(projects, row.project)
  /\ Row(users, row.creator)
  /\ row.assignee # Null => Row(users, row.assignee)

\* ON DELETE RESTRICT: a project with tasks and the creator of a task stay.
HasTasks(p)   == \E t \in Tasks : Row(tasks, t) /\ tasks[t].project = p
HasCreated(u) == \E t \in Tasks : Row(tasks, t) /\ tasks[t].creator = u

\* ON DELETE SET NULL on Task_assigneeId.
UnassignAll(u) ==
  [t \in Tasks |-> IF Row(tasks, t) /\ tasks[t].assignee = u
                     THEN [tasks[t] EXCEPT !.assignee = Null] ELSE tasks[t]]

\* The rows a server can find when it starts: foreign keys hold inside one
\* organization, e-mails are unique, a completion date goes with DONE.
LegalTables(us, ps, ts) ==
  /\ us \in UserTable /\ ps \in ProjectTable /\ ts \in TaskTable
  /\ \A u \in Users : Row(us, u) => us[u].org \in InitOrgs
  /\ \A u, v \in Users : Row(us, u) /\ Row(us, v) /\ us[u].email = us[v].email => u = v
  /\ \A p \in Projects : Row(ps, p) => ps[p].org \in InitOrgs
  /\ \A t \in Tasks : Row(ts, t) =>
       /\ Row(ps, ts[t].project) /\ Row(us, ts[t].creator)
       /\ us[ts[t].creator].org = ps[ts[t].project].org
       /\ ts[t].assignee # Null =>
            /\ Row(us, ts[t].assignee)
            /\ us[ts[t].assignee].org = ps[ts[t].project].org
       /\ ts[t].completedAt <=> ts[t].status = "DONE"

ASSUME SchemaAssumption ==
  /\ Null \notin Orgs \cup Users \cup Projects \cup Tasks
  /\ Null \notin UserRow /\ Null \notin ProjectRow /\ Null \notin TaskRow
  /\ InitOrgs \subseteq Orgs
  /\ LegalTables(InitUsers, InitProjects, InitTasks)

SchemaInit ==
  /\ orgs = InitOrgs /\ users = InitUsers
  /\ projects = InitProjects /\ tasks = InitTasks
  /\ issued = {u \in Users : Row(InitUsers, u)} \cup {p \in Projects : Row(InitProjects, p)}
                \cup {t \in Tasks : Row(InitTasks, t)}
=============================================================================
