----------------------------- MODULE TaskBoard -----------------------------
(***************************************************************************)
(* What the API promises of its tables, without requests, awaits or cache: *)
(* every change is one operation, done in one step by a user who at that   *)
(* moment belongs to the organization and holds a role that permits it.    *)
(* (Roles and permissions of README.md, the workflow of README.md, the     *)
(* rules of the route files.)                                              *)
(***************************************************************************)
EXTENDS Schema

\* u is a user of organization o with one of the roles.
Holds(u, o, roles) == Row(users, u) /\ users[u].org = o /\ users[u].role \in roles
OrgOf(t) == projects[tasks[t].project].org
Member(u, o) == u = Null \/ Holds(u, o, Roles)

CreateTask(u) ==
  /\ \E t \in Tasks \ issued, p \in Projects, a \in Users \cup {Null}, pr \in Priorities :
       /\ Row(projects, p) /\ Holds(u, projects[p].org, Managers) /\ Member(a, projects[p].org)
       /\ tasks' = Insert(tasks, t, [project |-> p, assignee |-> a, creator |-> u,
            status |-> "TODO", priority |-> pr, completedAt |-> FALSE])
       /\ issued' = issued \cup {t}
  /\ UNCHANGED <<orgs, users, projects>>

EditTask(u, t) ==
  /\ Row(tasks, t) /\ Holds(u, OrgOf(t), Managers)
  /\ \E a \in Users \cup {Null}, p \in Priorities :
       /\ Member(a, OrgOf(t))
       /\ tasks' = [tasks EXCEPT ![t].assignee = a, ![t].priority = p]
  /\ UNCHANGED <<orgs, users, projects, issued>>

\* Only along the workflow, by the assignee or a manager; the date of
\* completion is set exactly when the task becomes DONE.
MoveTask(u, t) ==
  /\ Row(tasks, t) /\ Holds(u, OrgOf(t), Roles)
  /\ tasks[t].assignee = u \/ users[u].role \in Managers
  /\ \E s \in Statuses :
       /\ <<tasks[t].status, s>> \in AllowedTransitions
       /\ tasks' = [tasks EXCEPT ![t].status = s, ![t].completedAt = (s = "DONE")]
  /\ UNCHANGED <<orgs, users, projects, issued>>

DeleteTask(u, t) ==
  /\ Row(tasks, t) /\ Holds(u, OrgOf(t), Managers)
  /\ tasks' = Delete(tasks, t)
  /\ UNCHANGED <<orgs, users, projects, issued>>

WriteProject(u) ==
  /\ \E p \in Projects, o \in orgs, n \in Names :
       /\ Holds(u, o, Managers)
       /\ \/ p \notin issued
          \/ Row(projects, p) /\ projects[p].org = o
       /\ projects' = Insert(projects, p, [org |-> o, name |-> n])
       /\ issued' = issued \cup {p}
  /\ UNCHANGED <<orgs, users, tasks>>

DeleteProject(u, p) ==
  /\ Row(projects, p) /\ Holds(u, projects[p].org, {"ADMIN"})
  /\ ~HasTasks(p)
  /\ projects' = Delete(projects, p)
  /\ UNCHANGED <<orgs, users, tasks, issued>>

\* A new account: the first of a new organization is its ADMIN.
AddAccount ==
  /\ \E v \in Users \ issued, o \in Orgs, role \in Roles, e \in Emails :
       /\ ~EmailTaken(e)
       /\ \/ o \notin orgs /\ role = "ADMIN"
          \/ role # "ADMIN" /\ \E u \in Users : Holds(u, o, {"ADMIN"})
       /\ orgs' = orgs \cup {o}
       /\ users' = Insert(users, v, [org |-> o, role |-> role, email |-> e])
       /\ issued' = issued \cup {v}
  /\ UNCHANGED <<projects, tasks>>

ChangeRole(u, v) ==
  /\ u # v /\ Row(users, v) /\ Holds(u, users[v].org, {"ADMIN"})
  /\ \E role \in Roles : users' = [users EXCEPT ![v].role = role]
  /\ UNCHANGED <<orgs, projects, tasks, issued>>

RemoveAccount(u, v) ==
  /\ u # v /\ Row(users, v) /\ Holds(u, users[v].org, {"ADMIN"})
  /\ ~HasCreated(v)
  /\ users' = Delete(users, v)
  /\ tasks' = UnassignAll(v)
  /\ UNCHANGED <<orgs, projects, issued>>

Next ==
  \/ AddAccount
  \/ \E u \in Users :
       \/ CreateTask(u) \/ WriteProject(u)
       \/ \E t \in Tasks : EditTask(u, t) \/ MoveTask(u, t) \/ DeleteTask(u, t)
       \/ \E p \in Projects : DeleteProject(u, p)
       \/ \E v \in Users : ChangeRole(u, v) \/ RemoveAccount(u, v)

Spec == SchemaInit /\ [][Next]_tables
=============================================================================
