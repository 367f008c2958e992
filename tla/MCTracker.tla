----------------------------- MODULE MCTracker -----------------------------
(***************************************************************************)
(* Instances of Tracker for TLC: the people, projects and tasks the server *)
(* starts with and, for each question, the calls its clients make.         *)
(***************************************************************************)
EXTENDS Tracker, TLC

CONSTANTS
  o1, o2,                    \* organizations
  ann, amy, max, mia, moe,   \* of o1: two ADMINs, a MANAGER, two MEMBERs
  zed,                       \* the ADMIN of o2
  u1, u2,                    \* ids for accounts yet to come
  p1, p2, p3,                \* p1 in o1, p2 in o2, p3 yet to come
  t1, t2,                    \* t1 a task of p1, t2 yet to come
  e1                         \* the e-mail address of an account yet to come

People == [u \in {ann, amy} |-> "ADMIN"] @@ (max :> "MANAGER")
            @@ [u \in {mia, moe} |-> "MEMBER"] @@ (zed :> "ADMIN")

OrgOfUser(u) == IF u = zed THEN o2 ELSE o1

\* Each account that exists at the start has an e-mail address named after it.
MCEmails == Users \cup {e1}
MCUsers ==
  [u \in Users |-> IF u \in DOMAIN People
     THEN [org |-> OrgOfUser(u), role |-> People[u], email |-> u] ELSE Null]
MCProjects ==
  [p \in Projects |-> IF p = p3 THEN Null
     ELSE [org |-> IF p = p2 THEN o2 ELSE o1, name |-> "alpha"]]
MCTask == [project |-> p1, assignee |-> mia, creator |-> max,
           status |-> "TODO", priority |-> "MEDIUM", completedAt |-> FALSE]
MCTasks == [t \in Tasks |-> IF t = t1 THEN MCTask ELSE Null]

(* ---- calls ---------------------------------------------------------------- *)

MCNames == {"alpha", "beta"}

Blank(op, u) ==
  [op |-> op, caller |-> u, id |-> Null, project |-> Null, assignee |-> Absent,
   status |-> "all", priority |-> Absent, role |-> "MEMBER", email |-> e1, name |-> "alpha"]

List(u, a, s)     == [Blank("listTasks", u) EXCEPT !.assignee = a, !.status = s, !.priority = "all"]
GetOne(u, t)      == [Blank("getTask", u) EXCEPT !.id = t]
Create(u, p, a)   == [Blank("createTask", u) EXCEPT !.project = p, !.assignee = a]
Assign(u, t, a)   == [Blank("updateTask", u) EXCEPT !.id = t, !.assignee = a]
Rate(u, t, p)     == [Blank("updateTask", u) EXCEPT !.id = t, !.priority = p]
Move(u, t, s)     == [Blank("updateTaskStatus", u) EXCEPT !.id = t, !.status = s]
Remove(u, t)      == [Blank("deleteTask", u) EXCEPT !.id = t]
NewProject(u)     == [Blank("createProject", u) EXCEPT !.name = "beta"]
Rename(u, p, n)   == [Blank("updateProject", u) EXCEPT !.id = p, !.name = n]
DropProject(u, p) == [Blank("deleteProject", u) EXCEPT !.id = p]
Invite(u, r, e)   == [Blank("inviteUser", u) EXCEPT !.role = r, !.email = e]
SetRole(u, v, r)  == [Blank("updateUserRole", u) EXCEPT !.id = v, !.role = r]
DropUser(u, v)    == [Blank("deleteUser", u) EXCEPT !.id = v]
Register(e)       == [Blank("register", Null) EXCEPT !.email = e]

\* Moves, creation, edits and deletion of a task by its possible assignee and
\* a manager, among accounts, with a free address and one in use, and projects.
IsolatedCalls ==
  {Move(u, t, s) : u \in {max, mia}, t \in Tasks, s \in Statuses}
  \cup {Create(u, p, a) : u \in {max, mia}, p \in {p1, p3}, a \in {Absent, mia, zed}}
  \cup {Assign(max, t, a) : t \in Tasks, a \in {Null, mia, zed}}
  \cup {Rate(max, t, "HIGH") : t \in Tasks}
  \cup {GetOne(u, t) : u \in {mia, zed}, t \in Tasks}
  \cup {Remove(max, t) : t \in Tasks}
  \cup {Register(e) : e \in {e1, max}}
  \cup {Invite(u, r, e) : u \in {ann, max}, r \in {"ADMIN", "MEMBER"}, e \in {e1, max}}
  \cup {SetRole(u, v, r) : u, v \in {ann, max, u1}, r \in {"ADMIN", "MEMBER"}}
  \cup {DropUser(u, v) : u, v \in {ann, max, u1}}
  \cup {NewProject(ann)} \cup {Rename(ann, p, "beta") : p \in Projects}
  \cup {DropProject(ann, p) : p \in Projects}

\* Lists of one assignee among the writes that must invalidate them.  Taking
\* the assignee away and deleting the user are left to the other instances.
FreshCalls ==
  {List(mia, Absent, s) : s \in StatusFilters}
  \cup {List(max, a, s) : a \in {mia, moe, "all"}, s \in StatusFilters}
  \cup {Create(max, p1, a) : a \in {mia, moe, Absent}}
  \cup {Assign(max, t, a) : t \in Tasks, a \in {mia, moe}}
  \cup {Rate(max, t, "HIGH") : t \in Tasks}
  \cup {Move(max, t, s) : t \in Tasks, s \in {"BLOCKED", "TODO"}}
  \cup {Remove(max, t) : t \in Tasks}

\* Writes that race with the deletion of what they refer to, among lists through
\* the shared cache by a MEMBER, whose role changes, and managers who filter.
ConcurrentCalls ==
  {List(mia, Absent, "all"), List(max, mia, "all"), List(zed, mia, "all")}
  \cup {Create(u, p1, mia) : u \in {max, zed}}
  \cup {Assign(max, t, a) : t \in Tasks, a \in {Null, mia, zed}}
  \cup {SetRole(ann, mia, "MANAGER"), DropUser(ann, mia), DropUser(ann, max), DropProject(ann, p1)}

\* Everything that can leave a list stale: a write whose invalidation is lost,
\* and the three that have none, among lists of one MEMBER and of everybody.
SettleCalls ==
  {List(mia, Absent, "all"), List(max, Absent, "all")}
  \cup {Rate(max, t1, "HIGH"), Assign(max, t1, Null), Rename(max, p1, "beta"), DropUser(ann, mia)}

\* A fill and the invalidation of two assignees' lists.
OfflineCalls == {List(mia, Absent, "all")} \cup {Assign(max, t1, a) : a \in {mia, moe}}

\* A project is deleted, with its task and after it.
CascadeCalls == {DropProject(ann, p1), Remove(ann, t1)}

\* Two changes of status of one task.
MoveCalls == {Move(max, t1, s) : s \in {"IN_PROGRESS", "IN_REVIEW", "DONE", "BLOCKED"}}

\* A list of mia's tasks while one of them changes.
TrackCalls == {List(mia, Absent, "all"), Rate(max, t1, "HIGH")}

\* Two ADMINs take each other's role.
LockoutCalls == {SetRole(ann, amy, "MEMBER"), SetRole(amy, ann, "MEMBER")}

\* Request slots are interchangeable.
Slots == Permutations(Requests)
=============================================================================
