------------------------------ MODULE Tracker ------------------------------
(***************************************************************************)
(* The API server: the services over the shared tables and the shared      *)
(* cache, their requests interleaving at every await.                      *)
(***************************************************************************)
EXTENDS TasksService, ProjectsService, Accounts

CONSTANT MayCrash   \* whether the process can die with requests in flight

vars == <<tables, redis, req>>

Init == SchemaInit /\ CacheInit /\ RequestInit

EntryExpires(k) == Expire(k) /\ UNCHANGED <<tables, req>>

\* What the event loop does for a request once it has arrived.
Step(r) == TasksNext(r) \/ ProjectsNext(r) \/ AccountsNext(r) \/ Reply(r)

Next ==
  \/ \E r \in Requests : ArrivePublic(r) \/ Arrive(r) \/ Step(r)
  \/ \E k \in Key : EntryExpires(k)
  \/ MayCrash /\ Crash

Spec == Init /\ [][Next]_vars

\* Redis drops an entry whose hour is over.  No handler is assumed to go on,
\* and clients owe nothing.
Fairness == \A k \in Key : WF_vars(EntryExpires(k))

FairSpec == Spec /\ Fairness

(* ---- types -------------------------------------------------------------- *)

\* A handler runs for the operation that was called.
Routed(q) ==
  /\ q.pc \in ListPCs      => q.call.op = "listTasks"
  /\ q.pc = "get.find"     => q.call.op = "getTask"
  /\ q.pc \in CreatePCs    => q.call.op = "createTask"
  /\ q.pc \in UpdatePCs    => q.call.op = "updateTask"
  /\ q.pc \in StatusPCs    => q.call.op = "updateTaskStatus"
  /\ q.pc \in DeletePCs    => q.call.op = "deleteTask"
  /\ q.pc = "create.assignee" => q.call.assignee \in Users
  /\ q.pc = "update.assignee" => q.call.assignee \in Users

\* What a handler holds at each await.
Held(q) ==
  /\ q.pc # "idle" => q.call \in Calls
  /\ q.pc \in HandlerPCs \ PublicPCs => q.user \in User
  /\ q.pc \in {"update.assignee", "update.write", "status.write", "delete.write"} => q.row \in TaskRow
  /\ q.pc \in {"list.setex", "list.sadd"} => q.page \in Result
  /\ q.pc = "list.sadd" => CacheKey(q.user, q.call).assignee \in Users
  /\ q.pc \in InvalPCs => q.todo # <<>>

DataOK ==
  /\ orgs \subseteq Orgs /\ issued \subseteq Users \cup Projects \cup Tasks
  /\ users \in UserTable /\ projects \in ProjectTable /\ tasks \in TaskTable
  /\ cache \in [Key -> Result \cup {Null}]
  /\ tracked \in [Users -> SUBSET Key]

RequestsOK ==
  /\ req \in [Requests -> Locals]
  /\ \A r \in Requests : Routed(req[r]) /\ Held(req[r])

\* Every table, the cache and every request's locals have their types.
TypeOK == DataOK /\ RequestsOK

(* ---- safety, however many requests run ----------------------------------- *)

\* A task never points outside its organization: its project, its creator and
\* its assignee exist and are of one organization, although each was checked
\* by an earlier query than the write (tasks.service.js createTask, updateTask)
\* and users and projects can be deleted in between.
TenantIntegrity ==
  \A t \in Tasks : Row(tasks, t) =>
    LET task == tasks[t] IN
    /\ Row(projects, task.project) /\ Row(users, task.creator)
    /\ users[task.creator].org = projects[task.project].org
    /\ task.assignee # Null =>
         Row(users, task.assignee) /\ users[task.assignee].org = projects[task.project].org

\* A DONE task has its completion date, whatever writes raced on it: the
\* analytics query drops a DONE task without one.
DoneIsStamped ==
  \A t \in Tasks : Row(tasks, t) /\ tasks[t].status = "DONE" => tasks[t].completedAt

\* The row belongs to a list filtered by key, as the row was when it was read.
BelongsTo(listed, key) ==
  /\ key.assignee # "all" => listed.task.assignee = key.assignee
  /\ key.status # "all"   => listed.task.status = key.status
  /\ key.priority # "all" => listed.task.priority = key.priority
  /\ Row(projects, listed.task.project) => projects[listed.task.project].org = key.org

ListOf(page, key) == \A t \in Tasks : page[t] # Null => BelongsTo(page[t], key)

\* An entry only ever holds rows of its key's organization, assignee and
\* filters: MEMBERs and the managers filtering by that MEMBER share the key.
EntriesMatchKey ==
  \A k \in Key : cache[k] # Null => ListOf(cache[k], k)

\* Whatever a list request answers, from the database or from an entry that
\* another user's request stored, a MEMBER gets only rows assigned to it and
\* everyone only rows of the own organization ("non-negotiable",
\* tasks.service.js:57) -- as those rows were when they were read.
AnswersScoped ==
  \A r \in Requests :
    At(r, "done") /\ req[r].page # Null =>
      \A t \in Tasks : req[r].page[t] # Null =>
        LET task == req[r].page[t].task IN
        /\ req[r].user.role = "MEMBER" => task.assignee = req[r].user.id
        /\ Row(projects, task.project) => projects[task.project].org = req[r].user.org

(* ---- safety of requests handled one at a time ----------------------------- *)

\* The tables change as the abstract board says: one permitted operation.
Board == INSTANCE TaskBoard
BoardSpec == Board!Spec

\* A task is stamped exactly when DONE.
StampMeansDone ==
  \A t \in Tasks : Row(tasks, t) => (tasks[t].completedAt <=> tasks[t].status = "DONE")

\* What the database answers now for the filters of key.
Current(key) ==
  Find({t \in Tasks :
    /\ Row(tasks, t) /\ projects[tasks[t].project].org = key.org
    /\ key.assignee # "all" => tasks[t].assignee = key.assignee
    /\ key.status # "all"   => tasks[t].status = key.status
    /\ key.priority # "all" => tasks[t].priority = key.priority})

Quiet == \A r \in Requests : At(r, "idle")

\* Between requests every stored list of one assignee is what the database
\* would answer: each write has invalidated the lists it made stale.
AssigneeListsFresh ==
  Quiet => \A k \in Key : k.assignee # "all" /\ cache[k] # Null => cache[k] = Current(k)

\* "Every cache key is added to a Redis Set" (README.md:131), for the lists
\* of one assignee: a stored list that no set names is never invalidated.
AssigneeKeysTracked ==
  Quiet => \A k \in Key : k.assignee # "all" /\ cache[k] # Null => k \in tracked[k.assignee]

\* No organization is locked out: it keeps an ADMIN (users.service.js:54).
EveryOrgHasAdmin ==
  \A o \in orgs : \E u \in Users : Row(users, u) /\ users[u].org = o /\ users[u].role = "ADMIN"

\* A request on its own fails with 500 only for a foreign key that restricts
\* the deletion it asked for: no other write meets what its look-ups did not
\* rule out.  Two at once can, and for projects the restriction is not what the
\* routes promise (ProjectDeletionAnswers).
ServerErrorsAreRestrictions ==
  \A r \in Requests :
    At(r, "done") /\ req[r].code = 500 =>
      LET c == req[r].call IN
      \/ c.op = "deleteProject" /\ HasTasks(c.id)
      \/ c.op = "deleteUser" /\ HasCreated(c.id)

\* Deleting a project deletes "all associated tasks" (projects.routes.js:239):
\* that there are some is no reason to fail.
ProjectDeletionAnswers ==
  \A r \in Requests : At(r, "done") /\ req[r].call.op = "deleteProject" => req[r].code # 500

(* ---- workflow, as an action property --------------------------------------- *)

\* A task's status changes only along ALLOWED_TRANSITIONS; so DONE is
\* terminal (README.md:86).
WorkflowHolds ==
  [][\A t \in Tasks : Row(tasks, t) /\ Row(tasks, t)' =>
       \/ tasks'[t].status = tasks[t].status
       \/ <<tasks[t].status, tasks'[t].status>> \in AllowedTransitions]_tables

(* ---- liveness ---------------------------------------------------------------- *)

ListsFresh == \A k \in Key : cache[k] # Null => cache[k] = Current(k)

\* Once the tables stop changing the cache is right for good: whatever a lost
\* invalidation, a crash or a write that invalidates nothing left behind, the
\* hour of its entry ends it, although handlers may hold old pages and stop.
CacheSettles == []<><<tables' # tables>>_vars \/ <>[]ListsFresh
=============================================================================
