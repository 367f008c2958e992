---------------------------- MODULE TasksService ----------------------------
(***************************************************************************)
(* modules/tasks/tasks.service.js: list through the cache, get, create,    *)
(* update, change of status and delete, each write followed by the         *)
(* invalidation of the lists of the assignees concerned.                   *)
(***************************************************************************)
EXTENDS Requests

CONSTANT RedisMayFail  \* whether Redis commands can fail

(* ---- helpers ---------------------------------------------------------- *)

\* Mutant: only the terminal state is checked.
CanMoveUnlessDone(from, to) == from # "DONE"
CanMove(from, to) == <<from, to>> \in AllowedTransitions

\* checkStatusPermission
MayChangeStatus(row, user) == row.assignee = user.id \/ user.role \in Managers

\* getTask: inside the organization, a MEMBER only its own.
GetTask(user, t) ==
  IF /\ Row(tasks, t)
     /\ projects[tasks[t].project].org = user.org
     /\ user.role = "MEMBER" => tasks[t].assignee = user.id
  THEN tasks[t] ELSE Null

\* Mutant: the filter of the query decides for a MEMBER too.
FilterAsAsked(user, c) ==
  [org |-> user.org, assignee |-> IF c.assignee = Absent THEN "all" ELSE c.assignee,
   status |-> c.status, priority |-> c.priority]

\* buildCacheKey as listTasks calls it.
CacheKey(user, c) ==
  [org |-> user.org,
   assignee |-> IF user.role = "MEMBER" THEN user.id
                ELSE IF c.assignee = Absent THEN "all" ELSE c.assignee,
   status |-> c.status, priority |-> c.priority]

\* Mutant: the MEMBER restriction of buildWhereClause dropped.
WhereAsAsked(user, c, t) ==
  /\ Row(tasks, t)
  /\ projects[tasks[t].project].org = user.org
  /\ c.assignee \in Users => tasks[t].assignee = c.assignee
  /\ c.status # "all" => tasks[t].status = c.status
  /\ c.priority # "all" => tasks[t].priority = c.priority

\* buildWhereClause: the tasks the query selects.
Where(user, c, t) ==
  /\ Row(tasks, t)
  /\ projects[tasks[t].project].org = user.org
  /\ IF user.role = "MEMBER" THEN tasks[t].assignee = user.id
     ELSE c.assignee \in Users => tasks[t].assignee = c.assignee
  /\ c.status # "all" => tasks[t].status = c.status
  /\ c.priority # "all" => tasks[t].priority = c.priority

\* findMany with TASK_INCLUDE: the rows of the selected tasks.
Find(selected) ==
  [t \in Tasks |-> IF t \in selected
     THEN [task |-> tasks[t], projectName |-> projects[tasks[t].project].name]
     ELSE Null]

(* ---- invalidateUserCache, called for each user of `todo' in turn ------- *)

\* Continue after a write: invalidate the lists of us, then answer code.
Invalidate(r, us, code) ==
  IF us = <<>> THEN Answer(r, code)
  ELSE req' = [req EXCEPT ![r] = [Idle EXCEPT !.pc = "inval.smembers", !.call = req[r].call,
                 !.user = req[r].user, !.todo = us, !.code = code]]

InvalMembers(r) ==
  /\ At(r, "inval.smembers")
  /\ LET keys == tracked[Head(req[r].todo)]
     IN req' = [req EXCEPT ![r].keys = keys,
                           ![r].pc = IF keys = {} THEN "inval.delset" ELSE "inval.del"]
  /\ UNCHANGED <<tables, redis>>

InvalDelete(r) ==
  /\ At(r, "inval.del")
  /\ DelKeys(req[r].keys)
  /\ Goto(r, "inval.delset")
  /\ UNCHANGED tables

\* Mutant: the loop over the users does not advance.
InvalAgain(r) == Invalidate(r, req[r].todo, req[r].code)

\* The next user, or the answer.
InvalNext(r) == Invalidate(r, Tail(req[r].todo), req[r].code)

InvalClear(r) ==
  /\ At(r, "inval.delset")
  /\ DelSet(Head(req[r].todo))
  /\ InvalNext(r)
  /\ UNCHANGED tables

(* ---- listTasks -------------------------------------------------------- *)

ListGet(r) ==
  /\ At(r, "list.get")
  /\ LET page == cache[CacheKey(req[r].user, req[r].call)]
     IN IF page # Null THEN AnswerPage(r, page) ELSE Goto(r, "list.query")
  /\ UNCHANGED <<tables, redis>>

ListQuery(r) ==
  /\ At(r, "list.query")
  /\ LET selected == {t \in Tasks : Where(req[r].user, req[r].call, t)}
     IN req' = [req EXCEPT ![r].page = Find(selected), ![r].pc = "list.setex"]
  /\ UNCHANGED <<tables, redis>>

\* Mutant: only the lists of MEMBERs are tracked.
TracksMember(user, key) == user.role = "MEMBER"

\* assigneeId !== 'all' ? assigneeId : null
Tracks(user, key) == key.assignee # "all"

\* setCache: store, then track the key unless the list is everybody's.
ListStore(r) ==
  /\ At(r, "list.setex")
  /\ LET key == CacheKey(req[r].user, req[r].call)
     IN /\ SetEx(key, req[r].page)
        /\ IF Tracks(req[r].user, key) THEN Goto(r, "list.sadd") ELSE AnswerPage(r, req[r].page)
  /\ UNCHANGED tables

ListTrack(r) ==
  /\ At(r, "list.sadd")
  /\ LET key == CacheKey(req[r].user, req[r].call)
     IN SAdd(key.assignee, key)
  /\ AnswerPage(r, req[r].page)
  /\ UNCHANGED tables

(* ---- Redis errors ------------------------------------------------------ *)

\* The connection is lost while the command is under way, or Redis answers with
\* an error: the command was carried out, or it was not.  (A command given to
\* the client while Redis is away fails in neither way: OfflineQueue.)
LostCommand(r) ==
  LET key == CacheKey(req[r].user, req[r].call)
  IN \/ UNCHANGED redis
     \/ At(r, "list.setex")   /\ SetEx(key, req[r].page)
     \/ At(r, "list.sadd")    /\ SAdd(key.assignee, key)
     \/ At(r, "inval.del")    /\ DelKeys(req[r].keys)
     \/ At(r, "inval.delset") /\ DelSet(Head(req[r].todo))

\* Each helper catches the error, logs it and returns: a miss, no caching,
\* or the end of the invalidation for that user.
RedisError(r) ==
  /\ RedisMayFail
  /\ LostCommand(r)
  /\ \/ At(r, "list.get") /\ Goto(r, "list.query")
     \/ req[r].pc \in {"list.setex", "list.sadd"} /\ AnswerPage(r, req[r].page)
     \/ req[r].pc \in InvalPCs /\ InvalNext(r)
  /\ UNCHANGED tables

(* ---- getTask ----------------------------------------------------------- *)

GetFind(r) ==
  /\ At(r, "get.find")
  /\ Answer(r, IF GetTask(req[r].user, req[r].call.id) = Null THEN 404 ELSE 200)
  /\ UNCHANGED <<tables, redis>>

(* ---- createTask -------------------------------------------------------- *)

\* Mutant: the assignee is looked up by id alone.
AssigneeAnywhere(user, u) == IF Row(users, u) THEN users[u] ELSE Null

\* findFirst({ where: { id: assigneeId, organizationId } })
AssigneeInOrg(user, u) == InOrg(users, u, user.org)

CreateAssignee(r) ==
  /\ At(r, "create.assignee")
  /\ IF AssigneeInOrg(req[r].user, req[r].call.assignee) = Null THEN Answer(r, 400)
     ELSE Goto(r, "create.project")
  /\ UNCHANGED <<tables, redis>>

CreateProjectCheck(r) ==
  /\ At(r, "create.project")
  /\ IF InOrg(projects, req[r].call.project, req[r].user.org) = Null THEN Answer(r, 400)
     ELSE Goto(r, "create.insert")
  /\ UNCHANGED <<tables, redis>>

NewTask(user, c) ==
  [project |-> c.project, creator |-> user.id, status |-> "TODO", completedAt |-> FALSE,
   assignee |-> IF c.assignee = Absent THEN Null ELSE c.assignee,
   priority |-> IF c.priority = Absent THEN "MEDIUM" ELSE c.priority]

\* Mutant: the guard on a task without assignee dropped.
ListsOfAnyone(u) == <<u>>

\* if (assigneeId) invalidateUserCache(assigneeId)
ListsOf(u) == IF u = Null THEN <<>> ELSE <<u>>

\* prisma.task.create; a missing project, creator or assignee is error P2003.
CreateInsert(r) ==
  /\ At(r, "create.insert")
  /\ LET row == NewTask(req[r].user, req[r].call)
     IN IF TaskKeysHold(row)
        THEN \E t \in Tasks \ issued :
               /\ tasks' = Insert(tasks, t, row)
               /\ issued' = issued \cup {t}
               /\ Invalidate(r, ListsOf(row.assignee), 201)
        ELSE Answer(r, 500) /\ UNCHANGED <<tasks, issued>>
  /\ UNCHANGED <<orgs, users, projects, redis>>

(* ---- updateTask -------------------------------------------------------- *)

\* data.assigneeId && data.assigneeId !== task.assigneeId
NewAssignee(c, row) == c.assignee \in Users /\ c.assignee # row.assignee

UpdateFind(r) ==
  /\ At(r, "update.find")
  /\ LET row == GetTask(req[r].user, req[r].call.id)
     IN IF row = Null THEN Answer(r, 404)
        ELSE req' = [req EXCEPT ![r].row = row, ![r].pc =
               IF NewAssignee(req[r].call, row) THEN "update.assignee" ELSE "update.write"]
  /\ UNCHANGED <<tables, redis>>

UpdateAssignee(r) ==
  /\ At(r, "update.assignee")
  /\ IF AssigneeInOrg(req[r].user, req[r].call.assignee) = Null THEN Answer(r, 400)
     ELSE Goto(r, "update.write")
  /\ UNCHANGED <<tables, redis>>

\* The columns the body names, over the row as it is now.
Patched(row, c) ==
  [row EXCEPT !.assignee = IF c.assignee = Absent THEN @ ELSE c.assignee,
              !.priority = IF c.priority = Absent THEN @ ELSE c.priority]

\* Mutant: only the new assignee's lists are invalidated.
StaleNewOnly(c, read, row) == ListsOf(row.assignee)

\* The old assignee as read before the write, then the one written.
StaleLists(c, read, row) ==
  (IF NewAssignee(c, read) THEN ListsOf(read.assignee) ELSE <<>>) \o ListsOf(row.assignee)

\* prisma.task.update; a task gone is P2025, an assignee gone P2003.
UpdateWrite(r) ==
  /\ At(r, "update.write")
  /\ LET c   == req[r].call
         row == Patched(tasks[c.id], c)
     IN IF Row(tasks, c.id) /\ TaskKeysHold(row)
        THEN /\ tasks' = Insert(tasks, c.id, row)
             /\ Invalidate(r, StaleLists(c, req[r].row, row), 200)
        ELSE Answer(r, 500) /\ UNCHANGED tasks
  /\ UNCHANGED <<orgs, users, projects, issued, redis>>

(* ---- updateTaskStatus -------------------------------------------------- *)

\* Any task of the organization; the transition is judged before the caller.
StatusFind(r) ==
  /\ At(r, "status.find")
  /\ LET c    == req[r].call
         user == req[r].user
         row  == tasks[c.id]
     IN IF ~Row(tasks, c.id) \/ projects[row.project].org # user.org THEN Answer(r, 404)
        ELSE IF ~CanMove(row.status, c.status)  THEN Answer(r, 400)
        ELSE IF ~MayChangeStatus(row, user)     THEN Answer(r, 403)
        ELSE req' = [req EXCEPT ![r].row = row, ![r].pc = "status.write"]
  /\ UNCHANGED <<tables, redis>>

\* Mutant: completedAt is forgotten.
MovedUnstamped(row, s) == [row EXCEPT !.status = s]

\* { status, completedAt: new Date() if DONE }
Moved(row, s) ==
  [row EXCEPT !.status = s, !.completedAt = IF s = "DONE" THEN TRUE ELSE @]

\* The write goes by id alone: the row may have changed since it was read.
StatusWrite(r) ==
  /\ At(r, "status.write")
  /\ LET c   == req[r].call
         row == Moved(tasks[c.id], c.status)
     IN IF Row(tasks, c.id)
        THEN /\ tasks' = Insert(tasks, c.id, row)
             /\ Invalidate(r, ListsOf(row.assignee), 200)
        ELSE Answer(r, 500) /\ UNCHANGED tasks
  /\ UNCHANGED <<orgs, users, projects, issued, redis>>

(* ---- deleteTask -------------------------------------------------------- *)

DeleteFind(r) ==
  /\ At(r, "delete.find")
  /\ LET row == GetTask(req[r].user, req[r].call.id)
     IN IF row = Null THEN Answer(r, 404)
        ELSE req' = [req EXCEPT ![r].row = row, ![r].pc = "delete.write"]
  /\ UNCHANGED <<tables, redis>>

DeleteWrite(r) ==
  /\ At(r, "delete.write")
  /\ LET t == req[r].call.id
     IN IF Row(tasks, t)
        THEN /\ tasks' = Delete(tasks, t)
             /\ Invalidate(r, ListsOf(req[r].row.assignee), 200)
        ELSE Answer(r, 500) /\ UNCHANGED tasks
  /\ UNCHANGED <<orgs, users, projects, issued, redis>>

TasksNext(r) ==
  \/ ListGet(r) \/ ListQuery(r) \/ ListStore(r) \/ ListTrack(r)
  \/ GetFind(r)
  \/ CreateAssignee(r) \/ CreateProjectCheck(r) \/ CreateInsert(r)
  \/ UpdateFind(r) \/ UpdateAssignee(r) \/ UpdateWrite(r)
  \/ StatusFind(r) \/ StatusWrite(r)
  \/ DeleteFind(r) \/ DeleteWrite(r)
  \/ InvalMembers(r) \/ InvalDelete(r) \/ InvalClear(r)
  \/ RedisError(r)
=============================================================================
