----------------------------- MODULE ListProofs -----------------------------
(***************************************************************************)
(* Lists stay inside their scope, for every set of users, projects, tasks, *)
(* calls and request slots: what an entry of the cache holds matches its   *)
(* key, and what a caller is answered, from the database or from an entry  *)
(* somebody else stored, is of its organization and, for a MEMBER, its own.*)
(*                                                                         *)
(* The rows of a list are copies and outlive what they copy.  What stays   *)
(* true of them is that their project was in the organization of the key,  *)
(* and an id is not given out twice.                                       *)
(***************************************************************************)
EXTENDS TenancyProofs

(* ---- the invariant ------------------------------------------------------- *)

\* Every row of the page passed the filters of key when it was read.
Scoped(page, key, ps, ids) ==
  \A t \in Tasks : page[t] # Null =>
    LET task == page[t].task IN
    /\ key.assignee # "all" => task.assignee = key.assignee
    /\ key.status # "all"   => task.status = key.status
    /\ key.priority # "all" => task.priority = key.priority
    /\ WasIn(ps, ids, task.project, key.org)

\* Where a handler holds a page: about to be cached, or being answered.
PagePCs == {"list.setex", "list.sadd", "done"}

\* The page a request holds is of the key the request asked for.
PageScoped(q, ps, ids) ==
  q.pc \in PagePCs /\ q.page # Null =>
    /\ q.user \in User /\ q.call \in Calls /\ q.call.op = "listTasks"
    /\ Scoped(q.page, CacheKey(q.user, q.call), ps, ids)

CacheScoped == \A k \in Key : cache[k] # Null => Scoped(cache[k], k, projects, issued)

PagesScoped == \A r \in Requests : PageScoped(req[r], projects, issued)

Scoping == CacheScoped /\ PagesScoped

USE DEF ListPCs, CreatePCs, UpdatePCs, StatusPCs, DeletePCs, HandlerPCs, TaskPCs, InvalPCs,
        ProjectPCs, PublicPCs, AccountPCs

(* ---- copies of rows stay in scope ----------------------------------------- *)

ProjectsStay ==
  /\ issued \subseteq issued'
  /\ \A p \in Projects : Row(projects', p) =>
       IF Row(projects, p) THEN projects'[p].org = projects[p].org ELSE p \notin issued

LEMMA NextProjectsStay ==
  ASSUME Inv, RowsIssued, [Next]_vars
  PROVE  ProjectsStay
<1>1. ASSUME projects' = projects, issued \subseteq issued' PROVE ProjectsStay
  BY <1>1 DEF ProjectsStay
<1>2. ASSUME NEW r \in Requests, TasksNext(r) PROVE ProjectsStay
  <2>1. \/ UNCHANGED tables
        \/ CreateInsert(r) \/ UpdateWrite(r) \/ StatusWrite(r) \/ DeleteWrite(r)
    BY <1>2, ReadsPlain DEF TasksNext, CreateAssignee, CreateProjectCheck, UpdateFind,
                            UpdateAssignee
  <2>2. projects' = projects /\ issued \subseteq issued'
    BY <2>1 DEF tables, CreateInsert, UpdateWrite, StatusWrite, DeleteWrite
  <2> QED BY <1>1, <2>2
<1>3. ASSUME NEW r \in Requests, ProjectsNext(r) PROVE ProjectsStay
  <2>1. CASE ProjectFind(r)
    BY <1>1, <2>1 DEF ProjectFind, tables
  <2>2. CASE ProjectInsert(r) \/ ProjectUpdate(r) \/ ProjectDelete(r)
    BY <2>2, ProjectRowsStay DEF ProjectsStay
  <2> QED BY <1>3, <2>1, <2>2 DEF ProjectsNext
<1>4. ASSUME NEW r \in Requests, AccountsNext(r) PROVE ProjectsStay
  <2>1. projects' = projects
    BY <1>4 DEF AccountsNext, AccountFind, RegisterInsert, InviteInsert, UserFind, RoleWrite,
                UserDelete, tables
  <2>2. issued \subseteq issued'
    BY <1>4 DEF AccountsNext, AccountFind, RegisterInsert, InviteInsert, UserFind, RoleWrite,
                UserDelete, AddUser, tables
  <2> QED BY <1>1, <2>1, <2>2
<1>5. ASSUME \/ \E r \in Requests : ArrivePublic(r) \/ Arrive(r) \/ Reply(r)
             \/ \E k \in Key : EntryExpires(k)
             \/ Crash
             \/ UNCHANGED vars
      PROVE  ProjectsStay
  BY <1>1, <1>5 DEF ArrivePublic, Arrive, Reply, EntryExpires, Crash, vars, tables
<1> QED BY <1>2, <1>3, <1>4, <1>5 DEF Next, Step

LEMMA ScopedStays ==
  ASSUME ProjectsStay, NEW page \in Result, NEW key, Scoped(page, key, projects, issued)
  PROVE  Scoped(page, key, projects', issued')
<1>1. ASSUME NEW t \in Tasks, page[t] # Null PROVE page[t].task.project \in Projects
  BY <1>1 DEF Result, Listed, TaskRow
<1> QED BY <1>1 DEF Scoped, WasIn, ProjectsStay

(* ---- the pages of requests --------------------------------------------------- *)

\* The request comes to hold no page it did not hold.
KeepsPage(r) ==
  req'[r].pc \in PagePCs /\ req'[r].page # Null =>
    /\ req[r].pc \in PagePCs
    /\ req'[r].page = req[r].page /\ req'[r].user = req[r].user /\ req'[r].call = req[r].call

LEMMA PageStays ==
  ASSUME Inv, ProjectsStay, PagesScoped, NEW r \in Requests, KeepsPage(r)
  PROVE  PageScoped(req'[r], projects', issued')
<1> SUFFICES ASSUME req'[r].pc \in PagePCs, req'[r].page # Null
             PROVE  /\ req'[r].user \in User /\ req'[r].call \in Calls
                    /\ req'[r].call.op = "listTasks"
                    /\ Scoped(req'[r].page, CacheKey(req'[r].user, req'[r].call), projects', issued')
  BY DEF PageScoped
<1>1. /\ req[r].pc \in PagePCs /\ req[r].page # Null
      /\ req'[r].page = req[r].page /\ req'[r].user = req[r].user /\ req'[r].call = req[r].call
  BY DEF KeepsPage
<1>2. /\ req[r].user \in User /\ req[r].call \in Calls /\ req[r].call.op = "listTasks"
      /\ Scoped(req[r].page, CacheKey(req[r].user, req[r].call), projects, issued)
  BY <1>1 DEF PagesScoped, PageScoped
<1>3. req[r].page \in Result
  BY <1>1 DEF Inv, TypeOK, RequestsOK, Locals
<1> QED BY <1>1, <1>2, <1>3, ScopedStays

LEMMA OnePage ==
  ASSUME Inv, ProjectsStay, PagesScoped, NEW r \in Requests,
         \A s \in Requests \ {r} : req'[s] = req[s],
         PageScoped(req'[r], projects', issued')
  PROVE  PagesScoped'
<1> SUFFICES ASSUME NEW s \in Requests PROVE PageScoped(req'[s], projects', issued')
  BY DEF PagesScoped, PageScoped, Scoped, CacheKey, WasIn, Row
<1>1. CASE s = r
  BY <1>1
<1>2. CASE s # r
  <2>1. KeepsPage(s)
    BY <1>2 DEF KeepsPage
  <2> QED BY <2>1, PageStays
<1> QED BY <1>1, <1>2

LEMMA AnswerKeepsPage ==
  ASSUME Inv, NEW r \in Requests, NEW code, Answer(r, code)
  PROVE  KeepsPage(r) /\ \A s \in Requests \ {r} : req'[s] = req[s]
<1>1. /\ req'[r] = Answered(req[r].call, req[r].user, code, Null)
      /\ \A s \in Requests \ {r} : req'[s] = req[s]
  BY DEF Answer, Inv, TypeOK, RequestsOK
<1>2. Answered(req[r].call, req[r].user, code, Null).page = Null
  BY DEF Answered, Idle
<1> QED BY <1>1, <1>2 DEF KeepsPage

\* What the answer of a list is.
LEMMA AnswerPageIs ==
  ASSUME Inv, NEW r \in Requests, NEW page, AnswerPage(r, page)
  PROVE  /\ req'[r].page = page /\ req'[r].user = req[r].user /\ req'[r].call = req[r].call
         /\ \A s \in Requests \ {r} : req'[s] = req[s]
<1>1. /\ req'[r] = Answered(req[r].call, req[r].user, 200, page)
      /\ \A s \in Requests \ {r} : req'[s] = req[s]
  BY DEF AnswerPage, Inv, TypeOK, RequestsOK
<1> DEFINE q == Answered(req[r].call, req[r].user, 200, page)
<1>2. q.page = page /\ q.user = req[r].user /\ q.call = req[r].call
  BY DEF Answered, Idle
<1> QED BY <1>1, <1>2

LEMMA GotoKeepsPage ==
  ASSUME Inv, NEW r \in Requests, NEW pc, pc \notin PagePCs, Goto(r, pc)
  PROVE  KeepsPage(r) /\ \A s \in Requests \ {r} : req'[s] = req[s]
BY GotoKeeps DEF KeepsPage

LEMMA InvalidateKeepsPage ==
  ASSUME Inv, NEW r \in Requests, NEW us, NEW code, Invalidate(r, us, code)
  PROVE  KeepsPage(r) /\ \A s \in Requests \ {r} : req'[s] = req[s]
<1>1. CASE us = <<>>
  BY <1>1, AnswerKeepsPage DEF Invalidate
<1>2. CASE us # <<>>
  <2>1. req'[r].pc = "inval.smembers" /\ \A s \in Requests \ {r} : req'[s] = req[s]
    BY <1>2 DEF Invalidate, Idle, Inv, TypeOK, RequestsOK
  <2> QED BY <2>1 DEF KeepsPage, PagePCs
<1> QED BY <1>1, <1>2

LEMMA TasksKeepPage ==
  ASSUME Inv, NEW r \in Requests, TasksNext(r), ~ListGet(r), ~ListQuery(r)
  PROVE  KeepsPage(r) /\ \A s \in Requests \ {r} : req'[s] = req[s]
<1> DEFINE Goal == KeepsPage(r) /\ \A s \in Requests \ {r} : req'[s] = req[s]
<1>0. req \in [Requests -> Locals]
  BY DEF Inv, TypeOK, RequestsOK
<1>1. CASE ListStore(r)
  <2>1. CASE AnswerPage(r, req[r].page)
    BY <1>1, <2>1, AnswerPageIs DEF ListStore, At, KeepsPage, PagePCs
  <2>2. CASE Goto(r, "list.sadd")
    <3>1. /\ req'[r].page = req[r].page /\ req'[r].user = req[r].user
          /\ req'[r].call = req[r].call /\ \A s \in Requests \ {r} : req'[s] = req[s]
      BY <1>0, <2>2 DEF Goto, Locals
    <3> QED BY <1>1, <3>1 DEF ListStore, At, KeepsPage, PagePCs
  <2> QED BY <1>1, <2>1, <2>2 DEF ListStore
<1>2. CASE ListTrack(r)
  BY <1>2, AnswerPageIs DEF ListTrack, At, KeepsPage, PagePCs
<1>3. CASE RedisError(r)
  <2>1. CASE At(r, "list.get") /\ Goto(r, "list.query")
    BY <2>1, GotoKeepsPage DEF PagePCs
  <2>2. CASE req[r].pc \in {"list.setex", "list.sadd"} /\ AnswerPage(r, req[r].page)
    BY <2>2, AnswerPageIs DEF KeepsPage, PagePCs
  <2>3. CASE InvalNext(r)
    BY <2>3, InvalidateKeepsPage DEF InvalNext
  <2> QED BY <1>3, <2>1, <2>2, <2>3 DEF RedisError
<1>4. CASE GetFind(r) \/ CreateAssignee(r) \/ CreateProjectCheck(r) \/ UpdateAssignee(r)
  BY <1>4, AnswerKeepsPage, GotoKeepsPage
  DEF GetFind, CreateAssignee, CreateProjectCheck, UpdateAssignee, PagePCs
<1>5. CASE CreateInsert(r) \/ UpdateWrite(r) \/ StatusWrite(r) \/ DeleteWrite(r) \/ InvalClear(r)
  BY <1>5, AnswerKeepsPage, InvalidateKeepsPage
  DEF CreateInsert, UpdateWrite, StatusWrite, DeleteWrite, InvalClear, InvalNext
<1>6. CASE UpdateFind(r)
  <2> DEFINE row == GetTask(req[r].user, req[r].call.id)
             next == IF NewAssignee(req[r].call, row) THEN "update.assignee" ELSE "update.write"
  <2>1. Answer(r, 404) \/ req' = [req EXCEPT ![r].row = row, ![r].pc = next]
    BY <1>6 DEF UpdateFind
  <2>2. next \notin PagePCs
    BY DEF PagePCs
  <2> HIDE DEF row, next
  <2>3. ASSUME req' = [req EXCEPT ![r].row = row, ![r].pc = next] PROVE Goal
    BY <1>0, <2>2, <2>3 DEF KeepsPage, Locals
  <2> QED BY <2>1, <2>3, AnswerKeepsPage
<1>7. CASE StatusFind(r)
  <2>1. \/ \E code \in {400, 403, 404} : Answer(r, code)
        \/ req' = [req EXCEPT ![r].row = tasks[req[r].call.id], ![r].pc = "status.write"]
    BY <1>7 DEF StatusFind
  <2>2. ASSUME req' = [req EXCEPT ![r].row = tasks[req[r].call.id], ![r].pc = "status.write"]
        PROVE  Goal
    BY <1>0, <2>2 DEF KeepsPage, PagePCs, Locals
  <2> QED BY <2>1, <2>2, AnswerKeepsPage
<1>8. CASE DeleteFind(r)
  <2> DEFINE row == GetTask(req[r].user, req[r].call.id)
  <2>1. Answer(r, 404) \/ req' = [req EXCEPT ![r].row = row, ![r].pc = "delete.write"]
    BY <1>8 DEF DeleteFind
  <2> HIDE DEF row
  <2>2. ASSUME req' = [req EXCEPT ![r].row = row, ![r].pc = "delete.write"] PROVE Goal
    BY <1>0, <2>2 DEF KeepsPage, PagePCs, Locals
  <2> QED BY <2>1, <2>2, AnswerKeepsPage
<1>9. CASE InvalMembers(r)
  BY <1>0, <1>9 DEF InvalMembers, KeepsPage, PagePCs, Locals
<1>10. CASE InvalDelete(r)
  BY <1>10, GotoKeepsPage DEF InvalDelete, PagePCs
<1> QED BY <1>1, <1>2, <1>3, <1>4, <1>5, <1>6, <1>7, <1>8, <1>9, <1>10 DEF TasksNext

LEMMA OthersKeepPage ==
  ASSUME Inv, NEW r \in Requests, ProjectsNext(r) \/ AccountsNext(r) \/ Reply(r)
  PROVE  KeepsPage(r) /\ \A s \in Requests \ {r} : req'[s] = req[s]
<1>1. CASE ProjectsNext(r)
  BY <1>1, AnswerKeepsPage, GotoKeepsPage
  DEF ProjectsNext, ProjectInsert, ProjectFind, ProjectUpdate, ProjectDelete, PagePCs
<1>2. CASE AccountsNext(r)
  BY <1>2, AnswerKeepsPage, GotoKeepsPage
  DEF AccountsNext, AccountFind, RegisterInsert, InviteInsert, UserFind, RoleWrite, UserDelete,
      PagePCs
<1>3. CASE Reply(r)
  BY <1>3 DEF Reply, Idle, KeepsPage, PagePCs, Inv, TypeOK, RequestsOK
<1> QED BY <1>1, <1>2, <1>3

LEMMA ArrivalKeepsPage ==
  ASSUME Inv, NEW r \in Requests, ArrivePublic(r) \/ Arrive(r)
  PROVE  KeepsPage(r) /\ \A s \in Requests \ {r} : req'[s] = req[s]
<1> DEFINE user(c) == [id |-> c.caller, role |-> users[c.caller].role, org |-> users[c.caller].org]
           begun(c) == [Idle EXCEPT !.pc = FirstStep(c), !.call = c, !.user = user(c)]
<1>1. CASE ArrivePublic(r)
  <2>1. PICK c \in Calls :
          c.op = "register" /\ req' = [req EXCEPT ![r].pc = FirstStep(c), ![r].call = c]
    BY <1>1 DEF ArrivePublic
  <2>2. FirstStep(c) = "register.find"
    BY <2>1 DEF FirstStep
  <2> QED BY <2>1, <2>2 DEF KeepsPage, PagePCs, Inv, TypeOK, RequestsOK, Locals
<1>2. CASE Arrive(r)
  <2>1. PICK c \in Calls :
          req' = [req EXCEPT ![r] =
               IF ~Row(users, c.caller) THEN Answered(c, Null, 401, Null)
               ELSE IF ~Authorized(users[c.caller].role, c.op) THEN Answered(c, user(c), 403, Null)
               ELSE IF ~Valid(c) \/ OwnAccount(c) THEN Answered(c, user(c), 400, Null)
               ELSE begun(c)]
    BY <1>2 DEF Arrive
  <2>2. \A u, n : Answered(c, u, n, Null).page = Null
    BY DEF Answered, Idle
  <2>3. begun(c).page = Null
    BY DEF Idle
  <2> HIDE DEF user, begun
  <2>4. req'[r].page = Null /\ \A s \in Requests \ {r} : req'[s] = req[s]
    BY <2>1, <2>2, <2>3 DEF Inv, TypeOK, RequestsOK
  <2> QED BY <2>4 DEF KeepsPage
<1> QED BY <1>1, <1>2

(* ---- the list takes its page from the cache or from the tables ------------------- *)

LEMMA ListGetScoped ==
  ASSUME Inv, ProjectsStay, Scoping, NEW r \in Requests, ListGet(r)
  PROVE  PagesScoped'
<1> DEFINE key == CacheKey(req[r].user, req[r].call)
<1>1. /\ req[r].user \in User /\ req[r].call \in Calls /\ req[r].call.op = "listTasks"
  BY DEF Inv, TypeOK, RequestsOK, Routed, Held, ListGet, At
<1>2. CASE cache[key] # Null /\ AnswerPage(r, cache[key])
  <2>1. key \in Key
    BY <1>1, KeyOK
  <2>2. Scoped(cache[key], key, projects, issued) /\ cache[key] \in Result
    BY <1>2, <2>1 DEF Scoping, CacheScoped, Inv, TypeOK, DataOK
  <2>3. Scoped(cache[key], key, projects', issued')
    BY <2>2, ScopedStays
  <2>4. PageScoped(req'[r], projects', issued')
    BY <1>1, <1>2, <2>3, AnswerPageIs DEF PageScoped
  <2> QED BY <1>2, <2>4, AnswerPageIs, OnePage DEF Scoping
<1>3. CASE Goto(r, "list.query")
  BY <1>3, GotoKeepsPage, PageStays, OnePage DEF Scoping, PagePCs
<1> QED BY <1>2, <1>3 DEF ListGet

LEMMA ListQueryScoped ==
  ASSUME Inv, RowsIssued, ProjectsStay, Scoping, NEW r \in Requests, ListQuery(r)
  PROVE  PagesScoped'
<1> DEFINE user == req[r].user
           c == req[r].call
           key == CacheKey(user, c)
           page == Find({t \in Tasks : Where(user, c, t)})
<1>1. user \in User /\ c \in Calls /\ c.op = "listTasks"
  BY DEF Inv, TypeOK, RequestsOK, Routed, Held, ListQuery, At
<1>2. page \in Result
  BY FindOK DEF Inv, TypeOK, Where
<1>3. ASSUME NEW t \in Tasks, page[t] # Null
      PROVE  Where(user, c, t) /\ page[t].task = tasks[t]
  BY <1>3 DEF Find
<1>4. ASSUME NEW t \in Tasks, Where(user, c, t)
      PROVE  /\ key.assignee # "all" => tasks[t].assignee = key.assignee
             /\ key.status # "all"   => tasks[t].status = key.status
             /\ key.priority # "all" => tasks[t].priority = key.priority
             /\ WasIn(projects, issued, tasks[t].project, key.org)
  <2>1. Row(tasks, t) /\ projects[tasks[t].project].org = user.org
    BY <1>4 DEF Where
  <2>2. Row(projects, tasks[t].project) /\ tasks[t].project \in Projects
    BY <2>1 DEF Inv, TypeOK, DataOK, TaskTable, TaskRow, KeysHold, TaskKeysHold, Row
  <2>3. key.assignee # "all" /\ user.role # "MEMBER" => c.assignee \in Users
    BY <1>1, KeyOK, KeyOfUser DEF CacheKey
  <2>4. WasIn(projects, issued, tasks[t].project, key.org)
    BY <2>1, <2>2 DEF WasIn, RowsIssued, CacheKey
  <2> QED BY <1>4, <2>3, <2>4 DEF Where, CacheKey
<1>5. Scoped(page, key, projects, issued)
  <2> HIDE DEF page, key
  <2> QED BY <1>3, <1>4 DEF Scoped
<1>6. Scoped(page, key, projects', issued')
  BY <1>2, <1>5, ScopedStays
<1>7. /\ req'[r].page = page /\ req'[r].user = user /\ req'[r].call = c
      /\ \A s \in Requests \ {r} : req'[s] = req[s]
  <2>1. req' = [req EXCEPT ![r].page = page, ![r].pc = "list.setex"]
    BY DEF ListQuery
  <2> HIDE DEF page
  <2> QED BY <2>1 DEF Inv, TypeOK, RequestsOK, Locals
<1>8. PageScoped(req'[r], projects', issued')
  <2> HIDE DEF page
  <2> QED BY <1>1, <1>6, <1>7 DEF PageScoped
<1> QED BY <1>7, <1>8, OnePage DEF Scoping

(* ---- the cache --------------------------------------------------------------------- *)

\* A request stores its own page under its own key, or removes entries.
StoresOwn(r) ==
  \A k \in Key : cache'[k] # Null =>
    \/ cache'[k] = cache[k]
    \/ /\ req[r].pc \in PagePCs /\ req[r].page \in Result
       /\ k = CacheKey(req[r].user, req[r].call) /\ cache'[k] = req[r].page

LEMMA StepStoresOwn ==
  ASSUME Inv, NEW r \in Requests, Step(r)
  PROVE  StoresOwn(r)
<1>0. cache \in [Key -> Result \cup {Null}]
  BY DEF Inv, TypeOK, DataOK
<1>1. ASSUME UNCHANGED cache PROVE StoresOwn(r)
  BY <1>1 DEF StoresOwn
<1>2. ASSUME NEW keys, DelKeys(keys) PROVE StoresOwn(r)
  BY <1>0, <1>2 DEF DelKeys, StoresOwn
<1>3. ASSUME At(r, "list.setex"), SetEx(CacheKey(req[r].user, req[r].call), req[r].page)
      PROVE  StoresOwn(r)
  BY <1>0, <1>3 DEF SetEx, StoresOwn, At, PagePCs, Inv, TypeOK, RequestsOK, Held
<1>4. CASE TasksNext(r)
  <2>1. CASE ListStore(r)
    BY <1>3, <2>1 DEF ListStore
  <2>2. CASE InvalDelete(r)
    BY <1>2, <2>2 DEF InvalDelete
  <2>3. CASE RedisError(r)
    BY <1>1, <1>2, <1>3, <2>3 DEF RedisError, LostCommand, redis, SAdd, DelSet
  <2>4. CASE ~ListStore(r) /\ ~InvalDelete(r) /\ ~RedisError(r)
    BY <1>1, <1>4, <2>4
    DEF TasksNext, ListGet, ListQuery, ListTrack, GetFind, CreateAssignee, CreateProjectCheck,
        CreateInsert, UpdateFind, UpdateAssignee, UpdateWrite, StatusFind, StatusWrite,
        DeleteFind, DeleteWrite, InvalMembers, InvalClear, SAdd, DelSet, redis
  <2> QED BY <2>1, <2>2, <2>3, <2>4
<1>5. CASE ProjectsNext(r)
  BY <1>1, <1>5 DEF ProjectsNext, ProjectInsert, ProjectFind, ProjectUpdate, ProjectDelete, redis
<1>6. CASE AccountsNext(r)
  BY <1>1, <1>6 DEF AccountsNext, AccountFind, RegisterInsert, InviteInsert, UserFind, RoleWrite,
                    UserDelete, redis
<1>7. CASE Reply(r)
  BY <1>1, <1>7 DEF Reply, redis
<1> QED BY <1>4, <1>5, <1>6, <1>7 DEF Step

LEMMA StepScoping ==
  ASSUME Inv, Inv', RowsIssued, ProjectsStay, Scoping, NEW r \in Requests, Step(r)
  PROVE  Scoping'
<1>1. PagesScoped'
  <2>1. CASE ListGet(r) \/ ListQuery(r)
    BY <2>1, ListGetScoped, ListQueryScoped
  <2>2. CASE ~ListGet(r) /\ ~ListQuery(r)
    <3>1. KeepsPage(r) /\ \A s \in Requests \ {r} : req'[s] = req[s]
      BY <2>2, TasksKeepPage, OthersKeepPage DEF Step
    <3> QED BY <3>1, PageStays, OnePage DEF Scoping
  <2> QED BY <2>1, <2>2
<1>2. ASSUME NEW k \in Key, cache'[k] # Null
      PROVE  Scoped(cache'[k], k, projects', issued')
  <2>1. CASE cache'[k] = cache[k]
    <3>1. cache[k] \in Result /\ Scoped(cache[k], k, projects, issued)
      BY <1>2, <2>1 DEF Scoping, CacheScoped, Inv, TypeOK, DataOK
    <3> QED BY <2>1, <3>1, ScopedStays
  <2>2. CASE /\ req[r].pc \in PagePCs /\ req[r].page \in Result
             /\ k = CacheKey(req[r].user, req[r].call) /\ cache'[k] = req[r].page
    <3>1. Scoped(req[r].page, k, projects, issued)
      BY <2>2, CacheAssumption DEF Scoping, PagesScoped, PageScoped
    <3> QED BY <2>2, <3>1, ScopedStays
  <2> QED BY <1>2, <2>1, <2>2, StepStoresOwn DEF StoresOwn
<1>3. CacheScoped'
  BY <1>2 DEF CacheScoped, Scoped, WasIn, Row
<1> QED BY <1>1, <1>3 DEF Scoping

\* Nothing is stored and no page moves.
LEMMA NothingStored ==
  ASSUME Inv, ProjectsStay, Scoping,
         \A k \in Key : cache'[k] = Null \/ cache'[k] = cache[k],
         \A r \in Requests : KeepsPage(r)
  PROVE  Scoping'
<1>1. ASSUME NEW k \in Key, cache'[k] # Null
      PROVE  Scoped(cache'[k], k, projects', issued')
  <2>1. cache'[k] = cache[k] /\ cache[k] \in Result /\ Scoped(cache[k], k, projects, issued)
    BY <1>1 DEF Scoping, CacheScoped, Inv, TypeOK, DataOK
  <2> QED BY <2>1, ScopedStays
<1>2. CacheScoped'
  BY <1>1 DEF CacheScoped, Scoped, WasIn, Row
<1>3. \A r \in Requests : PageScoped(req'[r], projects', issued')
  BY PageStays DEF Scoping
<1>4. PagesScoped'
  BY <1>3 DEF PagesScoped, PageScoped, Scoped, CacheKey, WasIn, Row
<1> QED BY <1>2, <1>4 DEF Scoping

LEMMA NextScoping ==
  ASSUME Inv, Inv', Tenancy, Scoping, [Next]_vars
  PROVE  Scoping'
<1>1. RowsIssued /\ ProjectsStay
  BY NextProjectsStay DEF Tenancy
<1>2. ASSUME NEW r \in Requests, Step(r) PROVE Scoping'
  BY <1>1, <1>2, StepScoping
<1>3. ASSUME NEW r \in Requests, ArrivePublic(r) \/ Arrive(r) PROVE Scoping'
  <2>1. cache' = cache
    BY <1>3 DEF ArrivePublic, Arrive, redis
  <2>2. ASSUME NEW s \in Requests PROVE KeepsPage(s)
    <3>1. CASE s = r
      BY <1>3, <3>1, ArrivalKeepsPage
    <3>2. CASE s # r
      BY <1>3, <3>2, ArrivalKeepsPage DEF KeepsPage
    <3> QED BY <3>1, <3>2
  <2> QED BY <1>1, <2>1, <2>2, NothingStored
<1>4. ASSUME NEW k \in Key, EntryExpires(k) PROVE Scoping'
  <2>1. \A l \in Key : cache'[l] = Null \/ cache'[l] = cache[l]
    BY <1>4 DEF EntryExpires, Expire, Inv, TypeOK, DataOK
  <2>2. \A r \in Requests : KeepsPage(r)
    BY <1>4 DEF EntryExpires, KeepsPage
  <2> QED BY <1>1, <2>1, <2>2, NothingStored
<1>5. CASE Crash
  <2>1. cache' = cache
    BY <1>5 DEF Crash, redis
  <2>2. \A r \in Requests : KeepsPage(r)
    BY <1>5 DEF Crash, Idle, KeepsPage, PagePCs
  <2> QED BY <1>1, <2>1, <2>2, NothingStored
<1>6. CASE UNCHANGED vars
  BY <1>1, <1>6, NothingStored DEF vars, redis, KeepsPage
<1> QED BY <1>2, <1>3, <1>4, <1>5, <1>6 DEF Next

(* ---- what entries and answers show --------------------------------------------------- *)

LEMMA InitScoping == Init => Scoping
BY DEF Init, CacheInit, RequestInit, Idle, Scoping, CacheScoped, PagesScoped, PageScoped, PagePCs

LEMMA ScopingShows == Scoping => EntriesMatchKey /\ AnswersScoped
<1> SUFFICES ASSUME Scoping PROVE EntriesMatchKey /\ AnswersScoped
  OBVIOUS
<1>1. EntriesMatchKey
  BY DEF Scoping, CacheScoped, Scoped, WasIn, EntriesMatchKey, ListOf, BelongsTo
<1>2. ASSUME NEW r \in Requests, At(r, "done"), req[r].page # Null,
             NEW t \in Tasks, req[r].page[t] # Null
      PROVE  LET task == req[r].page[t].task IN
             /\ req[r].user.role = "MEMBER" => task.assignee = req[r].user.id
             /\ Row(projects, task.project) => projects[task.project].org = req[r].user.org
  <2> DEFINE key == CacheKey(req[r].user, req[r].call)
  <2>1. req[r].user \in User /\ Scoped(req[r].page, key, projects, issued)
    BY <1>2 DEF Scoping, PagesScoped, PageScoped, PagePCs, At
  <2>2. /\ key.org = req[r].user.org
        /\ req[r].user.role = "MEMBER" => key.assignee = req[r].user.id /\ key.assignee # "all"
    BY <2>1, CacheAssumption DEF CacheKey, User
  <2> HIDE DEF key
  <2> QED BY <1>2, <2>1, <2>2 DEF Scoped, WasIn
<1>3. AnswersScoped
  BY <1>2 DEF AnswersScoped
<1> QED BY <1>1, <1>3

\* An entry of the cache only ever holds rows that passed its key's filters,
\* whoever stored it and whatever changed between query and SETEX.
THEOREM EntriesAreScoped == Spec => []EntriesMatchKey
<1>1. Inv /\ Tenancy /\ Scoping /\ [Next]_vars => Inv' /\ Tenancy' /\ Scoping'
  BY NextInv, NextTenancy, NextScoping
<1>2. Scoping => EntriesMatchKey
  BY ScopingShows
<1> QED BY <1>1, <1>2, InitInv, InitTenancy, InitScoping, PTL DEF Spec

\* A MEMBER is answered only rows assigned to it and everyone only rows of the
\* own organization, though entries are shared and roles change.
THEOREM AnswersAreScoped == Spec => []AnswersScoped
<1>1. Inv /\ Tenancy /\ Scoping /\ [Next]_vars => Inv' /\ Tenancy' /\ Scoping'
  BY NextInv, NextTenancy, NextScoping
<1>2. Scoping => AnswersScoped
  BY ScopingShows
<1> QED BY <1>1, <1>2, InitInv, InitTenancy, InitScoping, PTL DEF Spec
=============================================================================
