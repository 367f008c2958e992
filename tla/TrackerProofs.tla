--------------------------- MODULE TrackerProofs ---------------------------
(***************************************************************************)
(* What holds of the tracker for every set of users, projects, tasks,      *)
(* calls and request slots: the types and the foreign keys.                *)
(***************************************************************************)
EXTENDS Tracker, SequenceTheorems, TLAPS

\* The foreign keys of Task hold in every state: RESTRICT and SET NULL keep on
\* deletion what TaskKeysHold demands of a write.
KeysHold == \A t \in Tasks : Row(tasks, t) => TaskKeysHold(tasks[t])

Inv == TypeOK /\ KeysHold

\* The sets of control points are written out in every proof.
USE DEF ListPCs, CreatePCs, UpdatePCs, StatusPCs, DeletePCs, HandlerPCs, TaskPCs, InvalPCs,
        ProjectPCs, PublicPCs, AccountPCs

(* ---- the requests ------------------------------------------------------- *)

\* A step of one request leaves the others as they were: it is enough that
\* what it leaves in its own slot is well formed.
LEMMA OneSlot ==
  ASSUME RequestsOK, NEW r \in Requests, NEW q \in Locals, Routed(q), Held(q),
         req' = [req EXCEPT ![r] = q]
  PROVE  RequestsOK'
<1>1. req' \in [Requests -> Locals]  BY DEF RequestsOK
<1>2. ASSUME NEW s \in Requests PROVE Routed(req'[s]) /\ Held(req'[s])
  <2>1. CASE s = r  BY <2>1 DEF RequestsOK
  <2>2. CASE s # r  BY <2>2 DEF RequestsOK
  <2> QED BY <2>1, <2>2
<1>3. \A s \in Requests : Routed(req'[s]) /\ Held(req'[s])  BY <1>2
<1> QED BY <1>1, <1>3 DEF RequestsOK, Routed, Held, CacheKey

LEMMA IdleOK == Idle \in Locals /\ Routed(Idle) /\ Held(Idle)
BY DEF Idle, Locals, Routed, Held

\* An answer is well formed whatever the operation.
LEMMA AnsweredOK ==
  ASSUME NEW call \in Calls, NEW user \in User \cup {Null}, NEW code \in Nat,
         NEW page \in Result \cup {Null}
  PROVE  /\ Answered(call, user, code, page) \in Locals
         /\ Routed(Answered(call, user, code, page))
         /\ Held(Answered(call, user, code, page))
<1> DEFINE q == Answered(call, user, code, page)
<1>1. q \in Locals
  BY IdleOK DEF Answered, Locals
<1>2. q.pc = "done" /\ q.call \in Calls
  BY DEF Answered, Idle
<1> HIDE DEF q
<1>3. Routed(q)
  BY <1>2 DEF Routed
<1>4. Held(q)
  BY <1>2 DEF Held
<1> QED BY <1>1, <1>3, <1>4 DEF q

LEMMA AnswerOK ==
  ASSUME RequestsOK, NEW r \in Requests, ~At(r, "idle"), NEW code \in Nat, Answer(r, code)
  PROVE  RequestsOK'
<1>1. /\ req[r].call \in Calls /\ req[r].user \in User \cup {Null}
  BY DEF RequestsOK, Held, Locals, At
<1>2. req' = [req EXCEPT ![r] = Answered(req[r].call, req[r].user, code, Null)]
  BY DEF Answer, RequestsOK
<1> QED BY <1>1, <1>2, AnsweredOK, OneSlot

LEMMA AnswerPageOK ==
  ASSUME RequestsOK, NEW r \in Requests, ~At(r, "idle"), NEW page \in Result, AnswerPage(r, page)
  PROVE  RequestsOK'
<1>1. /\ req[r].call \in Calls /\ req[r].user \in User \cup {Null}
  BY DEF RequestsOK, Held, Locals, At
<1>2. req' = [req EXCEPT ![r] = Answered(req[r].call, req[r].user, 200, page)]
  BY DEF AnswerPage, RequestsOK
<1> DEFINE q == Answered(req[r].call, req[r].user, 200, page)
<1>3. q \in Locals /\ Routed(q) /\ Held(q)
  BY <1>1, AnsweredOK
<1> QED BY <1>2, <1>3, OneSlot

\* After a write the handler answers or starts to invalidate.
LEMMA InvalidateOK ==
  ASSUME RequestsOK, NEW r \in Requests, req[r].pc \in HandlerPCs \ PublicPCs,
         NEW us \in Seq(Users), NEW code \in Nat, Invalidate(r, us, code)
  PROVE  RequestsOK'
<1>1. CASE us = <<>>
  <2>1. ~At(r, "idle") /\ Answer(r, code)
    BY <1>1 DEF Invalidate, At
  <2> QED BY <2>1, AnswerOK
<1>2. CASE us # <<>>
  <2> DEFINE q == [Idle EXCEPT !.pc = "inval.smembers", !.call = req[r].call,
                     !.user = req[r].user, !.todo = us, !.code = code]
  <2>1. req' = [req EXCEPT ![r] = q]
    BY <1>2 DEF Invalidate
  <2>2. req[r].call \in Calls /\ req[r].user \in User
    BY DEF RequestsOK, Held
  <2>3. q \in Locals
    BY <2>2, IdleOK DEF Locals
  <2>4. q.pc = "inval.smembers" /\ q.call \in Calls /\ q.user \in User /\ q.todo # <<>>
    BY <1>2, <2>2 DEF Idle
  <2> HIDE DEF q
  <2>5. Routed(q)
    BY <2>4 DEF Routed
  <2>6. Held(q)
    BY <2>4 DEF Held
  <2> QED BY <2>1, <2>3, <2>5, <2>6, OneSlot
<1> QED BY <1>1, <1>2

\* The next await of the same handler.
LEMMA GotoOK ==
  ASSUME RequestsOK, NEW r \in Requests, NEW pc \in HandlerPCs, Goto(r, pc),
         Routed([req[r] EXCEPT !.pc = pc]), Held([req[r] EXCEPT !.pc = pc])
  PROVE  RequestsOK'
<1> DEFINE q == [req[r] EXCEPT !.pc = pc]
<1>1. q \in Locals
  <2> HIDE DEF HandlerPCs
  <2> QED BY DEF RequestsOK, Locals
<1>2. req' = [req EXCEPT ![r] = q]
  BY DEF Goto, RequestsOK
<1> QED BY <1>1, <1>2, OneSlot

(* ---- calls, keys and rows ------------------------------------------------ *)

\* The key of a list is a key, and one of a user unless it is everybody's.
LEMMA KeyOK ==
  ASSUME NEW user \in User, NEW c \in Calls, c.op = "listTasks"
  PROVE  CacheKey(user, c) \in Key
BY CallsAssumption DEF CacheKey, Key, User, Call

LEMMA KeyOfUser ==
  ASSUME NEW key \in Key, key.assignee # "all"
  PROVE  key.assignee \in Users
BY DEF Key

LEMMA ListsOfOK ==
  ASSUME NEW u \in Users \cup {Null}
  PROVE  ListsOf(u) \in Seq(Users)
BY SchemaAssumption DEF ListsOf

LEMMA NewTaskOK ==
  ASSUME NEW user \in User, NEW c \in Calls, c.op = "createTask"
  PROVE  NewTask(user, c) \in TaskRow
BY CallsAssumption DEF NewTask, TaskRow, User, Call, Statuses, Priorities

LEMMA PatchedOK ==
  ASSUME NEW row \in TaskRow, NEW c \in Calls, c.op = "updateTask"
  PROVE  Patched(row, c) \in TaskRow
BY CallsAssumption DEF Patched, TaskRow, Call

LEMMA MovedOK ==
  ASSUME NEW row \in TaskRow, NEW s \in Statuses
  PROVE  Moved(row, s) \in TaskRow
BY DEF Moved, TaskRow

\* What findMany returns is a result: a task has a project to name, for its
\* foreign key holds.
LEMMA FindOK ==
  ASSUME DataOK, KeysHold, NEW selected, \A t \in selected : t \in Tasks /\ Row(tasks, t)
  PROVE  Find(selected) \in Result
<1>1. ASSUME NEW t \in Tasks, t \in selected
      PROVE  [task |-> tasks[t], projectName |-> projects[tasks[t].project].name] \in Listed
  <2>1. tasks[t] \in TaskRow /\ Row(tasks, t)
    BY <1>1 DEF DataOK, TaskTable, Row
  <2>2. projects[tasks[t].project] \in ProjectRow
    BY <2>1 DEF KeysHold, TaskKeysHold, Row, DataOK, ProjectTable, TaskRow
  <2> QED BY <2>1, <2>2 DEF Listed, ProjectRow
<1> QED BY <1>1 DEF Find, Result

(* ---- the tables ----------------------------------------------------------- *)

LEMMA NothingWritten ==
  ASSUME DataOK, KeysHold, UNCHANGED tables, UNCHANGED redis
  PROVE  DataOK' /\ KeysHold'
BY DEF DataOK, KeysHold, tables, redis, Row, TaskKeysHold

LEMMA RedisWritten ==
  ASSUME DataOK, KeysHold, UNCHANGED tables,
         \/ \E k \in Key, page \in Result : SetEx(k, page)
         \/ \E u \in Users, k \in Key : SAdd(u, k)
         \/ \E ks \in SUBSET Key : DelKeys(ks)
         \/ \E u \in Users : DelSet(u)
         \/ \E k \in Key : Expire(k)
  PROVE  DataOK' /\ KeysHold'
<1>1. UNCHANGED <<orgs, users, projects, tasks, issued>>
  BY DEF tables
<1>2. KeysHold'
  BY <1>1 DEF KeysHold, Row, TaskKeysHold
<1>3. cache' \in [Key -> Result \cup {Null}] /\ tracked' \in [Users -> SUBSET Key]
  BY DEF DataOK, SetEx, SAdd, DelKeys, DelSet, Expire
<1> QED BY <1>1, <1>2, <1>3 DEF DataOK

(* ---- the list, through the cache ------------------------------------------- *)

LEMMA ListGetOK ==
  ASSUME Inv, NEW r \in Requests, ListGet(r)
  PROVE  Inv'
<1> DEFINE key == CacheKey(req[r].user, req[r].call)
<1>1. DataOK' /\ KeysHold'
  BY NothingWritten DEF Inv, TypeOK, ListGet
<1>2. /\ req[r] \in Locals /\ req[r].pc = "list.get"
      /\ req[r].user \in User /\ req[r].call \in Calls /\ req[r].call.op = "listTasks"
  BY DEF Inv, TypeOK, RequestsOK, Routed, Held, ListGet, At
<1>3. key \in Key
  BY <1>2, KeyOK
<1>4. CASE cache[key] # Null
  <2>1. cache[key] \in Result
    BY <1>3, <1>4 DEF Inv, TypeOK, DataOK
  <2>2. RequestsOK'
    BY <1>2, <1>4, <2>1, AnswerPageOK DEF ListGet, At, Inv, TypeOK
  <2> QED BY <1>1, <2>2 DEF Inv, TypeOK
<1>5. CASE cache[key] = Null
  <2>1. Goto(r, "list.query")
    BY <1>5 DEF ListGet
  <2>2. Routed([req[r] EXCEPT !.pc = "list.query"]) /\ Held([req[r] EXCEPT !.pc = "list.query"])
    BY <1>2 DEF Routed, Held, Locals
  <2>3. RequestsOK'
    BY <2>1, <2>2, GotoOK DEF Inv, TypeOK
  <2> QED BY <1>1, <2>3 DEF Inv, TypeOK
<1> QED BY <1>4, <1>5

LEMMA ListQueryOK ==
  ASSUME Inv, NEW r \in Requests, ListQuery(r)
  PROVE  Inv'
<1> DEFINE selected == {t \in Tasks : Where(req[r].user, req[r].call, t)}
           q == [req[r] EXCEPT !.page = Find(selected), !.pc = "list.setex"]
<1>1. DataOK' /\ KeysHold'
  BY NothingWritten DEF Inv, TypeOK, ListQuery
<1>2. /\ req[r] \in Locals /\ req[r].pc = "list.query"
      /\ req[r].user \in User /\ req[r].call \in Calls /\ req[r].call.op = "listTasks"
  BY DEF Inv, TypeOK, RequestsOK, Routed, Held, ListQuery, At
<1>3. Find(selected) \in Result
  BY FindOK DEF Inv, TypeOK, Where
<1>4. q \in Locals
  BY <1>2, <1>3 DEF Locals
<1>5. Routed(q) /\ Held(q)
  BY <1>2, <1>3 DEF Routed, Held, Locals
<1>6. req' = [req EXCEPT ![r] = q]
  BY DEF ListQuery, Inv, TypeOK, RequestsOK
<1>7. RequestsOK'
  BY <1>4, <1>5, <1>6, OneSlot DEF Inv, TypeOK
<1> QED BY <1>1, <1>7 DEF Inv, TypeOK

LEMMA ListStoreOK ==
  ASSUME Inv, NEW r \in Requests, ListStore(r)
  PROVE  Inv'
<1> DEFINE key == CacheKey(req[r].user, req[r].call)
<1>1. /\ req[r] \in Locals /\ req[r].pc = "list.setex" /\ req[r].page \in Result
      /\ req[r].user \in User /\ req[r].call \in Calls /\ req[r].call.op = "listTasks"
  BY DEF Inv, TypeOK, RequestsOK, Routed, Held, ListStore, At
<1>2. key \in Key
  BY <1>1, KeyOK
<1>3. DataOK' /\ KeysHold'
  BY <1>1, <1>2, RedisWritten DEF Inv, TypeOK, ListStore
<1>4. CASE Tracks(req[r].user, key)
  <2>1. key.assignee \in Users
    BY <1>2, <1>4, KeyOfUser DEF Tracks
  <2>2. Goto(r, "list.sadd")
    BY <1>4 DEF ListStore
  <2>3. Routed([req[r] EXCEPT !.pc = "list.sadd"]) /\ Held([req[r] EXCEPT !.pc = "list.sadd"])
    BY <1>1, <2>1 DEF Routed, Held, Locals
  <2>4. RequestsOK'
    BY <2>2, <2>3, GotoOK DEF Inv, TypeOK
  <2> QED BY <1>3, <2>4 DEF Inv, TypeOK
<1>5. CASE ~Tracks(req[r].user, key)
  <2>1. RequestsOK'
    BY <1>1, <1>5, AnswerPageOK DEF ListStore, At, Inv, TypeOK
  <2> QED BY <1>3, <2>1 DEF Inv, TypeOK
<1> QED BY <1>4, <1>5

LEMMA ListTrackOK ==
  ASSUME Inv, NEW r \in Requests, ListTrack(r)
  PROVE  Inv'
<1> DEFINE key == CacheKey(req[r].user, req[r].call)
<1>1. /\ req[r] \in Locals /\ req[r].pc = "list.sadd" /\ req[r].page \in Result
      /\ req[r].user \in User /\ req[r].call \in Calls /\ req[r].call.op = "listTasks"
      /\ key.assignee \in Users
  BY DEF Inv, TypeOK, RequestsOK, Routed, Held, ListTrack, At
<1>2. key \in Key
  BY <1>1, KeyOK
<1>3. DataOK' /\ KeysHold'
  BY <1>1, <1>2, RedisWritten DEF Inv, TypeOK, ListTrack
<1>4. RequestsOK'
  BY <1>1, AnswerPageOK DEF ListTrack, At, Inv, TypeOK
<1> QED BY <1>3, <1>4 DEF Inv, TypeOK

(* ---- invalidation ----------------------------------------------------------- *)

\* What an invalidation knows of the user whose lists it deletes.
LEMMA HeadOfTodo ==
  ASSUME RequestsOK, NEW r \in Requests, req[r].pc \in InvalPCs
  PROVE  /\ req[r] \in Locals /\ req[r].user \in User /\ req[r].call \in Calls
         /\ req[r].todo \in Seq(Users) \ {<<>>}
         /\ Head(req[r].todo) \in Users /\ Tail(req[r].todo) \in Seq(Users)
<1>1. req[r] \in Locals /\ req[r].user \in User /\ req[r].call \in Calls
  BY DEF RequestsOK, Held
<1>2. req[r].todo \in Seq(Users) /\ req[r].todo # <<>>
  BY DEF RequestsOK, Held, Locals
<1>3. \A s \in Seq(Users) : s # <<>> => Head(s) \in Users /\ Tail(s) \in Seq(Users)
  BY HeadTailProperties
<1> QED BY <1>1, <1>2, <1>3

LEMMA InvalNextOK ==
  ASSUME RequestsOK, NEW r \in Requests, req[r].pc \in InvalPCs, InvalNext(r)
  PROVE  RequestsOK'
BY HeadOfTodo, InvalidateOK DEF InvalNext, Locals

LEMMA InvalMembersOK ==
  ASSUME Inv, NEW r \in Requests, InvalMembers(r)
  PROVE  Inv'
<1> DEFINE ks == tracked[Head(req[r].todo)]
           pc == IF ks = {} THEN "inval.delset" ELSE "inval.del"
           q == [req[r] EXCEPT !.keys = ks, !.pc = pc]
<1>1. DataOK' /\ KeysHold'
  BY NothingWritten DEF Inv, TypeOK, InvalMembers
<1>2. req[r].pc = "inval.smembers"
  BY DEF InvalMembers, At
<1>3. /\ req[r] \in Locals /\ req[r].user \in User /\ req[r].call \in Calls
      /\ req[r].todo # <<>> /\ Head(req[r].todo) \in Users
  BY <1>2, HeadOfTodo DEF Inv, TypeOK
<1>4. ks \in SUBSET Key
  BY <1>3 DEF Inv, TypeOK, DataOK
<1>5. pc \in InvalPCs
  OBVIOUS
<1> HIDE DEF ks, pc
<1>6. q \in Locals /\ Routed(q) /\ Held(q)
  <2>1. pc \in HandlerPCs
    BY <1>5
  <2>2. q \in Locals
    <3> HIDE DEF HandlerPCs
    <3> QED BY <1>3, <1>4, <2>1 DEF Locals
  <2>3. q.pc \in InvalPCs /\ q.call = req[r].call /\ q.user = req[r].user /\ q.todo = req[r].todo
    BY <1>3, <1>5 DEF Locals
  <2> HIDE DEF q
  <2>4. Routed(q) /\ Held(q)
    BY <1>3, <2>3 DEF Routed, Held
  <2> QED BY <2>2, <2>4
<1>7. req' = [req EXCEPT ![r] = q]
  BY DEF ks, pc, InvalMembers, Inv, TypeOK, RequestsOK
<1>8. RequestsOK'
  BY <1>6, <1>7, OneSlot DEF Inv, TypeOK
<1> QED BY <1>1, <1>8 DEF Inv, TypeOK

LEMMA InvalDeleteOK ==
  ASSUME Inv, NEW r \in Requests, InvalDelete(r)
  PROVE  Inv'
<1>1. req[r].pc = "inval.del"
  BY DEF InvalDelete, At
<1>2. /\ req[r] \in Locals /\ req[r].user \in User /\ req[r].call \in Calls
      /\ req[r].todo # <<>>
  BY <1>1, HeadOfTodo DEF Inv, TypeOK
<1>3. DataOK' /\ KeysHold'
  BY <1>2, RedisWritten DEF Inv, TypeOK, InvalDelete, Locals
<1>4. Routed([req[r] EXCEPT !.pc = "inval.delset"]) /\ Held([req[r] EXCEPT !.pc = "inval.delset"])
  BY <1>2 DEF Routed, Held, Locals
<1>5. RequestsOK'
  BY <1>4, GotoOK DEF InvalDelete, Inv, TypeOK
<1> QED BY <1>3, <1>5 DEF Inv, TypeOK

LEMMA InvalClearOK ==
  ASSUME Inv, NEW r \in Requests, InvalClear(r)
  PROVE  Inv'
<1>1. req[r].pc \in InvalPCs
  BY DEF InvalClear, At
<1>2. Head(req[r].todo) \in Users
  BY <1>1, HeadOfTodo DEF Inv, TypeOK
<1>3. DataOK' /\ KeysHold'
  BY <1>2, RedisWritten DEF Inv, TypeOK, InvalClear
<1>4. RequestsOK'
  BY <1>1, InvalNextOK DEF InvalClear, Inv, TypeOK
<1> QED BY <1>3, <1>4 DEF Inv, TypeOK

LEMMA RedisErrorOK ==
  ASSUME Inv, NEW r \in Requests, RedisError(r)
  PROVE  Inv'
<1> DEFINE key == CacheKey(req[r].user, req[r].call)
<1>1. req[r].pc \in {"list.get", "list.setex", "list.sadd"} \cup InvalPCs
  BY DEF RedisError, At
<1>2. /\ req[r] \in Locals /\ req[r].user \in User /\ req[r].call \in Calls
  BY <1>1 DEF Inv, TypeOK, RequestsOK, Held
<1>3. DataOK' /\ KeysHold'
  <2>1. CASE UNCHANGED redis
    BY <2>1, NothingWritten DEF Inv, TypeOK, RedisError
  <2>2. CASE At(r, "list.setex") /\ SetEx(key, req[r].page)
    <3>1. key \in Key /\ req[r].page \in Result
      BY <1>2, <2>2, KeyOK DEF Inv, TypeOK, RequestsOK, Routed, Held, At
    <3> QED BY <2>2, <3>1, RedisWritten DEF Inv, TypeOK, RedisError
  <2>3. CASE At(r, "list.sadd") /\ SAdd(key.assignee, key)
    <3>1. key \in Key /\ key.assignee \in Users
      BY <1>2, <2>3, KeyOK DEF Inv, TypeOK, RequestsOK, Routed, Held, At
    <3> QED BY <2>3, <3>1, RedisWritten DEF Inv, TypeOK, RedisError
  <2>4. CASE At(r, "inval.del") /\ DelKeys(req[r].keys)
    BY <1>2, <2>4, RedisWritten DEF Inv, TypeOK, RedisError, Locals
  <2>5. CASE At(r, "inval.delset") /\ DelSet(Head(req[r].todo))
    BY <2>5, HeadOfTodo, RedisWritten DEF Inv, TypeOK, RedisError, At
  <2> QED BY <2>1, <2>2, <2>3, <2>4, <2>5 DEF RedisError, LostCommand
<1>4. CASE At(r, "list.get") /\ Goto(r, "list.query")
  <2>1. Routed([req[r] EXCEPT !.pc = "list.query"]) /\ Held([req[r] EXCEPT !.pc = "list.query"])
    BY <1>2, <1>4 DEF Inv, TypeOK, RequestsOK, Routed, Held, Locals, At
  <2>2. RequestsOK'
    BY <1>4, <2>1, GotoOK DEF Inv, TypeOK
  <2> QED BY <1>3, <2>2 DEF Inv, TypeOK
<1>5. CASE req[r].pc \in {"list.setex", "list.sadd"} /\ AnswerPage(r, req[r].page)
  <2>1. req[r].page \in Result
    BY <1>5 DEF Inv, TypeOK, RequestsOK, Held
  <2>2. RequestsOK'
    BY <1>5, <2>1, AnswerPageOK DEF At, Inv, TypeOK
  <2> QED BY <1>3, <2>2 DEF Inv, TypeOK
<1>6. CASE req[r].pc \in InvalPCs /\ InvalNext(r)
  <2>1. RequestsOK'
    BY <1>6, InvalNextOK DEF Inv, TypeOK
  <2> QED BY <1>3, <2>1 DEF Inv, TypeOK
<1> QED BY <1>4, <1>5, <1>6 DEF RedisError

(* ---- writing a task ----------------------------------------------------------- *)

\* A write that respects the foreign keys leaves a table that respects them.
LEMMA TaskWritten ==
  ASSUME DataOK, KeysHold, NEW t \in Tasks, NEW row \in TaskRow, TaskKeysHold(row),
         tasks' = Insert(tasks, t, row), issued' \in {issued, issued \cup {t}},
         UNCHANGED <<orgs, users, projects, redis>>
  PROVE  DataOK' /\ KeysHold'
<1>1. tasks' \in TaskTable
  BY DEF DataOK, TaskTable, Insert
<1>2. DataOK'
  BY <1>1 DEF DataOK, redis
<1>3. ASSUME NEW s \in Tasks, tasks'[s] # Null PROVE TaskKeysHold(tasks'[s])
  <2>1. CASE s = t
    <3>1. tasks'[s] = row
      BY <2>1 DEF DataOK, TaskTable, Insert
    <3> QED BY <3>1
  <2>2. CASE s # t
    <3>1. tasks'[s] = tasks[s]
      BY <2>2 DEF DataOK, TaskTable, Insert
    <3> QED BY <1>3, <3>1 DEF KeysHold, Row
  <2> QED BY <2>1, <2>2
<1>4. KeysHold'
  BY <1>3 DEF KeysHold, TaskKeysHold, Row
<1> QED BY <1>2, <1>4

LEMMA TaskRemoved ==
  ASSUME DataOK, KeysHold, NEW t \in Tasks, tasks' = Delete(tasks, t),
         UNCHANGED <<orgs, users, projects, issued, redis>>
  PROVE  DataOK' /\ KeysHold'
<1>1. DataOK'
  BY DEF DataOK, TaskTable, Delete, redis
<1>2. KeysHold'
  BY DEF DataOK, TaskTable, Delete, TaskKeysHold, Row, KeysHold
<1> QED BY <1>1, <1>2

(* ---- get and create ------------------------------------------------------------ *)

LEMMA GetFindOK ==
  ASSUME Inv, NEW r \in Requests, GetFind(r)
  PROVE  Inv'
<1>1. DataOK' /\ KeysHold'
  BY NothingWritten DEF Inv, TypeOK, GetFind
<1>2. RequestsOK'
  <2>1. /\ ~At(r, "idle") /\ 404 \in Nat /\ 200 \in Nat
        /\ Answer(r, 404) \/ Answer(r, 200)
    BY DEF GetFind, At
  <2> QED BY <2>1, AnswerOK DEF Inv, TypeOK
<1> QED BY <1>1, <1>2 DEF Inv, TypeOK

LEMMA CreateAssigneeOK ==
  ASSUME Inv, NEW r \in Requests, CreateAssignee(r)
  PROVE  Inv'
<1>1. DataOK' /\ KeysHold'
  BY NothingWritten DEF Inv, TypeOK, CreateAssignee
<1>2. /\ req[r] \in Locals /\ req[r].pc = "create.assignee"
      /\ req[r].user \in User /\ req[r].call \in Calls /\ req[r].call.op = "createTask"
  BY DEF Inv, TypeOK, RequestsOK, Routed, Held, CreateAssignee, At
<1>3. CASE Answer(r, 400)
  BY <1>1, <1>2, <1>3, AnswerOK DEF At, Inv, TypeOK
<1>4. CASE Goto(r, "create.project")
  <2>1. Routed([req[r] EXCEPT !.pc = "create.project"]) /\ Held([req[r] EXCEPT !.pc = "create.project"])
    BY <1>2 DEF Routed, Held, Locals
  <2> QED BY <1>1, <1>4, <2>1, GotoOK DEF Inv, TypeOK
<1> QED BY <1>3, <1>4 DEF CreateAssignee

LEMMA CreateProjectCheckOK ==
  ASSUME Inv, NEW r \in Requests, CreateProjectCheck(r)
  PROVE  Inv'
<1>1. DataOK' /\ KeysHold'
  BY NothingWritten DEF Inv, TypeOK, CreateProjectCheck
<1>2. /\ req[r] \in Locals /\ req[r].pc = "create.project"
      /\ req[r].user \in User /\ req[r].call \in Calls /\ req[r].call.op = "createTask"
  BY DEF Inv, TypeOK, RequestsOK, Routed, Held, CreateProjectCheck, At
<1>3. CASE Answer(r, 400)
  BY <1>1, <1>2, <1>3, AnswerOK DEF At, Inv, TypeOK
<1>4. CASE Goto(r, "create.insert")
  <2>1. Routed([req[r] EXCEPT !.pc = "create.insert"]) /\ Held([req[r] EXCEPT !.pc = "create.insert"])
    BY <1>2 DEF Routed, Held, Locals
  <2> QED BY <1>1, <1>4, <2>1, GotoOK DEF Inv, TypeOK
<1> QED BY <1>3, <1>4 DEF CreateProjectCheck

LEMMA CreateInsertOK ==
  ASSUME Inv, NEW r \in Requests, CreateInsert(r)
  PROVE  Inv'
<1> DEFINE row == NewTask(req[r].user, req[r].call)
<1>1. /\ req[r] \in Locals /\ req[r].pc = "create.insert"
      /\ req[r].user \in User /\ req[r].call \in Calls /\ req[r].call.op = "createTask"
  BY DEF Inv, TypeOK, RequestsOK, Routed, Held, CreateInsert, At
<1>2. row \in TaskRow
  BY <1>1, NewTaskOK
<1> HIDE DEF row
<1>3. CASE TaskKeysHold(row)
  <2>1. PICK t \in Tasks \ issued :
          /\ tasks' = Insert(tasks, t, row) /\ issued' = issued \cup {t}
          /\ Invalidate(r, ListsOf(row.assignee), 201)
    BY <1>3 DEF CreateInsert, row
  <2>2. DataOK' /\ KeysHold'
    BY <1>2, <1>3, <2>1, TaskWritten DEF CreateInsert, Inv, TypeOK
  <2>3. ListsOf(row.assignee) \in Seq(Users)
    BY <1>2, ListsOfOK DEF TaskRow
  <2>4. RequestsOK'
    BY <1>1, <2>1, <2>3, InvalidateOK DEF Inv, TypeOK
  <2> QED BY <2>2, <2>4 DEF Inv, TypeOK
<1>4. CASE ~TaskKeysHold(row)
  <2>1. Answer(r, 500) /\ UNCHANGED tables /\ UNCHANGED redis
    BY <1>4 DEF CreateInsert, row, tables
  <2> QED BY <1>1, <2>1, AnswerOK, NothingWritten DEF At, Inv, TypeOK
<1> QED BY <1>3, <1>4

(* ---- update, status and delete --------------------------------------------------- *)

LEMMA GetTaskOK ==
  ASSUME DataOK, NEW user, NEW t \in Tasks, GetTask(user, t) # Null
  PROVE  GetTask(user, t) \in TaskRow
BY DEF DataOK, TaskTable, GetTask, Row

LEMMA StaleListsOK ==
  ASSUME NEW c \in Calls, NEW read \in TaskRow, NEW row \in TaskRow
  PROVE  StaleLists(c, read, row) \in Seq(Users)
<1> DEFINE old == IF NewAssignee(c, read) THEN ListsOf(read.assignee) ELSE <<>>
<1>1. ListsOf(read.assignee) \in Seq(Users) /\ ListsOf(row.assignee) \in Seq(Users)
  BY ListsOfOK DEF TaskRow
<1>2. old \in Seq(Users)
  BY <1>1
<1> HIDE DEF old
<1>3. old \o ListsOf(row.assignee) \in Seq(Users)
  BY <1>1, <1>2, ConcatProperties
<1> QED BY <1>3 DEF StaleLists, old

LEMMA UpdateFindOK ==
  ASSUME Inv, NEW r \in Requests, UpdateFind(r)
  PROVE  Inv'
<1> DEFINE row == GetTask(req[r].user, req[r].call.id)
<1>1. DataOK' /\ KeysHold'
  BY NothingWritten DEF Inv, TypeOK, UpdateFind
<1>2. /\ req[r] \in Locals /\ req[r].pc = "update.find"
      /\ req[r].user \in User /\ req[r].call \in Calls /\ req[r].call.op = "updateTask"
  BY DEF Inv, TypeOK, RequestsOK, Routed, Held, UpdateFind, At
<1>3. req[r].call.id \in Tasks
  BY <1>2, CallsAssumption
<1>4. CASE row = Null
  <2>1. Answer(r, 404)
    BY <1>4 DEF UpdateFind
  <2> QED BY <1>1, <1>2, <2>1, AnswerOK DEF At, Inv, TypeOK
<1>5. CASE row # Null
  <2> DEFINE pc == IF NewAssignee(req[r].call, row) THEN "update.assignee" ELSE "update.write"
             q == [req[r] EXCEPT !.row = row, !.pc = pc]
  <2>1. row \in TaskRow
    BY <1>3, <1>5, GetTaskOK DEF Inv, TypeOK
  <2>2. pc \in UpdatePCs /\ (pc = "update.assignee" => req[r].call.assignee \in Users)
    BY DEF NewAssignee
  <2>3. req' = [req EXCEPT ![r] = q]
    BY <1>5 DEF UpdateFind, Inv, TypeOK, RequestsOK
  <2> HIDE DEF row, pc
  <2>4. pc \in HandlerPCs
    BY <2>2
  <2>5. q \in Locals
    <3> HIDE DEF HandlerPCs
    <3> QED BY <1>2, <2>1, <2>4 DEF Locals
  <2>6. q.pc = pc /\ q.row = row /\ q.call = req[r].call /\ q.user = req[r].user
    BY <1>2 DEF Locals
  <2> HIDE DEF q
  <2>7. Routed(q) /\ Held(q)
    BY <1>2, <2>1, <2>2, <2>6 DEF Routed, Held
  <2> QED BY <1>1, <2>3, <2>5, <2>7, OneSlot DEF Inv, TypeOK
<1> QED BY <1>4, <1>5

LEMMA UpdateAssigneeOK ==
  ASSUME Inv, NEW r \in Requests, UpdateAssignee(r)
  PROVE  Inv'
<1>1. DataOK' /\ KeysHold'
  BY NothingWritten DEF Inv, TypeOK, UpdateAssignee
<1>2. /\ req[r] \in Locals /\ req[r].pc = "update.assignee" /\ req[r].row \in TaskRow
      /\ req[r].user \in User /\ req[r].call \in Calls /\ req[r].call.op = "updateTask"
  BY DEF Inv, TypeOK, RequestsOK, Routed, Held, UpdateAssignee, At
<1>3. CASE Answer(r, 400)
  BY <1>1, <1>2, <1>3, AnswerOK DEF At, Inv, TypeOK
<1>4. CASE Goto(r, "update.write")
  <2>1. Routed([req[r] EXCEPT !.pc = "update.write"]) /\ Held([req[r] EXCEPT !.pc = "update.write"])
    BY <1>2 DEF Routed, Held, Locals
  <2> QED BY <1>1, <1>4, <2>1, GotoOK DEF Inv, TypeOK
<1> QED BY <1>3, <1>4 DEF UpdateAssignee

LEMMA UpdateWriteOK ==
  ASSUME Inv, NEW r \in Requests, UpdateWrite(r)
  PROVE  Inv'
<1> DEFINE c == req[r].call
           row == Patched(tasks[c.id], c)
<1>1. /\ req[r] \in Locals /\ req[r].pc = "update.write" /\ req[r].row \in TaskRow
      /\ req[r].user \in User /\ c \in Calls /\ c.op = "updateTask"
  BY DEF Inv, TypeOK, RequestsOK, Routed, Held, UpdateWrite, At
<1>2. c.id \in Tasks
  BY <1>1, CallsAssumption
<1>3. CASE Row(tasks, c.id) /\ TaskKeysHold(row)
  <2>1. row \in TaskRow
    BY <1>1, <1>2, <1>3, PatchedOK DEF Row, Inv, TypeOK, DataOK, TaskTable
  <2>2. tasks' = Insert(tasks, c.id, row) /\ Invalidate(r, StaleLists(c, req[r].row, row), 200)
    BY <1>3 DEF UpdateWrite
  <2> HIDE DEF row
  <2>3. DataOK' /\ KeysHold'
    BY <1>2, <1>3, <2>1, <2>2, TaskWritten DEF UpdateWrite, Inv, TypeOK
  <2>4. StaleLists(c, req[r].row, row) \in Seq(Users)
    BY <1>1, <2>1, StaleListsOK
  <2>5. RequestsOK'
    BY <1>1, <2>2, <2>4, InvalidateOK DEF Inv, TypeOK
  <2> QED BY <2>3, <2>5 DEF Inv, TypeOK
<1>4. CASE ~(Row(tasks, c.id) /\ TaskKeysHold(row))
  <2>1. Answer(r, 500) /\ UNCHANGED tables /\ UNCHANGED redis
    BY <1>4 DEF UpdateWrite, tables
  <2> QED BY <1>1, <2>1, AnswerOK, NothingWritten DEF At, Inv, TypeOK
<1> QED BY <1>3, <1>4

LEMMA StatusFindOK ==
  ASSUME Inv, NEW r \in Requests, StatusFind(r)
  PROVE  Inv'
<1> DEFINE c == req[r].call
           q == [req[r] EXCEPT !.row = tasks[c.id], !.pc = "status.write"]
<1>1. DataOK' /\ KeysHold'
  BY NothingWritten DEF Inv, TypeOK, StatusFind
<1>2. /\ req[r] \in Locals /\ req[r].pc = "status.find"
      /\ req[r].user \in User /\ c \in Calls /\ c.op = "updateTaskStatus"
  BY DEF Inv, TypeOK, RequestsOK, Routed, Held, StatusFind, At
<1>3. c.id \in Tasks
  BY <1>2, CallsAssumption
<1>4. CASE \E code \in {400, 403, 404} : Answer(r, code)
  BY <1>1, <1>2, <1>4, AnswerOK DEF At, Inv, TypeOK
<1>5. CASE Row(tasks, c.id) /\ req' = [req EXCEPT ![r].row = tasks[c.id], ![r].pc = "status.write"]
  <2>1. tasks[c.id] \in TaskRow
    BY <1>3, <1>5 DEF Inv, TypeOK, DataOK, TaskTable, Row
  <2>2. req' = [req EXCEPT ![r] = q]
    BY <1>5 DEF Inv, TypeOK, RequestsOK
  <2>3. q \in Locals
    BY <1>2, <2>1 DEF Locals
  <2>4. Routed(q) /\ Held(q)
    BY <1>2, <2>1 DEF Routed, Held, Locals
  <2> QED BY <1>1, <2>2, <2>3, <2>4, OneSlot DEF Inv, TypeOK
<1> QED BY <1>4, <1>5 DEF StatusFind

LEMMA StatusWriteOK ==
  ASSUME Inv, NEW r \in Requests, StatusWrite(r)
  PROVE  Inv'
<1> DEFINE c == req[r].call
           row == Moved(tasks[c.id], c.status)
<1>1. /\ req[r] \in Locals /\ req[r].pc = "status.write"
      /\ req[r].user \in User /\ c \in Calls /\ c.op = "updateTaskStatus"
  BY DEF Inv, TypeOK, RequestsOK, Routed, Held, StatusWrite, At
<1>2. c.id \in Tasks /\ c.status \in Statuses
  BY <1>1, CallsAssumption
<1>3. CASE Row(tasks, c.id)
  <2>1. tasks[c.id] \in TaskRow
    BY <1>2, <1>3 DEF Row, Inv, TypeOK, DataOK, TaskTable
  <2>2. row \in TaskRow
    BY <1>2, <2>1, MovedOK
  <2>3. TaskKeysHold(row)
    BY <1>2, <1>3, <2>1 DEF Inv, KeysHold, TaskKeysHold, Moved, TaskRow
  <2>4. tasks' = Insert(tasks, c.id, row) /\ Invalidate(r, ListsOf(row.assignee), 200)
    BY <1>3 DEF StatusWrite
  <2> HIDE DEF row
  <2>5. DataOK' /\ KeysHold'
    BY <1>2, <2>2, <2>3, <2>4, TaskWritten DEF StatusWrite, Inv, TypeOK
  <2>6. ListsOf(row.assignee) \in Seq(Users)
    BY <2>2, ListsOfOK DEF TaskRow
  <2>7. RequestsOK'
    BY <1>1, <2>4, <2>6, InvalidateOK DEF Inv, TypeOK
  <2> QED BY <2>5, <2>7 DEF Inv, TypeOK
<1>4. CASE ~Row(tasks, c.id)
  <2>1. Answer(r, 500) /\ UNCHANGED tables /\ UNCHANGED redis
    BY <1>4 DEF StatusWrite, tables
  <2> QED BY <1>1, <2>1, AnswerOK, NothingWritten DEF At, Inv, TypeOK
<1> QED BY <1>3, <1>4

LEMMA DeleteFindOK ==
  ASSUME Inv, NEW r \in Requests, DeleteFind(r)
  PROVE  Inv'
<1> DEFINE row == GetTask(req[r].user, req[r].call.id)
           q == [req[r] EXCEPT !.row = row, !.pc = "delete.write"]
<1>1. DataOK' /\ KeysHold'
  BY NothingWritten DEF Inv, TypeOK, DeleteFind
<1>2. /\ req[r] \in Locals /\ req[r].pc = "delete.find"
      /\ req[r].user \in User /\ req[r].call \in Calls /\ req[r].call.op = "deleteTask"
  BY DEF Inv, TypeOK, RequestsOK, Routed, Held, DeleteFind, At
<1>3. req[r].call.id \in Tasks
  BY <1>2, CallsAssumption
<1>4. CASE row = Null
  <2>1. Answer(r, 404)
    BY <1>4 DEF DeleteFind
  <2> QED BY <1>1, <1>2, <2>1, AnswerOK DEF At, Inv, TypeOK
<1>5. CASE row # Null
  <2>1. row \in TaskRow
    BY <1>3, <1>5, GetTaskOK DEF Inv, TypeOK
  <2>2. req' = [req EXCEPT ![r] = q]
    BY <1>5 DEF DeleteFind, Inv, TypeOK, RequestsOK
  <2> HIDE DEF row
  <2>3. q \in Locals
    BY <1>2, <2>1 DEF Locals
  <2>4. Routed(q) /\ Held(q)
    BY <1>2, <2>1 DEF Routed, Held, Locals
  <2> QED BY <1>1, <2>2, <2>3, <2>4, OneSlot DEF Inv, TypeOK
<1> QED BY <1>4, <1>5

LEMMA DeleteWriteOK ==
  ASSUME Inv, NEW r \in Requests, DeleteWrite(r)
  PROVE  Inv'
<1> DEFINE t == req[r].call.id
<1>1. /\ req[r] \in Locals /\ req[r].pc = "delete.write" /\ req[r].row \in TaskRow
      /\ req[r].user \in User /\ req[r].call \in Calls /\ req[r].call.op = "deleteTask"
  BY DEF Inv, TypeOK, RequestsOK, Routed, Held, DeleteWrite, At
<1>2. t \in Tasks
  BY <1>1, CallsAssumption
<1>3. CASE Row(tasks, t)
  <2>1. tasks' = Delete(tasks, t) /\ Invalidate(r, ListsOf(req[r].row.assignee), 200)
    BY <1>3 DEF DeleteWrite
  <2>2. DataOK' /\ KeysHold'
    BY <1>2, <2>1, TaskRemoved DEF DeleteWrite, Inv, TypeOK
  <2>3. ListsOf(req[r].row.assignee) \in Seq(Users)
    BY <1>1, ListsOfOK DEF TaskRow
  <2>4. RequestsOK'
    BY <1>1, <2>1, <2>3, InvalidateOK DEF Inv, TypeOK
  <2> QED BY <2>2, <2>4 DEF Inv, TypeOK
<1>4. CASE ~Row(tasks, t)
  <2>1. Answer(r, 500) /\ UNCHANGED tables /\ UNCHANGED redis
    BY <1>4 DEF DeleteWrite, tables
  <2> QED BY <1>1, <2>1, AnswerOK, NothingWritten DEF At, Inv, TypeOK
<1> QED BY <1>3, <1>4

(* ---- projects ------------------------------------------------------------------------ *)

\* A project row written over another, or a new one, keeps every foreign key.
LEMMA ProjectWritten ==
  ASSUME DataOK, KeysHold, NEW p \in Projects, NEW row \in ProjectRow,
         projects' = Insert(projects, p, row), issued' \in {issued, issued \cup {p}},
         UNCHANGED <<orgs, users, tasks, redis>>
  PROVE  DataOK' /\ KeysHold'
<1>1. DataOK'
  BY DEF DataOK, ProjectTable, Insert, redis
<1>2. \A x \in Projects : projects[x] # Null => projects'[x] # Null
  BY SchemaAssumption DEF DataOK, ProjectTable, Insert
<1>3. \A t \in Tasks : tasks[t] # Null => tasks[t].project \in Projects
  BY DEF DataOK, TaskTable, TaskRow
<1>4. KeysHold'
  BY <1>2, <1>3 DEF KeysHold, TaskKeysHold, Row
<1> QED BY <1>1, <1>4

LEMMA ProjectInsertOK ==
  ASSUME Inv, NEW r \in Requests, ProjectInsert(r)
  PROVE  Inv'
<1>1. /\ req[r].pc = "project.insert" /\ req[r].user \in User /\ req[r].call \in Calls
  BY DEF Inv, TypeOK, RequestsOK, Held, ProjectInsert, At
<1>2. PICK p \in Projects \ issued :
        /\ projects' = Insert(projects, p, [org |-> req[r].user.org, name |-> req[r].call.name])
        /\ issued' = issued \cup {p}
  BY DEF ProjectInsert
<1>3. [org |-> req[r].user.org, name |-> req[r].call.name] \in ProjectRow
  BY <1>1, CallsAssumption DEF ProjectRow, User, Call
<1>4. DataOK' /\ KeysHold'
  BY <1>2, <1>3, ProjectWritten DEF ProjectInsert, Inv, TypeOK
<1>5. RequestsOK'
  BY <1>1, AnswerOK DEF ProjectInsert, At, Inv, TypeOK
<1> QED BY <1>4, <1>5 DEF Inv, TypeOK

LEMMA ProjectFindOK ==
  ASSUME Inv, NEW r \in Requests, ProjectFind(r)
  PROVE  Inv'
<1>1. DataOK' /\ KeysHold'
  BY NothingWritten DEF Inv, TypeOK, ProjectFind
<1>2. /\ req[r] \in Locals /\ req[r].pc = "project.find"
      /\ req[r].user \in User /\ req[r].call \in Calls
  BY DEF Inv, TypeOK, RequestsOK, Held, ProjectFind, At
<1>3. CASE Answer(r, 404)
  BY <1>1, <1>2, <1>3, AnswerOK DEF At, Inv, TypeOK
<1>4. CASE Goto(r, "project.write")
  <2>1. Routed([req[r] EXCEPT !.pc = "project.write"]) /\ Held([req[r] EXCEPT !.pc = "project.write"])
    BY <1>2 DEF Routed, Held, Locals
  <2> QED BY <1>1, <1>4, <2>1, GotoOK DEF Inv, TypeOK
<1> QED BY <1>3, <1>4 DEF ProjectFind

LEMMA ProjectUpdateOK ==
  ASSUME Inv, NEW r \in Requests, ProjectUpdate(r)
  PROVE  Inv'
<1> DEFINE p == req[r].call.id
           row == [projects[p] EXCEPT !.name = req[r].call.name]
<1>1. /\ req[r].pc = "project.write" /\ req[r].call \in Calls /\ req[r].call.op = "updateProject"
  BY DEF Inv, TypeOK, RequestsOK, Held, ProjectUpdate, At
<1>2. p \in Projects /\ req[r].call.name \in Names
  BY <1>1, CallsAssumption DEF Call
<1>3. RequestsOK'
  <2>1. Answer(r, 200) \/ Answer(r, 500)
    BY DEF ProjectUpdate
  <2> QED BY <1>1, <2>1, AnswerOK DEF At, Inv, TypeOK
<1>4. CASE Row(projects, p)
  <2>1. row \in ProjectRow
    BY <1>2, <1>4 DEF Row, Inv, TypeOK, DataOK, ProjectTable, ProjectRow
  <2>2. projects' = Insert(projects, p, row)
    BY <1>2, <1>4 DEF ProjectUpdate, Insert, Inv, TypeOK, DataOK, ProjectTable
  <2> HIDE DEF row
  <2>3. DataOK' /\ KeysHold'
    BY <1>2, <2>1, <2>2, ProjectWritten DEF ProjectUpdate, Inv, TypeOK
  <2> QED BY <1>3, <2>3 DEF Inv, TypeOK
<1>5. CASE ~Row(projects, p)
  <2>1. UNCHANGED tables /\ UNCHANGED redis
    BY <1>5 DEF ProjectUpdate, tables
  <2> QED BY <1>3, <2>1, NothingWritten DEF Inv, TypeOK
<1> QED BY <1>4, <1>5

LEMMA ProjectDeleteOK ==
  ASSUME Inv, NEW r \in Requests, ProjectDelete(r)
  PROVE  Inv'
<1> DEFINE p == req[r].call.id
<1>1. /\ req[r].pc = "project.write" /\ req[r].call \in Calls /\ req[r].call.op = "deleteProject"
  BY DEF Inv, TypeOK, RequestsOK, Held, ProjectDelete, At
<1>2. p \in Projects
  BY <1>1, CallsAssumption
<1>3. RequestsOK'
  <2>1. Answer(r, 200) \/ Answer(r, 500)
    BY DEF ProjectDelete
  <2> QED BY <1>1, <2>1, AnswerOK DEF At, Inv, TypeOK
<1>4. CASE ProjectDeletable(p)
  <2>1. projects' = Delete(projects, p) /\ UNCHANGED <<orgs, users, tasks, issued, redis>>
    BY <1>4 DEF ProjectDelete
  <2>2. DataOK'
    BY <2>1 DEF Inv, TypeOK, DataOK, ProjectTable, Delete, redis
  <2>3. \A x \in Projects : x # p => projects'[x] = projects[x]
    BY <2>1 DEF Inv, TypeOK, DataOK, ProjectTable, Delete
  <2>4. \A t \in Tasks : tasks[t] # Null => tasks[t].project \in Projects \ {p}
    BY <1>4 DEF ProjectDeletable, HasTasks, Row, Inv, TypeOK, DataOK, TaskTable, TaskRow
  <2>5. KeysHold'
    BY <2>1, <2>3, <2>4 DEF Inv, KeysHold, TaskKeysHold, Row
  <2> QED BY <1>3, <2>2, <2>5 DEF Inv, TypeOK
<1>5. CASE ~ProjectDeletable(p)
  <2>1. UNCHANGED tables /\ UNCHANGED redis
    BY <1>5 DEF ProjectDelete, tables
  <2> QED BY <1>3, <2>1, NothingWritten DEF Inv, TypeOK
<1> QED BY <1>4, <1>5

(* ---- accounts ------------------------------------------------------------------------ *)

\* A user row written over another, or a new one, keeps every foreign key.
LEMMA UserWritten ==
  ASSUME DataOK, KeysHold, NEW u \in Users, NEW row \in UserRow,
         users' = Insert(users, u, row), issued' \in {issued, issued \cup {u}},
         orgs' \subseteq Orgs, UNCHANGED <<projects, tasks, redis>>
  PROVE  DataOK' /\ KeysHold'
<1>1. DataOK'
  BY DEF DataOK, UserTable, Insert, redis
<1>2. \A x \in Users : users[x] # Null => users'[x] # Null
  BY SchemaAssumption DEF DataOK, UserTable, Insert
<1>3. \A t \in Tasks : tasks[t] # Null =>
        tasks[t].creator \in Users /\ tasks[t].assignee \in Users \cup {Null}
  BY DEF DataOK, TaskTable, TaskRow
<1>4. KeysHold'
  BY <1>2, <1>3 DEF KeysHold, TaskKeysHold, Row
<1> QED BY <1>1, <1>4

LEMMA AccountFindOK ==
  ASSUME Inv, NEW r \in Requests, AccountFind(r)
  PROVE  Inv'
<1> DEFINE pc == IF At(r, "register.find") THEN "register.insert" ELSE "invite.insert"
<1>1. DataOK' /\ KeysHold'
  BY NothingWritten DEF Inv, TypeOK, AccountFind
<1>2. /\ req[r] \in Locals /\ req[r].pc \in {"register.find", "invite.find"}
      /\ req[r].pc = "invite.find" => req[r].user \in User
      /\ req[r].call \in Calls
  BY DEF Inv, TypeOK, RequestsOK, Held, AccountFind
<1>3. CASE Answer(r, 409)
  BY <1>1, <1>2, <1>3, AnswerOK DEF At, Inv, TypeOK
<1>4. CASE Goto(r, pc)
  <2>1. CASE At(r, "register.find")
    <3>1. Routed([req[r] EXCEPT !.pc = "register.insert"]) /\ Held([req[r] EXCEPT !.pc = "register.insert"])
      BY <1>2 DEF Routed, Held, Locals
    <3> QED BY <1>1, <1>4, <2>1, <3>1, GotoOK DEF Inv, TypeOK
  <2>2. CASE ~At(r, "register.find")
    <3>1. Routed([req[r] EXCEPT !.pc = "invite.insert"]) /\ Held([req[r] EXCEPT !.pc = "invite.insert"])
      BY <1>2, <2>2 DEF Routed, Held, Locals, At
    <3> QED BY <1>1, <1>4, <2>2, <3>1, GotoOK DEF Inv, TypeOK
  <2> QED BY <2>1, <2>2
<1> QED BY <1>3, <1>4 DEF AccountFind

LEMMA RegisterInsertOK ==
  ASSUME Inv, NEW r \in Requests, RegisterInsert(r)
  PROVE  Inv'
<1> DEFINE email == req[r].call.email
<1>1. req[r].pc = "register.insert" /\ req[r].call \in Calls
  BY DEF Inv, TypeOK, RequestsOK, Held, RegisterInsert, At
<1>2. email \in Emails
  BY <1>1, CallsAssumption DEF Call
<1>3. RequestsOK'
  <2>1. Answer(r, 201) \/ Answer(r, 500)
    BY DEF RegisterInsert
  <2> QED BY <1>1, <2>1, AnswerOK DEF At, Inv, TypeOK
<1>4. CASE ~EmailTaken(email)
  <2>1. PICK o \in Orgs \ orgs, u \in Users \ issued :
          orgs' = orgs \cup {o} /\ AddUser(u, o, "ADMIN", email)
    BY <1>4 DEF RegisterInsert
  <2>2. [org |-> o, role |-> "ADMIN", email |-> email] \in UserRow
    BY <1>2 DEF UserRow, Roles
  <2>3. orgs' \subseteq Orgs
    BY <2>1 DEF Inv, TypeOK, DataOK
  <2>4. DataOK' /\ KeysHold'
    BY <2>1, <2>2, <2>3, UserWritten DEF RegisterInsert, AddUser, Inv, TypeOK
  <2> QED BY <1>3, <2>4 DEF Inv, TypeOK
<1>5. CASE EmailTaken(email)
  <2>1. UNCHANGED tables /\ UNCHANGED redis
    BY <1>5 DEF RegisterInsert, tables
  <2> QED BY <1>3, <2>1, NothingWritten DEF Inv, TypeOK
<1> QED BY <1>4, <1>5

LEMMA InviteInsertOK ==
  ASSUME Inv, NEW r \in Requests, InviteInsert(r)
  PROVE  Inv'
<1> DEFINE c == req[r].call
<1>1. req[r].pc = "invite.insert" /\ c \in Calls /\ req[r].user \in User
  BY DEF Inv, TypeOK, RequestsOK, Held, InviteInsert, At
<1>2. c.email \in Emails /\ c.role \in Roles /\ req[r].user.org \in Orgs
  BY <1>1, CallsAssumption DEF Call, User
<1>3. RequestsOK'
  <2>1. Answer(r, 201) \/ Answer(r, 500)
    BY DEF InviteInsert
  <2> QED BY <1>1, <2>1, AnswerOK DEF At, Inv, TypeOK
<1>4. CASE ~EmailTaken(c.email)
  <2>1. PICK u \in Users \ issued : AddUser(u, req[r].user.org, c.role, c.email)
    BY <1>4 DEF InviteInsert
  <2>2. [org |-> req[r].user.org, role |-> c.role, email |-> c.email] \in UserRow
    BY <1>2 DEF UserRow
  <2>3. orgs' \subseteq Orgs
    BY DEF InviteInsert, Inv, TypeOK, DataOK
  <2>4. DataOK' /\ KeysHold'
    BY <2>1, <2>2, <2>3, UserWritten DEF InviteInsert, AddUser, Inv, TypeOK
  <2> QED BY <1>3, <2>4 DEF Inv, TypeOK
<1>5. CASE EmailTaken(c.email)
  <2>1. UNCHANGED tables /\ UNCHANGED redis
    BY <1>5 DEF InviteInsert, tables
  <2> QED BY <1>3, <2>1, NothingWritten DEF Inv, TypeOK
<1> QED BY <1>4, <1>5

LEMMA UserFindOK ==
  ASSUME Inv, NEW r \in Requests, UserFind(r)
  PROVE  Inv'
<1>1. DataOK' /\ KeysHold'
  BY NothingWritten DEF Inv, TypeOK, UserFind
<1>2. /\ req[r] \in Locals /\ req[r].pc = "user.find"
      /\ req[r].user \in User /\ req[r].call \in Calls
  BY DEF Inv, TypeOK, RequestsOK, Held, UserFind, At
<1>3. CASE Answer(r, 404)
  BY <1>1, <1>2, <1>3, AnswerOK DEF At, Inv, TypeOK
<1>4. CASE Goto(r, "user.write")
  <2>1. Routed([req[r] EXCEPT !.pc = "user.write"]) /\ Held([req[r] EXCEPT !.pc = "user.write"])
    BY <1>2 DEF Routed, Held, Locals
  <2> QED BY <1>1, <1>4, <2>1, GotoOK DEF Inv, TypeOK
<1> QED BY <1>3, <1>4 DEF UserFind

LEMMA RoleWriteOK ==
  ASSUME Inv, NEW r \in Requests, RoleWrite(r)
  PROVE  Inv'
<1> DEFINE u == req[r].call.id
           row == [users[u] EXCEPT !.role = req[r].call.role]
<1>1. /\ req[r].pc = "user.write" /\ req[r].call \in Calls /\ req[r].call.op = "updateUserRole"
  BY DEF Inv, TypeOK, RequestsOK, Held, RoleWrite, At
<1>2. u \in Users /\ req[r].call.role \in Roles
  BY <1>1, CallsAssumption DEF Call
<1>3. RequestsOK'
  <2>1. Answer(r, 200) \/ Answer(r, 500)
    BY DEF RoleWrite
  <2> QED BY <1>1, <2>1, AnswerOK DEF At, Inv, TypeOK
<1>4. CASE Row(users, u)
  <2>1. row \in UserRow
    BY <1>2, <1>4 DEF Row, Inv, TypeOK, DataOK, UserTable, UserRow
  <2>2. users' = Insert(users, u, row)
    BY <1>2, <1>4 DEF RoleWrite, Insert, Inv, TypeOK, DataOK, UserTable
  <2>3. orgs' \subseteq Orgs
    BY DEF RoleWrite, Inv, TypeOK, DataOK
  <2> HIDE DEF row
  <2>4. DataOK' /\ KeysHold'
    BY <1>2, <2>1, <2>2, <2>3, UserWritten DEF RoleWrite, Inv, TypeOK
  <2> QED BY <1>3, <2>4 DEF Inv, TypeOK
<1>5. CASE ~Row(users, u)
  <2>1. UNCHANGED tables /\ UNCHANGED redis
    BY <1>5 DEF RoleWrite, tables
  <2> QED BY <1>3, <2>1, NothingWritten DEF Inv, TypeOK
<1> QED BY <1>4, <1>5

LEMMA UserDeleteOK ==
  ASSUME Inv, NEW r \in Requests, UserDelete(r)
  PROVE  Inv'
<1> DEFINE u == req[r].call.id
<1>1. /\ req[r].pc = "user.write" /\ req[r].call \in Calls /\ req[r].call.op = "deleteUser"
  BY DEF Inv, TypeOK, RequestsOK, Held, UserDelete, At
<1>2. u \in Users
  BY <1>1, CallsAssumption
<1>3. RequestsOK'
  <2>1. Answer(r, 200) \/ Answer(r, 500)
    BY DEF UserDelete
  <2> QED BY <1>1, <2>1, AnswerOK DEF At, Inv, TypeOK
<1>4. CASE Row(users, u) /\ ~HasCreated(u)
  <2>1. users' = Delete(users, u) /\ tasks' = UnassignAll(u) /\ UNCHANGED <<orgs, projects, issued, redis>>
    BY <1>4 DEF UserDelete
  <2>2. ASSUME NEW t \in Tasks
        PROVE  /\ tasks'[t] \in TaskRow \cup {Null}
               /\ tasks'[t] # Null =>
                    /\ tasks[t] # Null /\ tasks'[t].project = tasks[t].project
                    /\ tasks'[t].creator = tasks[t].creator
                    /\ tasks'[t].assignee = (IF tasks[t].assignee = u THEN Null ELSE tasks[t].assignee)
    BY <2>1 DEF UnassignAll, Row, Inv, TypeOK, DataOK, TaskTable, TaskRow
  <2>3. tasks' \in TaskTable
    BY <2>1, <2>2 DEF UnassignAll, TaskTable
  <2>4. DataOK'
    BY <2>1, <2>3 DEF Inv, TypeOK, DataOK, UserTable, Delete, redis
  <2>5. \A x \in Users : x # u => users'[x] = users[x]
    BY <2>1 DEF Inv, TypeOK, DataOK, UserTable, Delete
  <2>6. ASSUME NEW t \in Tasks, tasks'[t] # Null
        PROVE  /\ projects[tasks'[t].project] # Null /\ users'[tasks'[t].creator] # Null
               /\ tasks'[t].assignee # Null => users'[tasks'[t].assignee] # Null
    <3>1. /\ tasks[t] # Null /\ tasks[t] \in TaskRow
          /\ projects[tasks[t].project] # Null /\ users[tasks[t].creator] # Null
          /\ tasks[t].assignee # Null => users[tasks[t].assignee] # Null
      BY <2>2, <2>6 DEF Inv, TypeOK, DataOK, TaskTable, KeysHold, TaskKeysHold, Row
    <3>2. tasks[t].creator \in Users \ {u} /\ tasks[t].assignee \in Users \cup {Null}
      BY <1>4, <3>1 DEF HasCreated, Row, TaskRow
    <3> QED BY <2>2, <2>5, <2>6, <3>1, <3>2
  <2>7. KeysHold'
    BY <2>1, <2>6 DEF KeysHold, TaskKeysHold, Row
  <2> QED BY <1>3, <2>4, <2>7 DEF Inv, TypeOK
<1>5. CASE ~(Row(users, u) /\ ~HasCreated(u))
  <2>1. UNCHANGED tables /\ UNCHANGED redis
    BY <1>5 DEF UserDelete, tables
  <2> QED BY <1>3, <2>1, NothingWritten DEF Inv, TypeOK
<1> QED BY <1>4, <1>5

(* ---- arrival, reply, crash ---------------------------------------------------------------- *)

LEMMA FirstStepOK ==
  ASSUME NEW c \in Calls
  PROVE  /\ FirstStep(c) \in HandlerPCs
         /\ c.op # "register" => FirstStep(c) \notin PublicPCs
         /\ \A q : q.pc = FirstStep(c) /\ q.call = c => Routed(q)
         /\ FirstStep(c) \notin InvalPCs \cup {"list.setex", "list.sadd", "update.assignee",
                                "update.write", "status.write", "delete.write"}
<1>1. c.op \in Ops
  BY CallsAssumption DEF Call
<1> QED BY <1>1 DEF FirstStep, Ops, TaskOps, ProjectOps, AccountOps, Routed

LEMMA ArrivePublicOK ==
  ASSUME Inv, NEW r \in Requests, ArrivePublic(r)
  PROVE  Inv'
<1>1. DataOK' /\ KeysHold'
  BY NothingWritten DEF Inv, TypeOK, ArrivePublic
<1>2. PICK c \in Calls :
        c.op = "register" /\ req' = [req EXCEPT ![r].pc = FirstStep(c), ![r].call = c]
  BY DEF ArrivePublic
<1>3. FirstStep(c) = "register.find"
  BY <1>2 DEF FirstStep
<1> DEFINE q == [req[r] EXCEPT !.pc = "register.find", !.call = c]
<1>4. req' = [req EXCEPT ![r] = q]
  BY <1>2, <1>3 DEF Inv, TypeOK, RequestsOK
<1>5. req[r] \in Locals
  BY DEF Inv, TypeOK, RequestsOK
<1>6. q \in Locals
  BY <1>2, <1>5 DEF Locals
<1>7. Routed(q) /\ Held(q)
  BY <1>2, <1>5 DEF Locals, Routed, Held
<1> QED BY <1>1, <1>4, <1>6, <1>7, OneSlot DEF Inv, TypeOK

LEMMA ArriveOK ==
  ASSUME Inv, NEW r \in Requests, Arrive(r)
  PROVE  Inv'
<1>1. DataOK' /\ KeysHold'
  BY NothingWritten DEF Inv, TypeOK, Arrive
<1> DEFINE user(c) == [id |-> c.caller, role |-> users[c.caller].role, org |-> users[c.caller].org]
           begun(c) == [Idle EXCEPT !.pc = FirstStep(c), !.call = c, !.user = user(c)]
<1>2. PICK c \in Calls :
        /\ c.op # "register"
        /\ req' = [req EXCEPT ![r] =
               IF ~Row(users, c.caller) THEN Answered(c, Null, 401, Null)
               ELSE IF ~Authorized(users[c.caller].role, c.op) THEN Answered(c, user(c), 403, Null)
               ELSE IF ~Valid(c) \/ OwnAccount(c) THEN Answered(c, user(c), 400, Null)
               ELSE begun(c)]
  BY DEF Arrive
<1>3. c.caller \in Users
  BY <1>2, CallsAssumption
<1>4. CASE ~Row(users, c.caller)
  <2>1. Answered(c, Null, 401, Null) \in Locals /\ Routed(Answered(c, Null, 401, Null))
          /\ Held(Answered(c, Null, 401, Null))
    BY AnsweredOK
  <2> QED BY <1>1, <1>2, <1>4, <2>1, OneSlot DEF Inv, TypeOK
<1>5. CASE Row(users, c.caller)
  <2>1. user(c) \in User
    BY <1>3, <1>5 DEF Row, User, Inv, TypeOK, DataOK, UserTable, UserRow
  <2>2. ASSUME NEW code \in {403, 400}, req' = [req EXCEPT ![r] = Answered(c, user(c), code, Null)]
        PROVE  RequestsOK'
    <3>1. code \in Nat
      OBVIOUS
    <3> HIDE DEF user
    <3>2. /\ Answered(c, user(c), code, Null) \in Locals
          /\ Routed(Answered(c, user(c), code, Null)) /\ Held(Answered(c, user(c), code, Null))
      BY <2>1, <3>1, AnsweredOK
    <3> QED BY <2>2, <3>2, OneSlot DEF Inv, TypeOK
  <2>3. ASSUME req' = [req EXCEPT ![r] = begun(c)] PROVE RequestsOK'
    <3> DEFINE pc == FirstStep(c)
    <3>1. pc \in HandlerPCs /\ pc \notin PublicPCs
            /\ pc \notin InvalPCs \cup {"list.setex", "list.sadd", "update.assignee",
                                "update.write", "status.write", "delete.write"}
      BY <1>2, FirstStepOK
    <3> HIDE DEF user
    <3>2. begun(c).pc = pc /\ begun(c).call = c /\ begun(c).user = user(c)
      BY DEF Idle
    <3>3. Routed(begun(c))
      BY <3>2, FirstStepOK
    <3> HIDE DEF pc
    <3>4. begun(c) \in Locals
      <4> HIDE DEF HandlerPCs
      <4> QED BY <2>1, <3>1, IdleOK DEF Locals, pc
    <3> HIDE DEF begun
    <3>5. Held(begun(c))
      BY <2>1, <3>1, <3>2 DEF Held
    <3> QED BY <2>3, <3>3, <3>4, <3>5, OneSlot DEF Inv, TypeOK
  <2>4. RequestsOK'
    <3> HIDE DEF user, begun
    <3> QED BY <1>2, <1>5, <2>2, <2>3
  <2> QED BY <1>1, <2>4 DEF Inv, TypeOK
<1> QED BY <1>4, <1>5

LEMMA ReplyOK ==
  ASSUME Inv, NEW r \in Requests, Reply(r)
  PROVE  Inv'
<1>1. DataOK' /\ KeysHold'
  BY NothingWritten DEF Inv, TypeOK, Reply
<1>2. RequestsOK'
  BY IdleOK, OneSlot DEF Reply, Inv, TypeOK
<1> QED BY <1>1, <1>2 DEF Inv, TypeOK

LEMMA CrashOK ==
  ASSUME Inv, Crash
  PROVE  Inv'
<1>1. DataOK' /\ KeysHold'
  BY NothingWritten DEF Inv, TypeOK, Crash
<1>2. RequestsOK'
  BY IdleOK DEF Crash, RequestsOK, Routed, Held, CacheKey
<1> QED BY <1>1, <1>2 DEF Inv, TypeOK

LEMMA EntryExpiresOK ==
  ASSUME Inv, NEW k \in Key, EntryExpires(k)
  PROVE  Inv'
<1>1. DataOK' /\ KeysHold'
  BY RedisWritten DEF Inv, TypeOK, EntryExpires
<1>2. RequestsOK'
  BY DEF Inv, TypeOK, EntryExpires, RequestsOK, Routed, Held, CacheKey
<1> QED BY <1>1, <1>2 DEF Inv, TypeOK

(* ---- the invariant --------------------------------------------------------------------------- *)

LEMMA InitInv == Init => Inv
<1> SUFFICES ASSUME Init PROVE Inv
  OBVIOUS
<1>1. DataOK
  BY SchemaAssumption DEF Init, SchemaInit, CacheInit, DataOK, LegalTables, Row
<1>2. RequestsOK
  BY IdleOK DEF Init, RequestInit, RequestsOK
<1>3. KeysHold
  BY SchemaAssumption DEF Init, SchemaInit, LegalTables, KeysHold, TaskKeysHold, Row
<1> QED BY <1>1, <1>2, <1>3 DEF Inv, TypeOK

LEMMA StepInv ==
  ASSUME Inv, NEW r \in Requests, Step(r)
  PROVE  Inv'
<1>1. CASE TasksNext(r)
  BY <1>1, ListGetOK, ListQueryOK, ListStoreOK, ListTrackOK, GetFindOK, CreateAssigneeOK,
     CreateProjectCheckOK, CreateInsertOK, UpdateFindOK, UpdateAssigneeOK, UpdateWriteOK,
     StatusFindOK, StatusWriteOK, DeleteFindOK, DeleteWriteOK, InvalMembersOK, InvalDeleteOK,
     InvalClearOK, RedisErrorOK DEF TasksNext
<1>2. CASE ProjectsNext(r)
  BY <1>2, ProjectInsertOK, ProjectFindOK, ProjectUpdateOK, ProjectDeleteOK DEF ProjectsNext
<1>3. CASE AccountsNext(r)
  BY <1>3, AccountFindOK, RegisterInsertOK, InviteInsertOK, UserFindOK, RoleWriteOK, UserDeleteOK
  DEF AccountsNext
<1>4. CASE Reply(r)
  BY <1>4, ReplyOK
<1> QED BY <1>1, <1>2, <1>3, <1>4 DEF Step

LEMMA NextInv == Inv /\ [Next]_vars => Inv'
<1> SUFFICES ASSUME Inv, [Next]_vars PROVE Inv'
  OBVIOUS
<1>1. ASSUME NEW r \in Requests, ArrivePublic(r) \/ Arrive(r) \/ Step(r) PROVE Inv'
  BY <1>1, ArrivePublicOK, ArriveOK, StepInv
<1>2. ASSUME NEW k \in Key, EntryExpires(k) PROVE Inv'
  BY <1>2, EntryExpiresOK
<1>3. CASE Crash
  BY <1>3, CrashOK
<1>4. CASE UNCHANGED vars
  <2>1. DataOK' /\ KeysHold'
    BY <1>4, NothingWritten DEF vars, Inv, TypeOK
  <2>2. RequestsOK'
    BY <1>4 DEF vars, Inv, TypeOK, RequestsOK, Routed, Held, CacheKey
  <2> QED BY <2>1, <2>2 DEF Inv, TypeOK
<1> QED BY <1>1, <1>2, <1>3, <1>4 DEF Next

\* The tables, the cache and the locals of every request keep their types,
\* however many requests run and whatever Redis and crashes do to them.
THEOREM TypesHold == Spec => []TypeOK
<1>1. Inv => TypeOK
  BY DEF Inv
<1> QED BY <1>1, InitInv, NextInv, PTL DEF Spec

\* No task ever names a project, a creator or an assignee that is gone,
\* although the services look them up long before they write.
THEOREM ForeignKeysHold == Spec => []KeysHold
<1>1. Inv => KeysHold
  BY DEF Inv
<1> QED BY <1>1, InitInv, NextInv, PTL DEF Spec
=============================================================================
