---------------------------- MODULE FreshProofs ----------------------------
(***************************************************************************)
(* One request at a time, with a Redis that answers, every stored list of  *)
(* one assignee is named by that assignee's set, and is what the database  *)
(* would answer: for every set of users, projects, tasks, filters and      *)
(* calls but those that the code follows by no invalidation.               *)
(***************************************************************************)
EXTENDS SerialProofs

(* ---- the hypotheses ------------------------------------------------------- *)

\* No Redis command fails and the process does not die.
NoFailures == ~RedisMayFail /\ ~MayCrash

\* Taking a task's assignee away leaves the old assignee's lists alone, as
\* the deletion of a user and the renaming of a project leave all lists.
CallsInvalidate ==
  \A c \in Calls :
    /\ c.op \notin {"deleteUser", "updateProject"}
    /\ c.op = "updateTask" => c.assignee # Null

(* ---- the invariant -------------------------------------------------------- *)

KeyOf(q) == CacheKey(q.user, q.call)
Personal == {k \in Key : k.assignee # "all"}

\* Between SETEX and SADD the key is stored and not yet in the set; between
\* the DELs the lists of the assignee are gone and its set is not.
Tracked(q, ca, tr) ==
  /\ \A k \in Personal : ca[k] # Null =>
       k \in tr[k.assignee] \/ (q.pc = "list.sadd" /\ k = KeyOf(q))
  /\ q.pc = "inval.del" => q.keys = tr[Head(q.todo)]
  /\ q.pc = "inval.delset" => \A k \in Personal : ca[k] # Null => k.assignee # Head(q.todo)

Among(u, us) == \E i \in 1..Len(us) : us[i] = u

\* The lists of u are still to be invalidated.
Awaits(q, u) == q.pc \in InvalPCs /\ Among(u, q.todo)

CurrentLists == [k \in Key |-> Current(k)]

\* A stored list is as the database answers, or about to be deleted; so is
\* the page about to be stored; the task a handler has read is as it read it.
Fresh(q, ca, cur, ts) ==
  /\ \A k \in Personal : ca[k] # Null => ca[k] = cur[k] \/ Awaits(q, k.assignee)
  /\ q.pc = "list.setex" => q.page = cur[KeyOf(q)]
  /\ q.pc \in {"update.assignee", "update.write", "status.write", "delete.write"} =>
       q.row = ts[q.call.id]

\* Without a slot there is no request, and nothing is stored.
NothingStoredYet == Requests = {} => cache = [k \in Key |-> Null]

TrackInv == NothingStoredYet /\ \A r \in Requests : Tracked(req[r], cache, tracked)
FreshInv == \A r \in Requests : Fresh(req[r], cache, CurrentLists, tasks)

USE DEF ListPCs, CreatePCs, UpdatePCs, StatusPCs, DeletePCs, HandlerPCs, TaskPCs, InvalPCs,
        ProjectPCs, PublicPCs, AccountPCs

(* ---- the one slot ----------------------------------------------------------- *)

LEMMA OneTracked ==
  ASSUME Serial, NEW r \in Requests, Tracked(req'[r], cache', tracked')
  PROVE  TrackInv'
<1>1. ASSUME NEW s \in Requests PROVE Tracked(req'[s], cache', tracked')
  BY DEF Serial
<1>2. (\A s \in Requests : Tracked(req[s], cache, tracked))'
  BY <1>1 DEF Tracked, Personal, KeyOf, CacheKey
<1>3. NothingStoredYet'
  BY DEF NothingStoredYet
<1> QED BY <1>2, <1>3 DEF TrackInv

LEMMA OneFresh ==
  ASSUME Serial, NEW r \in Requests, Fresh(req'[r], cache', CurrentLists', tasks')
  PROVE  FreshInv'
<1>1. ASSUME NEW s \in Requests PROVE Fresh(req'[s], cache', CurrentLists', tasks')
  BY DEF Serial
<1>2. (\A s \in Requests : Fresh(req[s], cache, CurrentLists, tasks))'
  BY <1>1 DEF Fresh, Personal, KeyOf, CacheKey, Awaits, Among
<1> QED BY <1>2 DEF FreshInv

(* ---- where a step leaves its request ------------------------------------------ *)

\* About to give Redis a command that writes, or inside an invalidation.
CachePCs == {"list.setex", "list.sadd"} \cup InvalPCs

\* Holding a task row that was read.
RowPCs == {"update.assignee", "update.write", "status.write", "delete.write"}

\* The step is not about the cache, though an invalidation may follow it.
Away(r) ==
  /\ UNCHANGED redis
  /\ req[r].pc \notin CachePCs /\ req'[r].pc \notin CachePCs \ {"inval.smembers"}

LEMMA AnswerEnds ==
  ASSUME Inv, NEW r \in Requests, NEW code, NEW page, Answer(r, code) \/ AnswerPage(r, page)
  PROVE  req'[r].pc = "done"
<1>1. PICK n, res : req' = [req EXCEPT ![r] = Answered(req[r].call, req[r].user, n, res)]
  BY DEF Answer, AnswerPage, Inv, TypeOK, RequestsOK
<1>2. Answered(req[r].call, req[r].user, n, res).pc = "done"
  BY DEF Answered, Idle
<1> QED BY <1>1, <1>2 DEF Inv, TypeOK, RequestsOK

LEMMA InvalidateStarts ==
  ASSUME Inv, NEW r \in Requests, NEW us, NEW code, Invalidate(r, us, code)
  PROVE  IF us = <<>> THEN req'[r].pc = "done"
         ELSE req'[r].pc = "inval.smembers" /\ req'[r].todo = us
<1>1. CASE us = <<>>
  BY <1>1, AnswerEnds DEF Invalidate
<1>2. CASE us # <<>>
  <2> DEFINE q == [Idle EXCEPT !.pc = "inval.smembers", !.call = req[r].call,
                     !.user = req[r].user, !.todo = us, !.code = code]
  <2>1. req' = [req EXCEPT ![r] = q]
    BY <1>2 DEF Invalidate
  <2>2. q.pc = "inval.smembers" /\ q.todo = us
    BY DEF Idle
  <2> HIDE DEF q
  <2> QED BY <1>2, <2>1, <2>2 DEF Inv, TypeOK, RequestsOK
<1> QED BY <1>1, <1>2

LEMMA FirstStepAway ==
  ASSUME NEW c \in Calls
  PROVE  FirstStep(c) \notin CachePCs \cup RowPCs
<1>1. c.op \in Ops
  BY CallsAssumption DEF Call
<1> QED BY <1>1 DEF FirstStep, Ops, TaskOps, ProjectOps, AccountOps, CachePCs, RowPCs

LEMMA ArrivalAway ==
  ASSUME Inv, NEW r \in Requests, ArrivePublic(r) \/ Arrive(r)
  PROVE  Away(r) /\ req'[r].pc \notin RowPCs
<1> DEFINE user(c) == [id |-> c.caller, role |-> users[c.caller].role, org |-> users[c.caller].org]
           begun(c) == [Idle EXCEPT !.pc = FirstStep(c), !.call = c, !.user = user(c)]
<1>1. UNCHANGED redis /\ req[r].pc = "idle"
  BY DEF ArrivePublic, Arrive, At
<1>2. CASE ArrivePublic(r)
  <2>1. PICK c \in Calls : req' = [req EXCEPT ![r].pc = FirstStep(c), ![r].call = c]
    BY <1>2 DEF ArrivePublic
  <2>2. req'[r].pc = FirstStep(c)
    BY <2>1 DEF Inv, TypeOK, RequestsOK, Locals
  <2> QED BY <1>1, <2>2, FirstStepAway DEF Away, CachePCs
<1>3. CASE Arrive(r)
  <2>1. PICK c \in Calls :
          req' = [req EXCEPT ![r] =
               IF ~Row(users, c.caller) THEN Answered(c, Null, 401, Null)
               ELSE IF ~Authorized(users[c.caller].role, c.op) THEN Answered(c, user(c), 403, Null)
               ELSE IF ~Valid(c) \/ OwnAccount(c) THEN Answered(c, user(c), 400, Null)
               ELSE begun(c)]
    BY <1>3 DEF Arrive
  <2>2. \A u, n : Answered(c, u, n, Null).pc = "done"
    BY DEF Answered, Idle
  <2>3. begun(c).pc = FirstStep(c)
    BY DEF Idle
  <2> HIDE DEF user, begun
  <2>4. req'[r].pc \in {"done", FirstStep(c)}
    BY <2>1, <2>2, <2>3 DEF Inv, TypeOK, RequestsOK
  <2> QED BY <1>1, <2>4, FirstStepAway DEF Away, CachePCs, RowPCs
<1> QED BY <1>2, <1>3

\* The steps that read no task to write it later.
LEMMA OtherStepsAway ==
  ASSUME Inv, NEW r \in Requests,
         \/ ListGet(r) \/ GetFind(r) \/ CreateAssignee(r) \/ CreateProjectCheck(r)
         \/ CreateInsert(r) \/ UpdateWrite(r) \/ StatusWrite(r) \/ DeleteWrite(r)
         \/ ProjectsNext(r) \/ AccountsNext(r) \/ Reply(r)
  PROVE  Away(r) /\ req'[r].pc \notin RowPCs
<1> USE DEF CachePCs, RowPCs
<1>1. CASE ListGet(r)
  BY <1>1, AnswerEnds, GotoKeeps DEF ListGet, At, Away
<1>2. CASE GetFind(r) \/ CreateAssignee(r) \/ CreateProjectCheck(r)
  BY <1>2, AnswerEnds, GotoKeeps DEF GetFind, CreateAssignee, CreateProjectCheck, At, Away
<1>3. CASE CreateInsert(r) \/ UpdateWrite(r) \/ StatusWrite(r) \/ DeleteWrite(r)
  <2>1. UNCHANGED redis /\ req[r].pc \notin CachePCs
    BY <1>3 DEF CreateInsert, UpdateWrite, StatusWrite, DeleteWrite, At
  <2>2. (\E code : Answer(r, code)) \/ (\E us, code : Invalidate(r, us, code))
    BY <1>3 DEF CreateInsert, UpdateWrite, StatusWrite, DeleteWrite
  <2>3. req'[r].pc \in {"done", "inval.smembers"}
    BY <2>2, AnswerEnds, InvalidateStarts
  <2> QED BY <2>1, <2>3 DEF Away
<1>4. CASE ProjectsNext(r)
  BY <1>4, AnswerEnds, GotoKeeps
  DEF ProjectsNext, ProjectInsert, ProjectFind, ProjectUpdate, ProjectDelete, At, Away
<1>5. CASE AccountsNext(r)
  BY <1>5, AnswerEnds, GotoKeeps
  DEF AccountsNext, AccountFind, RegisterInsert, InviteInsert, UserFind, RoleWrite, UserDelete,
      At, Away
<1>6. CASE Reply(r)
  BY <1>6 DEF Reply, Idle, At, Away, Inv, TypeOK, RequestsOK
<1> QED BY <1>1, <1>2, <1>3, <1>4, <1>5, <1>6

\* The steps that read a task to write it later hold it as it is.
LEMMA RowReads ==
  ASSUME Inv, NEW r \in Requests,
         UpdateFind(r) \/ UpdateAssignee(r) \/ StatusFind(r) \/ DeleteFind(r)
  PROVE  /\ Away(r) /\ UNCHANGED tables
         /\ FreshInv /\ req'[r].pc \in RowPCs => req'[r].row = tasks[req'[r].call.id]
<1> USE DEF CachePCs, RowPCs
<1>0. req \in [Requests -> Locals]
  BY DEF Inv, TypeOK, RequestsOK
<1>1. UNCHANGED <<tables, redis>> /\ req[r].pc \notin CachePCs
  BY DEF UpdateFind, UpdateAssignee, StatusFind, DeleteFind, At
<1>2. ASSUME NEW code, Answer(r, code) PROVE req'[r].pc = "done"
  BY <1>2, AnswerEnds
<1>3. ASSUME NEW row, NEW pc \in RowPCs, req' = [req EXCEPT ![r].row = row, ![r].pc = pc],
             row = tasks[req[r].call.id]
      PROVE  req'[r].pc = pc /\ req'[r].row = tasks[req'[r].call.id]
  BY <1>0, <1>3 DEF Locals
<1>4. ASSUME GetTask(req[r].user, req[r].call.id) # Null
      PROVE  GetTask(req[r].user, req[r].call.id) = tasks[req[r].call.id]
  BY <1>4 DEF GetTask
<1>5. CASE UpdateFind(r)
  <2> DEFINE row == GetTask(req[r].user, req[r].call.id)
             pc == IF NewAssignee(req[r].call, row) THEN "update.assignee" ELSE "update.write"
  <2>1. \/ Answer(r, 404)
        \/ row # Null /\ req' = [req EXCEPT ![r].row = row, ![r].pc = pc]
    BY <1>5 DEF UpdateFind
  <2>2. pc \in RowPCs
    OBVIOUS
  <2>3. row # Null => row = tasks[req[r].call.id]
    BY <1>4
  <2> HIDE DEF row, pc
  <2> QED BY <1>1, <1>2, <1>3, <2>1, <2>2, <2>3 DEF Away
<1>6. CASE UpdateAssignee(r)
  <2>1. Answer(r, 400) \/ Goto(r, "update.write")
    BY <1>6 DEF UpdateAssignee
  <2>2. FreshInv => req[r].row = tasks[req[r].call.id]
    BY <1>6 DEF UpdateAssignee, At, FreshInv, Fresh
  <2>3. ASSUME Goto(r, "update.write")
        PROVE  /\ req'[r].pc = "update.write" /\ req'[r].row = req[r].row
               /\ req'[r].call = req[r].call
    BY <1>0, <2>3 DEF Goto, Locals
  <2> QED BY <1>1, <1>2, <2>1, <2>2, <2>3 DEF Away
<1>7. CASE StatusFind(r)
  <2> DEFINE row == tasks[req[r].call.id]
  <2>1. \/ \E code \in {400, 403, 404} : Answer(r, code)
        \/ req' = [req EXCEPT ![r].row = row, ![r].pc = "status.write"]
    BY <1>7 DEF StatusFind
  <2>2. row = tasks[req[r].call.id]
    OBVIOUS
  <2> HIDE DEF row
  <2>3. CASE \E code \in {400, 403, 404} : Answer(r, code)
    BY <1>1, <1>2, <2>3 DEF Away
  <2>4. CASE req' = [req EXCEPT ![r].row = row, ![r].pc = "status.write"]
    BY <1>1, <1>3, <2>2, <2>4 DEF Away
  <2> QED BY <2>1, <2>3, <2>4
<1>8. CASE DeleteFind(r)
  <2> DEFINE row == GetTask(req[r].user, req[r].call.id)
  <2>1. \/ Answer(r, 404)
        \/ row # Null /\ req' = [req EXCEPT ![r].row = row, ![r].pc = "delete.write"]
    BY <1>8 DEF DeleteFind
  <2>2. row # Null => row = tasks[req[r].call.id]
    BY <1>4
  <2> HIDE DEF row
  <2> QED BY <1>1, <1>2, <1>3, <2>1, <2>2 DEF Away
<1> QED BY <1>5, <1>6, <1>7, <1>8

(* ---- every stored key is tracked ------------------------------------------------- *)

LEMMA AwayTracked ==
  ASSUME Serial, TrackInv, NEW r \in Requests, Away(r)
  PROVE  TrackInv'
<1>1. UNCHANGED <<cache, tracked>> /\ req[r].pc # "list.sadd"
      /\ req'[r].pc \notin {"list.sadd", "inval.del", "inval.delset"}
  BY DEF Away, CachePCs, redis
<1>2. Tracked(req[r], cache, tracked)
  BY DEF TrackInv
<1>3. Tracked(req'[r], cache', tracked')
  BY <1>1, <1>2 DEF Tracked
<1> QED BY <1>3, OneTracked

LEMMA ListQueryTracked ==
  ASSUME Inv, Serial, TrackInv, NEW r \in Requests, ListQuery(r)
  PROVE  TrackInv'
<1> DEFINE page == Find({t \in Tasks : Where(req[r].user, req[r].call, t)})
<1>1. UNCHANGED <<cache, tracked>> /\ req[r].pc = "list.query"
      /\ req' = [req EXCEPT ![r].page = page, ![r].pc = "list.setex"]
  BY DEF ListQuery, At, redis
<1> HIDE DEF page
<1>2. req'[r].pc = "list.setex"
  BY <1>1 DEF Inv, TypeOK, RequestsOK, Locals
<1>3. Tracked(req[r], cache, tracked)
  BY DEF TrackInv
<1>4. Tracked(req'[r], cache', tracked')
  BY <1>1, <1>2, <1>3 DEF Tracked
<1> QED BY <1>4, OneTracked

\* What a list request about to cache holds.
LEMMA ListHolds ==
  ASSUME Inv, NEW r \in Requests, req[r].pc \in {"list.query", "list.setex", "list.sadd"}
  PROVE  /\ req[r].user \in User /\ req[r].call \in Calls /\ req[r].call.op = "listTasks"
         /\ KeyOf(req[r]) \in Key
         /\ req[r].pc = "list.sadd" => KeyOf(req[r]).assignee \in Users
<1>1. /\ req[r].user \in User /\ req[r].call \in Calls /\ req[r].call.op = "listTasks"
      /\ req[r].pc = "list.sadd" => KeyOf(req[r]).assignee \in Users
  BY DEF Inv, TypeOK, RequestsOK, Routed, Held, KeyOf
<1> QED BY <1>1, KeyOK DEF KeyOf

LEMMA ListStoreTracked ==
  ASSUME Inv, Serial, TrackInv, NEW r \in Requests, ListStore(r)
  PROVE  TrackInv'
<1> DEFINE key == KeyOf(req[r])
<1>1. /\ req[r].pc = "list.setex" /\ key \in Key
      /\ cache' = [cache EXCEPT ![key] = req[r].page] /\ tracked' = tracked
  BY ListHolds DEF ListStore, SetEx, At, KeyOf
<1>2. Tracked(req[r], cache, tracked)
  BY DEF TrackInv
<1>3. \A k \in Key : k # key => cache'[k] = cache[k]
  BY <1>1 DEF Inv, TypeOK, DataOK
<1>4. CASE key.assignee # "all" /\ Goto(r, "list.sadd")
  <2>1. req'[r].pc = "list.sadd" /\ KeyOf(req'[r]) = key
    BY <1>4, GotoKeeps DEF KeyOf
  <2>2. Tracked(req'[r], cache', tracked')
    <3> HIDE DEF key
    <3> QED BY <1>1, <1>2, <1>3, <2>1 DEF Tracked, Personal
  <2> QED BY <2>2, OneTracked
<1>5. CASE key.assignee = "all" /\ AnswerPage(r, req[r].page)
  <2>1. req'[r].pc = "done"
    BY <1>5, AnswerEnds
  <2>2. Tracked(req'[r], cache', tracked')
    <3> HIDE DEF key
    <3> QED BY <1>1, <1>2, <1>3, <1>5, <2>1 DEF Tracked, Personal
  <2> QED BY <2>2, OneTracked
<1> QED BY <1>4, <1>5 DEF ListStore, Tracks, KeyOf

LEMMA ListTrackTracked ==
  ASSUME Inv, Serial, TrackInv, NEW r \in Requests, ListTrack(r)
  PROVE  TrackInv'
<1> DEFINE key == KeyOf(req[r])
<1>1. /\ req[r].pc = "list.sadd" /\ key.assignee \in Users /\ cache' = cache
      /\ tracked' = [tracked EXCEPT ![key.assignee] = @ \cup {key}]
      /\ AnswerPage(r, req[r].page)
  BY ListHolds DEF ListTrack, SAdd, At, KeyOf
<1>2. Tracked(req[r], cache, tracked)
  BY DEF TrackInv
<1>3. req'[r].pc = "done"
  BY <1>1, AnswerEnds
<1>4. /\ key \in tracked'[key.assignee] /\ \A u \in Users : tracked[u] \subseteq tracked'[u]
  BY <1>1 DEF Inv, TypeOK, DataOK
<1>5. \A k \in Personal : k.assignee \in Users
  BY DEF Personal, Key
<1>6. Tracked(req'[r], cache', tracked')
  <2> HIDE DEF key
  <2>1. \A k \in Personal : cache[k] # Null => k \in tracked[k.assignee] \/ k = key
    BY <1>2 DEF Tracked, key
  <2> QED BY <1>1, <1>3, <1>4, <1>5, <2>1 DEF Tracked
<1> QED BY <1>6, OneTracked

\* An invalidation reads the set, deletes its lists, then the set.
LEMMA InvalTracked ==
  ASSUME Inv, Serial, TrackInv, NEW r \in Requests, InvalMembers(r) \/ InvalDelete(r) \/ InvalClear(r)
  PROVE  TrackInv'
<1> DEFINE u == Head(req[r].todo)
<1>1. /\ u \in Users /\ req \in [Requests -> Locals] /\ tracked \in [Users -> SUBSET Key]
      /\ req[r].pc \in InvalPCs
  BY HeadOfTodo DEF Inv, TypeOK, RequestsOK, DataOK, InvalMembers, InvalDelete, InvalClear, At
<1>2. Tracked(req[r], cache, tracked)
  BY DEF TrackInv
<1>3. \A k \in Personal : k \in Key /\ k.assignee \in Users
  BY DEF Personal, Key
<1>4. \A k \in Personal : cache[k] # Null => k \in tracked[k.assignee]
  BY <1>1, <1>2 DEF Tracked
<1>5. CASE InvalMembers(r)
  <2>1. /\ req' = [req EXCEPT ![r].keys = tracked[u],
                              ![r].pc = IF tracked[u] = {} THEN "inval.delset" ELSE "inval.del"]
    BY <1>5 DEF InvalMembers
  <2>2. /\ req'[r].keys = tracked[u] /\ Head(req'[r].todo) = u
        /\ req'[r].pc = IF tracked[u] = {} THEN "inval.delset" ELSE "inval.del"
    BY <1>1, <2>1 DEF Locals
  <2>3. UNCHANGED <<cache, tracked>>
    BY <1>5 DEF InvalMembers, redis
  <2> HIDE DEF u
  <2>4. CASE tracked[u] = {}
    <3>1. \A k \in Personal : cache[k] # Null => k.assignee # u
      BY <1>4, <2>4
    <3> QED BY <1>4, <2>2, <2>3, <2>4, <3>1, OneTracked DEF Tracked
  <2>5. CASE tracked[u] # {}
    BY <1>4, <2>2, <2>3, <2>5, OneTracked DEF Tracked
  <2> QED BY <2>4, <2>5
<1>6. CASE InvalDelete(r)
  <2>1. /\ req[r].keys = tracked[u] /\ tracked' = tracked
        /\ cache' = [k \in Key |-> IF k \in tracked[u] THEN Null ELSE cache[k]]
    BY <1>2, <1>6 DEF InvalDelete, DelKeys, At, Tracked
  <2>2. req'[r].pc = "inval.delset" /\ req'[r].todo = req[r].todo
    BY <1>1, <1>6 DEF InvalDelete, Goto, Locals
  <2>3. \A k \in Personal : cache'[k] # Null => cache[k] # Null /\ k \notin tracked[u]
    BY <1>3, <2>1
  <2>4. Tracked(req'[r], cache', tracked')
    BY <1>4, <2>1, <2>2, <2>3 DEF Tracked
  <2> QED BY <2>4, OneTracked
<1>7. CASE InvalClear(r)
  <2>1. /\ tracked' = [tracked EXCEPT ![u] = {}] /\ cache' = cache
        /\ \A k \in Personal : cache[k] # Null => k.assignee # u
    BY <1>2, <1>7 DEF InvalClear, DelSet, At, Tracked
  <2>2. req'[r].pc \in {"done", "inval.smembers"}
    BY <1>7, InvalidateStarts DEF InvalClear, InvalNext
  <2>3. \A v \in Users : v # u => tracked'[v] = tracked[v]
    BY <1>1, <2>1
  <2>4. Tracked(req'[r], cache', tracked')
    BY <1>3, <1>4, <2>1, <2>2, <2>3 DEF Tracked
  <2> QED BY <2>4, OneTracked
<1> QED BY <1>5, <1>6, <1>7


\* Redis answers and the process lives on: these are all the steps.
LEMMA StepCases ==
  ASSUME NoFailures, NEW r \in Requests, Step(r)
  PROVE  \/ ListQuery(r) \/ ListStore(r) \/ ListTrack(r)
         \/ InvalMembers(r) \/ InvalDelete(r) \/ InvalClear(r)
         \/ UpdateFind(r) \/ UpdateAssignee(r) \/ StatusFind(r) \/ DeleteFind(r)
         \/ ListGet(r) \/ GetFind(r) \/ CreateAssignee(r) \/ CreateProjectCheck(r)
         \/ CreateInsert(r) \/ UpdateWrite(r) \/ StatusWrite(r) \/ DeleteWrite(r)
         \/ ProjectsNext(r) \/ AccountsNext(r) \/ Reply(r)
BY DEF NoFailures, Step, TasksNext, RedisError

\* An entry goes, or nothing moves.
LEMMA EntryGoes ==
  ASSUME Inv, (\E k \in Key : EntryExpires(k)) \/ UNCHANGED vars
  PROVE  /\ UNCHANGED <<tables, tracked, req>>
         /\ \A k \in Key : cache'[k] = Null \/ cache'[k] = cache[k]
         /\ Requests = {} /\ cache = [k \in Key |-> Null] => cache' = cache
BY DEF EntryExpires, Expire, vars, redis, Inv, TypeOK, DataOK

LEMMA NextTracked ==
  ASSUME Inv, Serial, NoFailures, TrackInv, [Next]_vars
  PROVE  TrackInv'
<1>1. ASSUME NEW r \in Requests, ArrivePublic(r) \/ Arrive(r) PROVE TrackInv'
  BY <1>1, ArrivalAway, AwayTracked
<1>2. ASSUME NEW r \in Requests, Step(r) PROVE TrackInv'
  BY <1>2, StepCases, OtherStepsAway, RowReads, AwayTracked, ListQueryTracked, ListStoreTracked,
     ListTrackTracked, InvalTracked
<1>3. CASE (\E k \in Key : EntryExpires(k)) \/ UNCHANGED vars
  <2>1. /\ UNCHANGED <<tracked, req>>
        /\ \A k \in Key : cache'[k] = Null \/ cache'[k] = cache[k]
        /\ Requests = {} /\ cache = [k \in Key |-> Null] => cache' = cache
    BY <1>3, EntryGoes
  <2>2. ASSUME NEW r \in Requests PROVE Tracked(req[r], cache', tracked)
    <3>1. Tracked(req[r], cache, tracked)
      BY DEF TrackInv
    <3> QED BY <2>1, <3>1 DEF Tracked, Personal
  <2>3. \A r \in Requests : Tracked(req'[r], cache', tracked')
    BY <2>1, <2>2
  <2>4. (\A r \in Requests : Tracked(req[r], cache, tracked))'
    BY <2>3 DEF Tracked, Personal, KeyOf, CacheKey
  <2> QED BY <2>1, <2>4 DEF TrackInv, NothingStoredYet
<1> QED BY <1>1, <1>2, <1>3 DEF Next, NoFailures

(* ---- what the database answers ----------------------------------------------------- *)

LEMMA CurrentAt ==
  ASSUME NEW k \in Key
  PROVE  CurrentLists[k] = Current(k) /\ CurrentLists'[k] = Current(k)'
BY DEF CurrentLists

\* The query of a list asks for what its key says.
LEMMA QueryIsCurrent ==
  ASSUME NEW user \in User, NEW c \in Calls, c.op = "listTasks"
  PROVE  Find({t \in Tasks : Where(user, c, t)}) = Current(CacheKey(user, c))
<1> DEFINE key == CacheKey(user, c)
<1>1. /\ key.org = user.org /\ key.status = c.status /\ key.priority = c.priority
      /\ key.assignee = IF user.role = "MEMBER" THEN user.id
                        ELSE IF c.assignee = Absent THEN "all" ELSE c.assignee
  BY DEF CacheKey
<1>2. /\ user.id # "all" /\ c.assignee \in Users \cup {Absent, "all"}
      /\ Absent \notin Users /\ "all" \notin Users
  BY CallsAssumption, CacheAssumption DEF User, Call
<1> HIDE DEF key
<1>3. ASSUME NEW t \in Tasks
      PROVE  Where(user, c, t) <=>
               /\ Row(tasks, t) /\ projects[tasks[t].project].org = key.org
               /\ key.assignee # "all" => tasks[t].assignee = key.assignee
               /\ key.status # "all"   => tasks[t].status = key.status
               /\ key.priority # "all" => tasks[t].priority = key.priority
  BY <1>1, <1>2 DEF Where
<1>4. {t \in Tasks : Where(user, c, t)} =
        {t \in Tasks : /\ Row(tasks, t) /\ projects[tasks[t].project].org = key.org
                       /\ key.assignee # "all" => tasks[t].assignee = key.assignee
                       /\ key.status # "all"   => tasks[t].status = key.status
                       /\ key.priority # "all" => tasks[t].priority = key.priority}
  BY <1>3
<1> QED BY <1>4 DEF Current, key

\* A row of a list in terms of its task.
Shown(k, ts, ps, t) ==
  IF /\ Row(ts, t) /\ ps[ts[t].project].org = k.org
     /\ k.assignee # "all" => ts[t].assignee = k.assignee
     /\ k.status # "all"   => ts[t].status = k.status
     /\ k.priority # "all" => ts[t].priority = k.priority
  THEN [task |-> ts[t], projectName |-> ps[ts[t].project].name] ELSE Null

LEMMA CurrentShown ==
  ASSUME NEW k
  PROVE  /\ Current(k) = [t \in Tasks |-> Shown(k, tasks, projects, t)]
         /\ Current(k)' = [t \in Tasks |-> Shown(k, tasks', projects', t)]
<1>1. Current(k) = [t \in Tasks |-> Shown(k, tasks, projects, t)]
  BY DEF Current, Find, Shown
<1>2. Current(k)' = [t \in Tasks |-> Shown(k, tasks', projects', t)]
  BY DEF Current, Find, Shown, Row
<1> QED BY <1>1, <1>2

\* A list changes only with a task it holds or comes to hold.
LEMMA CurrentKept ==
  ASSUME NEW k \in Personal,
         \A t \in Tasks : \/ tasks'[t] = tasks[t]
                          \/ /\ Row(tasks, t) => tasks[t].assignee # k.assignee
                             /\ Row(tasks', t) => tasks'[t].assignee # k.assignee,
         \A t \in Tasks : Row(tasks, t) => projects'[tasks[t].project] = projects[tasks[t].project]
  PROVE  Current(k)' = Current(k)
<1>1. ASSUME NEW t \in Tasks
      PROVE  Shown(k, tasks', projects', t) = Shown(k, tasks, projects, t)
  <2>1. CASE tasks'[t] = tasks[t]
    BY <2>1 DEF Shown, Row
  <2>2. CASE /\ Row(tasks, t) => tasks[t].assignee # k.assignee
             /\ Row(tasks', t) => tasks'[t].assignee # k.assignee
    BY <2>2 DEF Shown, Personal
  <2> QED BY <2>1, <2>2
<1> QED BY <1>1, CurrentShown

LEMMA TablesKeepCurrent ==
  ASSUME UNCHANGED tables, NEW k
  PROVE  Current(k)' = Current(k)
<1>1. tasks' = tasks /\ projects' = projects
  BY DEF tables
<1> QED BY <1>1, CurrentShown

(* ---- the users to invalidate ---------------------------------------------------------- *)

LEMMA ListsOfNames ==
  ASSUME NEW u \in Users
  PROVE  Among(u, ListsOf(u))
<1>1. ListsOf(u) = <<u>>
  BY SchemaAssumption DEF ListsOf
<1> QED BY <1>1 DEF Among

LEMMA ConcatNames ==
  ASSUME NEW a \in Seq(Users), NEW b \in Seq(Users), NEW u, Among(u, a) \/ Among(u, b)
  PROVE  Among(u, a \o b)
<1>1. /\ Len(a \o b) = Len(a) + Len(b) /\ Len(a) \in Nat /\ Len(b) \in Nat
      /\ \A i \in 1..Len(a) : (a \o b)[i] = a[i]
      /\ \A i \in 1..Len(b) : (a \o b)[Len(a) + i] = b[i]
  BY ConcatProperties, LenProperties
<1>2. CASE Among(u, a)
  <2>1. PICK i \in 1..Len(a) : a[i] = u
    BY <1>2 DEF Among
  <2>2. i \in 1..Len(a \o b) /\ (a \o b)[i] = u
    BY <1>1, <2>1
  <2> QED BY <2>2 DEF Among
<1>3. CASE Among(u, b)
  <2>1. PICK i \in 1..Len(b) : b[i] = u
    BY <1>3 DEF Among
  <2>2. Len(a) + i \in 1..Len(a \o b) /\ (a \o b)[Len(a) + i] = u
    BY <1>1, <2>1
  <2> QED BY <2>2 DEF Among
<1> QED BY <1>2, <1>3

LEMMA TailNames ==
  ASSUME NEW us \in Seq(Users), us # <<>>, NEW u, u # Head(us), Among(u, us)
  PROVE  Among(u, Tail(us))
<1>1. PICK i \in 1..Len(us) : us[i] = u
  BY DEF Among
<1>2. /\ Len(us) \in Nat /\ Head(us) = us[1] /\ Len(Tail(us)) = Len(us) - 1
      /\ \A j \in 1..Len(Tail(us)) : Tail(us)[j] = us[j + 1]
  BY HeadTailProperties, LenProperties
<1>3. i - 1 \in 1..Len(Tail(us)) /\ (i - 1) + 1 = i
  BY <1>1, <1>2
<1>4. Tail(us)[i - 1] = u
  BY <1>1, <1>2, <1>3
<1> QED BY <1>3, <1>4 DEF Among

LEMMA InvalidateAwaits ==
  ASSUME Inv, NEW r \in Requests, NEW us, NEW code, Invalidate(r, us, code),
         NEW u, Among(u, us)
  PROVE  Awaits(req'[r], u)
<1>1. us # <<>>
  BY DEF Among
<1> QED BY <1>1, InvalidateStarts DEF Awaits

(* ---- every stored list is fresh ------------------------------------------------------- *)

LEMMA AwayFresh ==
  ASSUME Serial, FreshInv, NEW r \in Requests, Away(r),
         req'[r].pc \in RowPCs => req'[r].row = tasks'[req'[r].call.id],
         \A k \in Personal : Current(k)' = Current(k) \/ Awaits(req'[r], k.assignee)
  PROVE  FreshInv'
<1>1. /\ cache' = cache /\ req[r].pc \notin InvalPCs /\ req'[r].pc # "list.setex"
  BY DEF Away, CachePCs, redis
<1>2. Fresh(req[r], cache, CurrentLists, tasks)
  BY DEF FreshInv
<1>3. ASSUME NEW k \in Personal, cache'[k] # Null
      PROVE  cache'[k] = CurrentLists'[k] \/ Awaits(req'[r], k.assignee)
  <2>1. cache[k] = CurrentLists[k]
    BY <1>1, <1>2, <1>3 DEF Fresh, Awaits
  <2> QED BY <1>1, <2>1, CurrentAt DEF Personal
<1>4. Fresh(req'[r], cache', CurrentLists', tasks')
  BY <1>1, <1>3 DEF Fresh, RowPCs
<1> QED BY <1>4, OneFresh

\* A task is written: the assignees it had and has are to be invalidated.
LEMMA TaskWriteFresh ==
  ASSUME Inv, Serial, FreshInv, NEW r \in Requests, Away(r), req'[r].pc \notin RowPCs,
         NEW t \in Tasks, NEW row, tasks' = [tasks EXCEPT ![t] = row], UNCHANGED projects,
         Row(tasks, t) => tasks[t].assignee = Null \/ Awaits(req'[r], tasks[t].assignee),
         row # Null => row.assignee = Null \/ Awaits(req'[r], row.assignee)
  PROVE  FreshInv'
<1>1. tasks'[t] = row /\ \A x \in Tasks : x # t => tasks'[x] = tasks[x]
  BY DEF Inv, TypeOK, DataOK, TaskTable
<1>2. ASSUME NEW k \in Personal, ~Awaits(req'[r], k.assignee) PROVE Current(k)' = Current(k)
  <2>1. k.assignee # Null
    BY SchemaAssumption DEF Personal, Key
  <2>2. /\ Row(tasks, t) => tasks[t].assignee # k.assignee
        /\ Row(tasks', t) => tasks'[t].assignee # k.assignee
    BY <1>1, <1>2, <2>1 DEF Row
  <2> QED BY <1>1, <2>2, CurrentKept
<1> QED BY <1>2, AwayFresh

\* What a handler of the tasks service that writes holds.
LEMMA WriterHolds ==
  ASSUME Inv, FreshInv, NEW r \in Requests,
         UpdateWrite(r) \/ StatusWrite(r) \/ DeleteWrite(r)
  PROVE  /\ req[r].call \in Calls /\ req[r].call.id \in Tasks
         /\ req[r].row = tasks[req[r].call.id] /\ req[r].row \in TaskRow
         /\ req[r].row.assignee \in Users \cup {Null}
<1>1. /\ req[r].call \in Calls /\ req[r].row \in TaskRow
      /\ req[r].call.op \in {"updateTask", "updateTaskStatus", "deleteTask"}
  BY DEF Inv, TypeOK, RequestsOK, Routed, Held, UpdateWrite, StatusWrite, DeleteWrite, At
<1>2. req[r].row = tasks[req[r].call.id]
  BY DEF FreshInv, Fresh, UpdateWrite, StatusWrite, DeleteWrite, At
<1>3. req[r].call.id \in Tasks
  BY <1>1, CallsAssumption
<1> QED BY <1>1, <1>2, <1>3 DEF TaskRow

LEMMA FailureFresh ==
  ASSUME Inv, Serial, FreshInv, NEW r \in Requests, Away(r), req'[r].pc \notin RowPCs,
         UNCHANGED <<projects, tasks>>
  PROVE  FreshInv'
<1>1. \A k : Current(k)' = Current(k)
  BY CurrentShown
<1> QED BY <1>1, AwayFresh

LEMMA CreateInsertFresh ==
  ASSUME Inv, RowsIssued, Serial, FreshInv, NEW r \in Requests, CreateInsert(r)
  PROVE  FreshInv'
<1> DEFINE row == NewTask(req[r].user, req[r].call)
<1>1. Away(r) /\ req'[r].pc \notin RowPCs /\ UNCHANGED projects
  BY OtherStepsAway DEF CreateInsert
<1>2. row \in TaskRow
  BY NewTaskOK DEF Inv, TypeOK, RequestsOK, Routed, Held, CreateInsert, At
<1>3. CASE TaskKeysHold(row)
  <2>1. PICK t \in Tasks \ issued :
          tasks' = [tasks EXCEPT ![t] = row] /\ Invalidate(r, ListsOf(row.assignee), 201)
    BY <1>3 DEF CreateInsert, Insert
  <2> HIDE DEF row
  <2>2. ~Row(tasks, t)
    BY <2>1 DEF RowsIssued
  <2>3. row.assignee \in Users \cup {Null}
    BY <1>2 DEF TaskRow
  <2>4. row.assignee = Null \/ Awaits(req'[r], row.assignee)
    BY <2>1, <2>3, ListsOfNames, InvalidateAwaits
  <2> QED BY <1>1, <2>1, <2>2, <2>4, TaskWriteFresh
<1>4. CASE ~TaskKeysHold(row)
  BY <1>1, <1>4, FailureFresh DEF CreateInsert
<1> QED BY <1>3, <1>4

\* The old assignee and the new one, if they differ, are both invalidated:
\* the task was read before the write, and nobody wrote it in between.
LEMMA UpdateWriteFresh ==
  ASSUME Inv, Serial, CallsInvalidate, FreshInv, NEW r \in Requests, UpdateWrite(r)
  PROVE  FreshInv'
<1> DEFINE c == req[r].call
           row == Patched(tasks[c.id], c)
           us == StaleLists(c, req[r].row, row)
<1>1. Away(r) /\ req'[r].pc \notin RowPCs /\ UNCHANGED projects
  BY OtherStepsAway DEF UpdateWrite
<1>2. /\ c \in Calls /\ c.id \in Tasks /\ tasks[c.id] \in TaskRow /\ req[r].row = tasks[c.id]
      /\ req[r].row.assignee \in Users \cup {Null}
  BY WriterHolds
<1>3. c.op = "updateTask" /\ c.assignee \in Users \cup {Absent}
  <2>1. c.op = "updateTask"
    BY DEF Inv, TypeOK, RequestsOK, Routed, UpdateWrite, At
  <2> QED BY <1>2, <2>1, CallsAssumption DEF CallsInvalidate, Call
<1>4. row \in TaskRow
  BY <1>2, <1>3, PatchedOK
<1>5. /\ row.assignee \in Users \cup {Null}
      /\ row.assignee = IF c.assignee = Absent THEN tasks[c.id].assignee ELSE c.assignee
  BY <1>2, <1>4 DEF Patched, TaskRow
<1>6. CASE Row(tasks, c.id) /\ TaskKeysHold(row)
  <2>1. tasks' = [tasks EXCEPT ![c.id] = row] /\ Invalidate(r, us, 200)
    BY <1>6 DEF UpdateWrite, Insert
  <2>2. us = (IF NewAssignee(c, req[r].row) THEN ListsOf(req[r].row.assignee) ELSE <<>>)
               \o ListsOf(row.assignee)
    BY DEF StaleLists
  <2> HIDE DEF row, us
  <2>3. ListsOf(req[r].row.assignee) \in Seq(Users) /\ ListsOf(row.assignee) \in Seq(Users)
    BY <1>2, <1>5, ListsOfOK
  <2>4. row.assignee = Null \/ Among(row.assignee, us)
    <3>1. CASE NewAssignee(c, req[r].row)
      BY <1>5, <2>2, <2>3, <3>1, ListsOfNames, ConcatNames
    <3>2. CASE ~NewAssignee(c, req[r].row)
      <4>1. us = <<>> \o ListsOf(row.assignee) /\ <<>> \in Seq(Users)
        BY <2>2, <3>2
      <4> QED BY <1>5, <2>3, <4>1, ListsOfNames, ConcatNames
    <3> QED BY <3>1, <3>2
  <2>5. tasks[c.id].assignee = Null \/ Among(tasks[c.id].assignee, us)
    <3>1. CASE NewAssignee(c, req[r].row)
      BY <1>2, <2>2, <2>3, <3>1, ListsOfNames, ConcatNames
    <3>2. CASE ~NewAssignee(c, req[r].row)
      <4>1. row.assignee = tasks[c.id].assignee
        BY <1>2, <1>3, <1>5, <3>2, CallsAssumption DEF NewAssignee
      <4> QED BY <2>4, <4>1
    <3> QED BY <3>1, <3>2
  <2>6. /\ row.assignee = Null \/ Awaits(req'[r], row.assignee)
        /\ tasks[c.id].assignee = Null \/ Awaits(req'[r], tasks[c.id].assignee)
    BY <2>1, <2>4, <2>5, InvalidateAwaits
  <2> QED BY <1>1, <1>2, <2>1, <2>6, TaskWriteFresh
<1>7. CASE ~(Row(tasks, c.id) /\ TaskKeysHold(row))
  BY <1>1, <1>7, FailureFresh DEF UpdateWrite
<1> QED BY <1>6, <1>7

LEMMA StatusWriteFresh ==
  ASSUME Inv, Serial, FreshInv, NEW r \in Requests, StatusWrite(r)
  PROVE  FreshInv'
<1> DEFINE c == req[r].call
           row == Moved(tasks[c.id], c.status)
<1>1. Away(r) /\ req'[r].pc \notin RowPCs /\ UNCHANGED projects
  BY OtherStepsAway DEF StatusWrite
<1>2. /\ c.id \in Tasks /\ tasks[c.id] \in TaskRow
      /\ tasks[c.id].assignee \in Users \cup {Null}
  BY WriterHolds
<1>3. row.assignee = tasks[c.id].assignee
  BY <1>2 DEF Moved, TaskRow
<1>4. CASE Row(tasks, c.id)
  <2>1. tasks' = [tasks EXCEPT ![c.id] = row] /\ Invalidate(r, ListsOf(row.assignee), 200)
    BY <1>4 DEF StatusWrite, Insert
  <2> HIDE DEF row
  <2>2. row.assignee = Null \/ Awaits(req'[r], row.assignee)
    BY <1>2, <1>3, <2>1, ListsOfNames, InvalidateAwaits
  <2> QED BY <1>1, <1>2, <1>3, <2>1, <2>2, TaskWriteFresh
<1>5. CASE ~Row(tasks, c.id)
  BY <1>1, <1>5, FailureFresh DEF StatusWrite
<1> QED BY <1>4, <1>5

LEMMA DeleteWriteFresh ==
  ASSUME Inv, Serial, FreshInv, NEW r \in Requests, DeleteWrite(r)
  PROVE  FreshInv'
<1> DEFINE t == req[r].call.id
<1>1. Away(r) /\ req'[r].pc \notin RowPCs /\ UNCHANGED projects
  BY OtherStepsAway DEF DeleteWrite
<1>2. t \in Tasks /\ req[r].row = tasks[t] /\ tasks[t].assignee \in Users \cup {Null}
  BY WriterHolds
<1>3. CASE Row(tasks, t)
  <2>1. tasks' = [tasks EXCEPT ![t] = Null] /\ Invalidate(r, ListsOf(tasks[t].assignee), 200)
    BY <1>2, <1>3 DEF DeleteWrite, Delete
  <2>2. tasks[t].assignee = Null \/ Awaits(req'[r], tasks[t].assignee)
    BY <1>2, <2>1, ListsOfNames, InvalidateAwaits
  <2> QED BY <1>1, <1>2, <2>1, <2>2, TaskWriteFresh
<1>4. CASE ~Row(tasks, t)
  BY <1>1, <1>4, FailureFresh DEF DeleteWrite
<1> QED BY <1>3, <1>4

\* A project that is new or goes has no task to show its name.
LEMMA ProjectsFresh ==
  ASSUME Inv, RowsIssued, Serial, CallsInvalidate, FreshInv, NEW r \in Requests, ProjectsNext(r)
  PROVE  FreshInv'
<1>1. Away(r) /\ req'[r].pc \notin RowPCs
  BY OtherStepsAway
<1>2. tasks' = tasks /\ req[r].call \in Calls
  BY DEF ProjectsNext, ProjectInsert, ProjectFind, ProjectUpdate, ProjectDelete, tables, At,
         Inv, TypeOK, RequestsOK, Held
<1>3. req[r].call.op # "updateProject"
  BY <1>2 DEF CallsInvalidate
<1>4. ASSUME NEW t \in Tasks, Row(tasks, t)
      PROVE  projects'[tasks[t].project] = projects[tasks[t].project]
  <2>1. tasks[t].project \in Projects /\ Row(projects, tasks[t].project)
    BY <1>4 DEF Inv, TypeOK, DataOK, TaskTable, TaskRow, KeysHold, TaskKeysHold, Row
  <2>2. CASE ProjectInsert(r)
    <3>1. PICK p \in Projects \ issued :
            projects' = [projects EXCEPT ![p] = [org |-> req[r].user.org, name |-> req[r].call.name]]
      BY <2>2 DEF ProjectInsert, Insert
    <3>2. tasks[t].project # p
      BY <2>1, <3>1 DEF RowsIssued
    <3> QED BY <2>1, <3>1, <3>2 DEF Inv, TypeOK, DataOK, ProjectTable
  <2>3. CASE ProjectFind(r)
    BY <2>3 DEF ProjectFind, tables
  <2>4. CASE ProjectUpdate(r)
    BY <1>3, <2>4 DEF ProjectUpdate
  <2>5. CASE ProjectDelete(r)
    <3>1. \/ projects' = projects
          \/ /\ projects' = [projects EXCEPT ![req[r].call.id] = Null]
             /\ tasks[t].project # req[r].call.id
      BY <1>4, <2>5 DEF ProjectDelete, ProjectDeletable, Delete, HasTasks
    <3> QED BY <2>1, <3>1 DEF Inv, TypeOK, DataOK, ProjectTable
  <2> QED BY <2>2, <2>3, <2>4, <2>5 DEF ProjectsNext
<1>5. \A k \in Personal : Current(k)' = Current(k)
  BY <1>2, <1>4, CurrentKept
<1> QED BY <1>1, <1>5, AwayFresh

LEMMA AccountsFresh ==
  ASSUME Inv, Serial, CallsInvalidate, FreshInv, NEW r \in Requests, AccountsNext(r)
  PROVE  FreshInv'
<1>1. Away(r) /\ req'[r].pc \notin RowPCs
  BY OtherStepsAway
<1>2. req[r].call \in Calls
  BY DEF AccountsNext, AccountFind, RegisterInsert, InviteInsert, UserFind, RoleWrite, UserDelete,
         At, Inv, TypeOK, RequestsOK, Held
<1>3. ~UserDelete(r)
  BY <1>2 DEF CallsInvalidate, UserDelete
<1>4. UNCHANGED <<projects, tasks>>
  BY <1>3 DEF AccountsNext, AccountFind, RegisterInsert, InviteInsert, UserFind, RoleWrite, tables
<1> QED BY <1>1, <1>4, FailureFresh

LEMMA ListQueryFresh ==
  ASSUME Inv, Serial, FreshInv, NEW r \in Requests, ListQuery(r)
  PROVE  FreshInv'
<1> DEFINE page == Find({t \in Tasks : Where(req[r].user, req[r].call, t)})
<1>1. /\ UNCHANGED <<tables, cache>> /\ req[r].pc = "list.query"
      /\ req' = [req EXCEPT ![r].page = page, ![r].pc = "list.setex"]
  BY DEF ListQuery, At, redis
<1>2. page = Current(KeyOf(req[r])) /\ KeyOf(req[r]) \in Key
  BY <1>1, ListHolds, QueryIsCurrent DEF KeyOf
<1> HIDE DEF page
<1>3. req'[r].pc = "list.setex" /\ req'[r].page = page /\ KeyOf(req'[r]) = KeyOf(req[r])
  BY <1>1 DEF Inv, TypeOK, RequestsOK, Locals, KeyOf
<1>4. \A k \in Key : CurrentLists'[k] = CurrentLists[k] /\ CurrentLists[k] = Current(k)
  BY <1>1, CurrentAt, TablesKeepCurrent
<1>5. Fresh(req[r], cache, CurrentLists, tasks)
  BY DEF FreshInv
<1>6. Fresh(req'[r], cache', CurrentLists', tasks')
  BY <1>1, <1>2, <1>3, <1>4, <1>5 DEF Fresh, Awaits, Personal
<1> QED BY <1>6, OneFresh

LEMMA ListStoreFresh ==
  ASSUME Inv, Serial, FreshInv, NEW r \in Requests, ListStore(r) \/ ListTrack(r)
  PROVE  FreshInv'
<1> DEFINE key == KeyOf(req[r])
<1>1. /\ UNCHANGED tables /\ req[r].pc \in {"list.setex", "list.sadd"} /\ key \in Key
  BY ListHolds DEF ListStore, ListTrack, At
<1>2. Fresh(req[r], cache, CurrentLists, tasks)
  BY DEF FreshInv
<1>3. req'[r].pc \in {"done", "list.sadd"}
  BY AnswerEnds, GotoKeeps DEF ListStore, ListTrack
<1>4. \A k \in Key : CurrentLists'[k] = CurrentLists[k]
  BY <1>1, CurrentAt, TablesKeepCurrent
<1>5. \A k \in Key : cache'[k] = cache[k] \/ (req[r].pc = "list.setex" /\ k = key /\ cache'[k] = req[r].page)
  BY <1>1 DEF ListStore, ListTrack, SetEx, SAdd, At, KeyOf, Inv, TypeOK, DataOK
<1>6. Fresh(req'[r], cache', CurrentLists', tasks')
  <2> HIDE DEF key
  <2>1. req[r].pc = "list.setex" => req[r].page = CurrentLists[key]
    BY <1>2 DEF Fresh, key
  <2>2. \A k \in Personal : cache[k] # Null => cache[k] = CurrentLists[k]
    BY <1>1, <1>2 DEF Fresh, Awaits
  <2> QED BY <1>1, <1>3, <1>4, <1>5, <2>1, <2>2 DEF Fresh, Personal
<1> QED BY <1>6, OneFresh

LEMMA InvalFresh ==
  ASSUME Inv, Serial, TrackInv, FreshInv, NEW r \in Requests,
         InvalMembers(r) \/ InvalDelete(r) \/ InvalClear(r)
  PROVE  FreshInv'
<1>1. /\ UNCHANGED tables /\ req[r].pc \in InvalPCs /\ req \in [Requests -> Locals]
      /\ req[r].todo \in Seq(Users) /\ req[r].todo # <<>>
  BY HeadOfTodo DEF Inv, TypeOK, RequestsOK, InvalMembers, InvalDelete, InvalClear, At
<1>2. Fresh(req[r], cache, CurrentLists, tasks)
  BY DEF FreshInv
<1>3. \A k \in Key : CurrentLists'[k] = CurrentLists[k]
  BY <1>1, CurrentAt, TablesKeepCurrent
<1>4. \A k \in Key : cache'[k] = Null \/ cache'[k] = cache[k]
  BY DEF InvalMembers, InvalDelete, InvalClear, DelKeys, DelSet, redis
<1>5. \A k \in Personal : k \in Key
  BY DEF Personal
<1>6. CASE InvalMembers(r) \/ InvalDelete(r)
  <2>1. req'[r].pc \in InvalPCs /\ req'[r].todo = req[r].todo
    BY <1>1, <1>6 DEF InvalMembers, InvalDelete, Goto, Locals
  <2>2. Fresh(req'[r], cache', CurrentLists', tasks')
    BY <1>1, <1>2, <1>3, <1>4, <1>5, <2>1 DEF Fresh, Awaits
  <2> QED BY <2>2, OneFresh
<1>7. CASE InvalClear(r)
  <2>1. /\ Invalidate(r, Tail(req[r].todo), req[r].code)
        /\ \A k \in Personal : cache[k] # Null => k.assignee # Head(req[r].todo)
    BY <1>7 DEF InvalClear, InvalNext, TrackInv, Tracked, At
  <2>2. req'[r].pc \in {"done", "inval.smembers"}
    BY <2>1, InvalidateStarts
  <2>3. ASSUME NEW k \in Personal, cache[k] # Null
        PROVE  cache[k] = CurrentLists[k] \/ Awaits(req'[r], k.assignee)
    <3>1. CASE cache[k] = CurrentLists[k]
      BY <3>1
    <3>2. CASE Among(k.assignee, req[r].todo)
      <4>1. Among(k.assignee, Tail(req[r].todo))
        BY <1>1, <2>1, <2>3, <3>2, TailNames
      <4> QED BY <2>1, <4>1, InvalidateAwaits
    <3> QED BY <1>2, <2>3, <3>1, <3>2 DEF Fresh, Awaits
  <2>4. Fresh(req'[r], cache', CurrentLists', tasks')
    BY <1>3, <1>4, <1>5, <2>2, <2>3 DEF Fresh
  <2> QED BY <2>4, OneFresh
<1> QED BY <1>6, <1>7

LEMMA NextFresh ==
  ASSUME Inv, RowsIssued, Serial, NoFailures, CallsInvalidate, TrackInv, FreshInv, [Next]_vars
  PROVE  FreshInv'
<1>1. ASSUME NEW r \in Requests, ArrivePublic(r) \/ Arrive(r) PROVE FreshInv'
  BY <1>1, ArrivalAway, FailureFresh DEF ArrivePublic, Arrive, tables
<1>2. ASSUME NEW r \in Requests, Step(r) PROVE FreshInv'
  <2>1. CASE \/ ListGet(r) \/ GetFind(r) \/ CreateAssignee(r) \/ CreateProjectCheck(r) \/ Reply(r)
    <3>1. UNCHANGED <<projects, tasks>>
      BY <2>1 DEF ListGet, GetFind, CreateAssignee, CreateProjectCheck, Reply, tables
    <3> QED BY <2>1, <3>1, OtherStepsAway, FailureFresh
  <2>2. CASE UpdateFind(r) \/ UpdateAssignee(r) \/ StatusFind(r) \/ DeleteFind(r)
    <3>1. /\ Away(r) /\ UNCHANGED tables
          /\ req'[r].pc \in RowPCs => req'[r].row = tasks[req'[r].call.id]
      BY <2>2, RowReads
    <3>2. \A k : Current(k)' = Current(k)
      BY <3>1, TablesKeepCurrent
    <3>3. tasks' = tasks
      BY <3>1 DEF tables
    <3> QED BY <3>1, <3>2, <3>3, AwayFresh
  <2> QED BY <1>2, <2>1, <2>2, StepCases, CreateInsertFresh, UpdateWriteFresh, StatusWriteFresh,
             DeleteWriteFresh, ProjectsFresh, AccountsFresh, ListQueryFresh, ListStoreFresh, InvalFresh
<1>3. CASE (\E k \in Key : EntryExpires(k)) \/ UNCHANGED vars
  <2>1. /\ UNCHANGED <<tables, req>> /\ \A k \in Key : cache'[k] = Null \/ cache'[k] = cache[k]
    BY <1>3, EntryGoes
  <2>2. \A k \in Key : CurrentLists'[k] = CurrentLists[k]
    BY <2>1, CurrentAt, TablesKeepCurrent
  <2>3. ASSUME NEW r \in Requests PROVE Fresh(req'[r], cache', CurrentLists', tasks')
    <3>1. Fresh(req[r], cache, CurrentLists, tasks)
      BY DEF FreshInv
    <3>2. req[r].pc = "list.setex" => KeyOf(req[r]) \in Key
      BY ListHolds
    <3>3. req' = req /\ tasks' = tasks
      BY <2>1 DEF tables
    <3> QED BY <2>1, <2>2, <3>1, <3>2, <3>3 DEF Fresh, Personal
  <2>4. (\A r \in Requests : Fresh(req[r], cache, CurrentLists, tasks))'
    BY <2>3 DEF Fresh, Personal, KeyOf, CacheKey, Awaits, Among
  <2> QED BY <2>4 DEF FreshInv
<1> QED BY <1>1, <1>2, <1>3 DEF Next, NoFailures

(* ---- the theorems ---------------------------------------------------------------------- *)

LEMMA InitFresh == Init => TrackInv /\ FreshInv
<1> SUFFICES ASSUME Init PROVE TrackInv /\ FreshInv
  OBVIOUS
<1>1. /\ cache = [k \in Key |-> Null] /\ \A r \in Requests : req[r].pc = "idle"
  BY DEF Init, CacheInit, RequestInit, Idle
<1> QED BY <1>1 DEF TrackInv, FreshInv, Tracked, Fresh, Personal, NothingStoredYet

\* "Every cache key is added to a Redis Set" (README.md:131): between
\* requests no stored list of one assignee is missing from that assignee's
\* set, so that the next invalidation will find it.
THEOREM KeysStayTracked ==
  ASSUME Serial, NoFailures PROVE Spec => []AssigneeKeysTracked
<1>1. TrackInv => AssigneeKeysTracked
  <2> SUFFICES ASSUME TrackInv, Quiet, NEW k \in Key, k.assignee # "all", cache[k] # Null
               PROVE  k \in tracked[k.assignee]
    BY DEF AssigneeKeysTracked
  <2>1. PICK r \in Requests : TRUE
    BY DEF TrackInv, NothingStoredYet
  <2>2. Tracked(req[r], cache, tracked) /\ req[r].pc = "idle"
    BY DEF TrackInv, Quiet, At
  <2> QED BY <2>2 DEF Tracked, Personal
<1>2. Inv /\ TrackInv /\ [Next]_vars => Inv' /\ TrackInv'
  BY NextInv, NextTracked
<1> QED BY <1>1, <1>2, InitInv, InitFresh, PTL DEF Spec

\* Between requests every stored list of one assignee is what the database
\* would answer: a write deletes the lists of the old and the new assignee.
THEOREM ListsStayFresh ==
  ASSUME Serial, NoFailures, CallsInvalidate PROVE Spec => []AssigneeListsFresh
<1>1. TrackInv /\ FreshInv => AssigneeListsFresh
  <2> SUFFICES ASSUME TrackInv, FreshInv, Quiet, NEW k \in Key, k.assignee # "all", cache[k] # Null
               PROVE  cache[k] = Current(k)
    BY DEF AssigneeListsFresh
  <2>1. PICK r \in Requests : TRUE
    BY DEF TrackInv, NothingStoredYet
  <2>2. Fresh(req[r], cache, CurrentLists, tasks) /\ req[r].pc = "idle"
    BY DEF FreshInv, Quiet, At
  <2> QED BY <2>2, CurrentAt DEF Fresh, Personal, Awaits
<1>2. Inv /\ Tenancy /\ TrackInv /\ FreshInv /\ [Next]_vars => Inv' /\ Tenancy' /\ TrackInv' /\ FreshInv'
  BY NextInv, NextTenancy, NextTracked, NextFresh DEF Tenancy
<1> QED BY <1>1, <1>2, InitInv, InitTenancy, InitFresh, PTL DEF Spec
==============================================================================
