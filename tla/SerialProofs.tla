---------------------------- MODULE SerialProofs ----------------------------
(***************************************************************************)
(* One request at a time the tracker implements TaskBoard: every change of *)
(* the tables is one permitted operation, for every set of users,          *)
(* projects, tasks and calls, with Redis errors and with crashes at every  *)
(* await.  What a handler looked up before an await is still so when it    *)
(* writes, because nobody else runs.                                       *)
(***************************************************************************)
EXTENDS TenancyProofs

\* There is one request slot at most.
Serial == \A r, s \in Requests : r = s

(* ---- the invariant ------------------------------------------------------ *)

\* The caller is as authenticate found it and passed every middleware.
Caller(q, us) ==
  /\ Row(us, q.user.id)
  /\ us[q.user.id].role = q.user.role /\ us[q.user.id].org = q.user.org
  /\ q.user.id = q.call.caller
  /\ Authorized(q.user.role, q.call.op) /\ Valid(q.call) /\ ~OwnAccount(q.call)

\* What Routed says of the tasks service, for the other two.
Kind(q) ==
  /\ q.pc = "project.insert" => q.call.op = "createProject"
  /\ q.pc \in {"project.find", "project.write"} => q.call.op \in {"updateProject", "deleteProject"}
  /\ q.pc \in {"invite.find", "invite.insert"} => q.call.op = "inviteUser"
  /\ q.pc \in {"user.find", "user.write"} => q.call.op \in {"updateUserRole", "deleteUser"}

Within(table, x, o) == Row(table, x) /\ table[x].org = o

\* What the look-ups of a handler found is in the tables us, ps and ts.
Found(q, us, ps, ts) ==
  LET o == q.user.org
      c == q.call
  IN /\ q.pc \in {"create.project", "create.insert", "update.write"} /\ c.assignee \in Users =>
          Within(us, c.assignee, o)
     /\ q.pc = "create.insert" => Within(ps, c.project, o)
     /\ q.pc \in {"update.assignee", "update.write", "status.write", "delete.write"} =>
          Row(ts, c.id) /\ ps[ts[c.id].project].org = o
     /\ q.pc = "status.write" =>
          CanMove(ts[c.id].status, c.status) /\ MayChangeStatus(ts[c.id], q.user)
     /\ q.pc = "project.write" => Within(ps, c.id, o)
     /\ q.pc = "user.write" => Within(us, c.id, o)
     /\ q.pc \in {"register.insert", "invite.insert"} =>
          \A u \in Users : Row(us, u) => us[u].email # c.email

\* An answer 500 has its restricting foreign key.
Explained(q, ts) ==
  /\ q.pc \in InvalPCs => q.code \in {200, 201}
  /\ q.pc = "done" /\ q.code = 500 =>
       \/ q.call.op = "deleteProject" /\ \E t \in Tasks : Row(ts, t) /\ ts[t].project = q.call.id
       \/ q.call.op = "deleteUser" /\ \E t \in Tasks : Row(ts, t) /\ ts[t].creator = q.call.id

Judged(q, us, ps, ts) ==
  /\ q.pc \in HandlerPCs \ (PublicPCs \cup InvalPCs) => Caller(q, us)
  /\ Kind(q) /\ Found(q, us, ps, ts) /\ Explained(q, ts)

AllJudged == \A r \in Requests : Judged(req[r], users, projects, tasks)

\* Nobody belongs to an organization that is not there.
OrgsExist == \A u \in Users : Row(users, u) => users[u].org \in orgs

SerialInv == AllJudged /\ OrgsExist /\ StampMeansDone

USE DEF ListPCs, CreatePCs, UpdatePCs, StatusPCs, DeletePCs, HandlerPCs, TaskPCs, InvalPCs,
        ProjectPCs, PublicPCs, AccountPCs

(* ---- the slot that moves -------------------------------------------------- *)

\* Whom the routes of the writing operations admit.
LEMMA RouteRoles ==
  ASSUME NEW role, NEW op, Authorized(role, op)
  PROVE  /\ op \in {"createTask", "updateTask", "deleteTask", "createProject", "updateProject"} =>
              role \in Managers
         /\ op \in {"inviteUser", "updateUserRole", "deleteUser", "deleteProject"} => role = "ADMIN"
BY DEF Authorized, Admitted, AccountRoles, DeleteProjectRoles, CreateProjectRoles,
       UpdateProjectRoles, CreateTaskRoles, UpdateTaskRoles, DeleteTaskRoles

LEMMA OneJudged ==
  ASSUME Serial, NEW r \in Requests, Judged(req'[r], users', projects', tasks')
  PROVE  AllJudged'
<1> SUFFICES ASSUME NEW s \in Requests
             PROVE  Judged(req'[s], users', projects', tasks')
  BY DEF AllJudged, Judged, Caller, Kind, Found, Within, Explained, Row, Authorized, Admitted, Valid,
         OwnAccount, CanMove, MayChangeStatus
<1> QED BY DEF Serial

\* At these points of its life a request has judged nothing.
LEMMA RestJudged ==
  ASSUME NEW q, NEW us, NEW ps, NEW ts,
         \/ q.pc = "idle" \/ (q.pc = "done" /\ q.code # 500)
         \/ q.pc \in InvalPCs /\ q.code \in {200, 201}
  PROVE  Judged(q, us, ps, ts)
BY DEF Judged, Kind, Found, Explained

LEMMA AnswerJudged ==
  ASSUME Inv, NEW r \in Requests, NEW us, NEW ps, NEW ts,
         NEW code \in {200, 201, 400, 401, 403, 404, 409}, Answer(r, code)
  PROVE  Judged(req'[r], us, ps, ts)
<1>1. req' = [req EXCEPT ![r] = Answered(req[r].call, req[r].user, code, Null)]
  BY DEF Answer, Inv, TypeOK, RequestsOK
<1>2. req'[r].pc = "done" /\ req'[r].code = code
  BY <1>1 DEF Answered, Idle, Inv, TypeOK, RequestsOK
<1> QED BY <1>2, RestJudged

LEMMA AnswerPageJudged ==
  ASSUME Inv, NEW r \in Requests, NEW us, NEW ps, NEW ts, NEW page, AnswerPage(r, page)
  PROVE  Judged(req'[r], us, ps, ts)
<1>1. req' = [req EXCEPT ![r] = Answered(req[r].call, req[r].user, 200, page)]
  BY DEF AnswerPage, Inv, TypeOK, RequestsOK
<1>2. req'[r].pc = "done" /\ req'[r].code = 200
  BY <1>1 DEF Answered, Idle, Inv, TypeOK, RequestsOK
<1> QED BY <1>2, RestJudged

LEMMA InvalidateJudged ==
  ASSUME Inv, NEW r \in Requests, NEW us, NEW ps, NEW ts, NEW todo, NEW code \in {200, 201},
         Invalidate(r, todo, code)
  PROVE  Judged(req'[r], us, ps, ts)
<1>1. CASE todo = <<>>
  BY <1>1, AnswerJudged DEF Invalidate
<1>2. CASE todo # <<>>
  <2> DEFINE q == [Idle EXCEPT !.pc = "inval.smembers", !.call = req[r].call,
                     !.user = req[r].user, !.todo = todo, !.code = code]
  <2>1. req' = [req EXCEPT ![r] = q]
    BY <1>2 DEF Invalidate
  <2>2. q.pc = "inval.smembers" /\ q.code = code
    BY DEF Idle
  <2> HIDE DEF q
  <2>3. req'[r] = q
    BY <2>1 DEF Inv, TypeOK, RequestsOK
  <2> QED BY <2>2, <2>3, RestJudged
<1> QED BY <1>1, <1>2

\* The handler goes on: its caller and its kind stay, what it has just found
\* is to be shown.
LEMMA GotoJudged ==
  ASSUME Inv, AllJudged, NEW r \in Requests, NEW pc, Goto(r, pc),
         req[r].pc \in HandlerPCs, pc \in HandlerPCs,
         pc \in PublicPCs <=> req[r].pc \in PublicPCs,
         pc \in InvalPCs <=> req[r].pc \in InvalPCs,
         Kind([pc |-> pc, call |-> req[r].call]),
         Found([pc |-> pc, call |-> req[r].call, user |-> req[r].user], users, projects, tasks)
  PROVE  Judged(req'[r], users, projects, tasks)
<1> DEFINE q == req'[r]
<1>1. /\ q.pc = pc /\ q.call = req[r].call /\ q.user = req[r].user /\ q.code = req[r].code
  BY DEF Inv, TypeOK, RequestsOK, Locals, Goto
<1>2. Judged(req[r], users, projects, tasks)
  BY DEF AllJudged
<1> HIDE DEF q
<1>3. q.pc \in HandlerPCs \ (PublicPCs \cup InvalPCs) => Caller(q, users)
  BY <1>1, <1>2 DEF Judged, Caller
<1>4. Kind(q)
  BY <1>1 DEF Kind
<1>5. Found(q, users, projects, tasks)
  BY <1>1 DEF Found
<1>6. Explained(q, tasks)
  BY <1>1, <1>2 DEF Explained, Judged
<1> QED BY <1>3, <1>4, <1>5, <1>6 DEF Judged, q

(* ---- look-ups: what they find is so ------------------------------------------ *)

\* Lists, the invalidation and what only answers judge nothing.
LEMMA ReadsJudged ==
  ASSUME Inv, AllJudged, NEW r \in Requests,
         \/ ListGet(r) \/ ListQuery(r) \/ ListStore(r) \/ ListTrack(r) \/ GetFind(r)
         \/ InvalMembers(r) \/ InvalDelete(r) \/ InvalClear(r) \/ RedisError(r)
         \/ Reply(r)
  PROVE  Judged(req'[r], users, projects, tasks)
<1>0. req \in [Requests -> Locals] /\ Judged(req[r], users, projects, tasks)
  BY DEF Inv, TypeOK, RequestsOK, AllJudged
<1>1. CASE ListGet(r)
  BY <1>1, AnswerPageJudged, GotoJudged DEF ListGet, At, Kind, Found
<1>2. CASE ListQuery(r)
  <2> DEFINE q == [req[r] EXCEPT !.page = Find({t \in Tasks : Where(req[r].user, req[r].call, t)}),
                                 !.pc = "list.setex"]
  <2>1. req'[r] = q /\ q.pc = "list.setex" /\ q.call = req[r].call /\ q.user = req[r].user
    BY <1>0, <1>2 DEF ListQuery, Locals
  <2> HIDE DEF q
  <2>2. Caller(q, users)
    BY <1>0, <1>2, <2>1 DEF ListQuery, At, Judged, Caller
  <2> QED BY <2>1, <2>2 DEF Judged, Kind, Found, Explained
<1>3. CASE ListStore(r)
  BY <1>3, AnswerPageJudged, GotoJudged DEF ListStore, At, Kind, Found
<1>4. CASE ListTrack(r)
  BY <1>4, AnswerPageJudged DEF ListTrack
<1>5. CASE GetFind(r)
  BY <1>5, AnswerJudged DEF GetFind
<1>6. CASE InvalMembers(r)
  <2>1. /\ req'[r].pc \in InvalPCs /\ req'[r].code = req[r].code
    BY <1>0, <1>6 DEF InvalMembers, Locals
  <2>2. req[r].code \in {200, 201}
    BY <1>0, <1>6 DEF InvalMembers, At, Judged, Explained
  <2> QED BY <2>1, <2>2, RestJudged
<1>7. CASE InvalDelete(r)
  BY <1>7, GotoJudged DEF InvalDelete, At, Kind, Found
<1>8. CASE req[r].pc \in InvalPCs /\ InvalNext(r)
  <2>1. req[r].code \in {200, 201}
    BY <1>0, <1>8 DEF Judged, Explained
  <2> QED BY <1>8, <2>1, InvalidateJudged DEF InvalNext
<1>9. CASE RedisError(r) /\ req[r].pc \notin InvalPCs
  <2>1. CASE At(r, "list.get") /\ Goto(r, "list.query")
    BY <2>1, GotoJudged DEF At, Kind, Found
  <2>2. CASE AnswerPage(r, req[r].page)
    BY <2>2, AnswerPageJudged
  <2> QED BY <1>9, <2>1, <2>2 DEF RedisError
<1>10. CASE Reply(r)
  <2>1. req'[r].pc = "idle"
    BY <1>0, <1>10 DEF Reply, Idle
  <2> QED BY <2>1, RestJudged
<1>11. (InvalClear(r) \/ RedisError(r)) =>
         \/ req[r].pc \in InvalPCs /\ InvalNext(r)
         \/ RedisError(r) /\ req[r].pc \notin InvalPCs
  BY DEF InvalClear, RedisError, At
<1> QED BY <1>1, <1>2, <1>3, <1>4, <1>5, <1>6, <1>7, <1>8, <1>9, <1>10, <1>11

LEMMA InOrgWithin ==
  ASSUME NEW table, NEW x, NEW o, InOrg(table, x, o) # Null
  PROVE  Within(table, x, o)
BY DEF InOrg, Within

LEMMA CreateChecksJudged ==
  ASSUME Inv, AllJudged, NEW r \in Requests, CreateAssignee(r) \/ CreateProjectCheck(r)
  PROVE  Judged(req'[r], users, projects, tasks)
<1> DEFINE c == req[r].call
           o == req[r].user.org
<1>0. Judged(req[r], users, projects, tasks)
  BY DEF AllJudged
<1>1. CASE Answer(r, 400)
  BY <1>1, AnswerJudged
<1>2. CASE CreateAssignee(r) /\ Goto(r, "create.project") /\ InOrg(users, c.assignee, o) # Null
  <2>1. Within(users, c.assignee, o)
    BY <1>2, InOrgWithin
  <2> QED BY <1>2, <2>1, GotoJudged DEF CreateAssignee, At, Kind, Found
<1>3. CASE CreateProjectCheck(r) /\ Goto(r, "create.insert") /\ InOrg(projects, c.project, o) # Null
  <2>1. Within(projects, c.project, o)
    BY <1>3, InOrgWithin
  <2>2. req[r].pc = "create.project" /\ (c.assignee \in Users => Within(users, c.assignee, o))
    BY <1>0, <1>3 DEF CreateProjectCheck, At, Judged, Found
  <2> QED BY <1>3, <2>1, <2>2, GotoJudged DEF Kind, Found
<1> QED BY <1>1, <1>2, <1>3 DEF CreateAssignee, CreateProjectCheck, AssigneeInOrg

\* The task getTask returns is that of the table.
LEMMA GetTaskFound ==
  ASSUME NEW user, NEW t \in Tasks, GetTask(user, t) # Null
  PROVE  /\ Row(tasks, t) /\ GetTask(user, t) = tasks[t]
         /\ projects[tasks[t].project].org = user.org
BY DEF GetTask

LEMMA UpdateFindJudged ==
  ASSUME Inv, TenantIntegrity, AllJudged, NEW r \in Requests, UpdateFind(r)
  PROVE  Judged(req'[r], users, projects, tasks)
<1> DEFINE c == req[r].call
           row == GetTask(req[r].user, c.id)
           pc == IF NewAssignee(c, row) THEN "update.assignee" ELSE "update.write"
<1>0. /\ Judged(req[r], users, projects, tasks) /\ req \in [Requests -> Locals]
      /\ req[r].pc = "update.find" /\ c.id \in Tasks
  BY CallsAssumption DEF AllJudged, UpdateFind, At, Inv, TypeOK, RequestsOK, Routed, Held
<1>1. CASE row = Null
  BY <1>1, AnswerJudged DEF UpdateFind
<1>2. CASE row # Null
  <2>1. Row(tasks, c.id) /\ row = tasks[c.id] /\ projects[tasks[c.id].project].org = req[r].user.org
    BY <1>0, <1>2, GetTaskFound
  <2>2. /\ req'[r].pc = pc /\ req'[r].call = c /\ req'[r].user = req[r].user
    BY <1>0, <1>2 DEF UpdateFind, Locals
  <2>3. ASSUME pc = "update.write", c.assignee \in Users
        PROVE  Within(users, c.assignee, req[r].user.org)
    <3>1. tasks[c.id].assignee = c.assignee /\ c.assignee # Null
      BY <2>1, <2>3, SchemaAssumption DEF NewAssignee
    <3> QED BY <1>0, <2>1, <3>1 DEF TenantIntegrity, Within
  <2>4. pc \in {"update.assignee", "update.write"}
    OBVIOUS
  <2> HIDE DEF pc, row
  <2>5. Caller(req'[r], users)
    BY <1>0, <2>2 DEF Judged, Caller
  <2>6. Found(req'[r], users, projects, tasks)
    BY <2>1, <2>2, <2>3, <2>4 DEF Found
  <2> QED BY <2>2, <2>4, <2>5, <2>6 DEF Judged, Kind, Explained
<1> QED BY <1>1, <1>2

LEMMA UpdateAssigneeJudged ==
  ASSUME Inv, AllJudged, NEW r \in Requests, UpdateAssignee(r)
  PROVE  Judged(req'[r], users, projects, tasks)
<1> DEFINE c == req[r].call
           o == req[r].user.org
<1>1. CASE Answer(r, 400)
  BY <1>1, AnswerJudged
<1>2. CASE Goto(r, "update.write") /\ InOrg(users, c.assignee, o) # Null
  <2>1. Within(users, c.assignee, o)
    BY <1>2, InOrgWithin
  <2>2. req[r].pc = "update.assignee" /\ Row(tasks, c.id) /\ projects[tasks[c.id].project].org = o
    BY DEF UpdateAssignee, At, AllJudged, Judged, Found
  <2> QED BY <1>2, <2>1, <2>2, GotoJudged DEF Kind, Found
<1> QED BY <1>1, <1>2 DEF UpdateAssignee, AssigneeInOrg

LEMMA StatusFindJudged ==
  ASSUME Inv, AllJudged, NEW r \in Requests, StatusFind(r)
  PROVE  Judged(req'[r], users, projects, tasks)
<1> DEFINE c == req[r].call
<1>0. /\ Judged(req[r], users, projects, tasks) /\ req \in [Requests -> Locals]
      /\ req[r].pc = "status.find"
  BY DEF AllJudged, StatusFind, At, Inv, TypeOK, RequestsOK
<1>1. CASE \E code \in {400, 403, 404} : Answer(r, code)
  BY <1>1, AnswerJudged
<1>2. CASE /\ Row(tasks, c.id) /\ projects[tasks[c.id].project].org = req[r].user.org
           /\ CanMove(tasks[c.id].status, c.status) /\ MayChangeStatus(tasks[c.id], req[r].user)
           /\ req' = [req EXCEPT ![r].row = tasks[c.id], ![r].pc = "status.write"]
  <2>1. req'[r].pc = "status.write" /\ req'[r].call = c /\ req'[r].user = req[r].user
    BY <1>0, <1>2 DEF Locals
  <2>2. Caller(req'[r], users)
    BY <1>0, <2>1 DEF Judged, Caller
  <2>3. Found(req'[r], users, projects, tasks)
    BY <1>2, <2>1 DEF Found
  <2> QED BY <2>1, <2>2, <2>3 DEF Judged, Kind, Explained
<1> QED BY <1>1, <1>2 DEF StatusFind

LEMMA DeleteFindJudged ==
  ASSUME Inv, AllJudged, NEW r \in Requests, DeleteFind(r)
  PROVE  Judged(req'[r], users, projects, tasks)
<1> DEFINE c == req[r].call
           row == GetTask(req[r].user, c.id)
<1>0. /\ Judged(req[r], users, projects, tasks) /\ req \in [Requests -> Locals]
      /\ req[r].pc = "delete.find" /\ c.id \in Tasks
  BY CallsAssumption DEF AllJudged, DeleteFind, At, Inv, TypeOK, RequestsOK, Routed, Held
<1>1. CASE row = Null
  BY <1>1, AnswerJudged DEF DeleteFind
<1>2. CASE row # Null
  <2>1. Row(tasks, c.id) /\ projects[tasks[c.id].project].org = req[r].user.org
    BY <1>0, <1>2, GetTaskFound
  <2>2. req'[r].pc = "delete.write" /\ req'[r].call = c /\ req'[r].user = req[r].user
    BY <1>0, <1>2 DEF DeleteFind, Locals
  <2>3. Caller(req'[r], users)
    BY <1>0, <2>2 DEF Judged, Caller
  <2>4. Found(req'[r], users, projects, tasks)
    BY <2>1, <2>2 DEF Found
  <2> QED BY <2>2, <2>3, <2>4 DEF Judged, Kind, Explained
<1> QED BY <1>1, <1>2

LEMMA ProjectFindJudged ==
  ASSUME Inv, AllJudged, NEW r \in Requests, ProjectFind(r)
  PROVE  Judged(req'[r], users, projects, tasks)
<1>1. CASE Answer(r, 404)
  BY <1>1, AnswerJudged
<1>2. CASE Goto(r, "project.write") /\ InOrg(projects, req[r].call.id, req[r].user.org) # Null
  <2>1. Within(projects, req[r].call.id, req[r].user.org)
    BY <1>2, InOrgWithin
  <2>2. req[r].pc = "project.find" /\ req[r].call.op \in {"updateProject", "deleteProject"}
    BY DEF ProjectFind, At, AllJudged, Judged, Kind
  <2> QED BY <1>2, <2>1, <2>2, GotoJudged DEF Kind, Found
<1> QED BY <1>1, <1>2 DEF ProjectFind

LEMMA AccountFindJudged ==
  ASSUME Inv, AllJudged, NEW r \in Requests, AccountFind(r)
  PROVE  Judged(req'[r], users, projects, tasks)
<1> DEFINE pc == IF At(r, "register.find") THEN "register.insert" ELSE "invite.insert"
<1>1. CASE Answer(r, 409)
  BY <1>1, AnswerJudged
<1>2. CASE ~Duplicate(r) /\ Goto(r, pc)
  <2>1. \A u \in Users : Row(users, u) => users[u].email # req[r].call.email
    BY <1>2 DEF Duplicate, EmailTaken
  <2>2. /\ req[r].pc \in {"register.find", "invite.find"}
        /\ req[r].pc = "invite.find" => req[r].call.op = "inviteUser"
        /\ pc = (IF req[r].pc = "register.find" THEN "register.insert" ELSE "invite.insert")
    BY DEF AccountFind, At, AllJudged, Judged, Kind
  <2> HIDE DEF pc
  <2> QED BY <1>2, <2>1, <2>2, GotoJudged DEF Kind, Found
<1> QED BY <1>1, <1>2 DEF AccountFind

LEMMA UserFindJudged ==
  ASSUME Inv, AllJudged, NEW r \in Requests, UserFind(r)
  PROVE  Judged(req'[r], users, projects, tasks)
<1>1. CASE Answer(r, 404)
  BY <1>1, AnswerJudged
<1>2. CASE Goto(r, "user.write") /\ InOrg(users, req[r].call.id, req[r].user.org) # Null
  <2>1. Within(users, req[r].call.id, req[r].user.org)
    BY <1>2, InOrgWithin
  <2>2. req[r].pc = "user.find" /\ req[r].call.op \in {"updateUserRole", "deleteUser"}
    BY DEF UserFind, At, AllJudged, Judged, Kind
  <2> QED BY <1>2, <2>1, <2>2, GotoJudged DEF Kind, Found
<1> QED BY <1>1, <1>2 DEF UserFind

(* ---- arrival -------------------------------------------------------------------- *)

LEMMA FirstStepKind ==
  ASSUME NEW c \in Calls
  PROVE  /\ FirstStep(c) \in HandlerPCs \ InvalPCs
         /\ \A q : q.pc = FirstStep(c) /\ q.call = c =>
              Kind(q) /\ \A us, ps, ts : Found(q, us, ps, ts)
<1>1. c.op \in Ops
  BY CallsAssumption DEF Call
<1> QED BY <1>1 DEF FirstStep, Ops, TaskOps, ProjectOps, AccountOps, Kind, Found

LEMMA ArrivePublicJudged ==
  ASSUME Inv, NEW r \in Requests, ArrivePublic(r)
  PROVE  Judged(req'[r], users, projects, tasks)
<1>1. PICK c \in Calls :
        c.op = "register" /\ req' = [req EXCEPT ![r].pc = FirstStep(c), ![r].call = c]
  BY DEF ArrivePublic
<1>2. FirstStep(c) = "register.find"
  BY <1>1 DEF FirstStep
<1>3. req'[r].pc = "register.find"
  BY <1>1, <1>2 DEF Inv, TypeOK, RequestsOK, Locals
<1> QED BY <1>3 DEF Judged, Kind, Found, Explained

LEMMA ArriveJudged ==
  ASSUME Inv, NEW r \in Requests, Arrive(r)
  PROVE  Judged(req'[r], users, projects, tasks)
<1> DEFINE user(c) == [id |-> c.caller, role |-> users[c.caller].role, org |-> users[c.caller].org]
           begun(c) == [Idle EXCEPT !.pc = FirstStep(c), !.call = c, !.user = user(c)]
<1>1. PICK c \in Calls :
        /\ c.op # "register"
        /\ req' = [req EXCEPT ![r] =
               IF ~Row(users, c.caller) THEN Answered(c, Null, 401, Null)
               ELSE IF ~Authorized(users[c.caller].role, c.op) THEN Answered(c, user(c), 403, Null)
               ELSE IF ~Valid(c) \/ OwnAccount(c) THEN Answered(c, user(c), 400, Null)
               ELSE begun(c)]
  BY DEF Arrive
<1>2. ASSUME NEW us, NEW code \in {400, 401, 403}, req'[r] = Answered(c, us, code, Null)
      PROVE  Judged(req'[r], users, projects, tasks)
  <2>1. req'[r].pc = "done" /\ req'[r].code = code
    BY <1>2 DEF Answered, Idle
  <2> QED BY <2>1, RestJudged
<1>3. ASSUME Row(users, c.caller), Authorized(users[c.caller].role, c.op),
             Valid(c), ~OwnAccount(c), req'[r] = begun(c)
      PROVE  Judged(req'[r], users, projects, tasks)
  <2>1. req'[r].pc = FirstStep(c) /\ req'[r].call = c /\ req'[r].user = user(c)
    BY <1>3 DEF Idle
  <2>2. Kind(req'[r]) /\ Found(req'[r], users, projects, tasks) /\ FirstStep(c) \notin InvalPCs \cup {"done"}
    BY <2>1, FirstStepKind
  <2>3. Caller(req'[r], users)
    BY <1>3, <2>1 DEF Caller
  <2> HIDE DEF user, begun
  <2> QED BY <2>1, <2>2, <2>3 DEF Judged, Explained
<1> HIDE DEF user, begun
<1>4. req'[r] =
        IF ~Row(users, c.caller) THEN Answered(c, Null, 401, Null)
        ELSE IF ~Authorized(users[c.caller].role, c.op) THEN Answered(c, user(c), 403, Null)
        ELSE IF ~Valid(c) \/ OwnAccount(c) THEN Answered(c, user(c), 400, Null)
        ELSE begun(c)
  BY <1>1 DEF Inv, TypeOK, RequestsOK
<1> QED BY <1>2, <1>3, <1>4

\* A step that writes no table leaves everything judged as it was.
LEMMA QuietJudged ==
  ASSUME Inv, TenantIntegrity, Serial, AllJudged, NEW r \in Requests, UNCHANGED tables,
         \/ ListGet(r) \/ ListQuery(r) \/ ListStore(r) \/ ListTrack(r) \/ GetFind(r)
         \/ InvalMembers(r) \/ InvalDelete(r) \/ InvalClear(r) \/ RedisError(r)
         \/ CreateAssignee(r) \/ CreateProjectCheck(r) \/ UpdateFind(r) \/ UpdateAssignee(r)
         \/ StatusFind(r) \/ DeleteFind(r) \/ ProjectFind(r) \/ AccountFind(r) \/ UserFind(r)
         \/ ArrivePublic(r) \/ Arrive(r) \/ Reply(r)
  PROVE  AllJudged'
<1>1. Judged(req'[r], users, projects, tasks)
  BY ReadsJudged, CreateChecksJudged, UpdateFindJudged, UpdateAssigneeJudged, StatusFindJudged,
     DeleteFindJudged, ProjectFindJudged, AccountFindJudged, UserFindJudged, ArrivePublicJudged,
     ArriveJudged
<1>2. users' = users /\ projects' = projects /\ tasks' = tasks
  BY DEF tables
<1> QED BY <1>1, <1>2, OneJudged

(* ---- writes: each is one operation of the board --------------------------------- *)

\* What a handler that writes knows of its caller.
LEMMA CallerKnown ==
  ASSUME Inv, AllJudged, NEW r \in Requests, req[r].pc \in HandlerPCs \ (PublicPCs \cup InvalPCs)
  PROVE  /\ req[r].user.id \in Users /\ req[r].user.org \in Orgs /\ req[r].user.role \in Roles
         /\ req[r].user.id = req[r].call.caller /\ req[r].call \in Calls
         /\ Row(users, req[r].user.id)
         /\ users[req[r].user.id].org = req[r].user.org
         /\ users[req[r].user.id].role = req[r].user.role
         /\ Authorized(req[r].user.role, req[r].call.op) /\ Valid(req[r].call)
         /\ ~OwnAccount(req[r].call)
<1>1. req[r].user \in User /\ req[r].call \in Calls
  BY DEF Inv, TypeOK, RequestsOK, Held
<1>2. Caller(req[r], users)
  BY DEF AllJudged, Judged
<1> QED BY <1>1, <1>2 DEF Caller, User

LEMMA CreateInsertSerial ==
  ASSUME Inv, Serial, AllJudged, NEW r \in Requests, CreateInsert(r)
  PROVE  AllJudged' /\ Board!Next
<1> DEFINE c == req[r].call
           u == req[r].user.id
           o == req[r].user.org
           row == NewTask(req[r].user, c)
<1>1. /\ req[r].pc = "create.insert" /\ c \in Calls /\ c.op = "createTask" /\ req[r].user \in User
      /\ Judged(req[r], users, projects, tasks)
  BY DEF Inv, TypeOK, RequestsOK, Routed, Held, CreateInsert, At, AllJudged
<1>2. /\ u \in Users /\ Row(users, u) /\ users[u].org = o /\ users[u].role \in Managers
  BY <1>1, CallerKnown, RouteRoles
<1>3. /\ Within(projects, c.project, o)
      /\ c.assignee \in Users => Within(users, c.assignee, o)
  BY <1>1 DEF Judged, Found
<1>4. row \in TaskRow
  BY <1>1, NewTaskOK
<1>5. /\ row.project = c.project /\ row.creator = u /\ row.status = "TODO" /\ row.completedAt = FALSE
      /\ row.assignee \in {c.assignee, Null} \cap (Users \cup {Null})
  BY <1>1, <1>4, CallsAssumption DEF NewTask, Call, TaskRow
<1> HIDE DEF row
<1>6. row.assignee # Null => Within(users, row.assignee, o)
  BY <1>3, <1>5
<1>7. TaskKeysHold(row)
  BY <1>2, <1>3, <1>5, <1>6 DEF TaskKeysHold, Within
<1>8. PICK t \in Tasks \ issued :
        /\ tasks' = Insert(tasks, t, row) /\ issued' = issued \cup {t}
        /\ Invalidate(r, ListsOf(row.assignee), 201)
  BY <1>7 DEF CreateInsert, row
<1>9. AllJudged'
  <2>1. Judged(req'[r], users', projects', tasks')
    BY <1>8, InvalidateJudged
  <2> QED BY <2>1, OneJudged
<1>10. Board!CreateTask(u)
  <2>1. row = [project |-> row.project, assignee |-> row.assignee, creator |-> u,
               status |-> "TODO", priority |-> row.priority, completedAt |-> FALSE]
    BY <1>4, <1>5 DEF TaskRow
  <2>2. Board!Holds(u, o, Board!Managers) /\ Board!Member(row.assignee, o)
    <3>1. \A x \in Users : Row(users, x) => users[x].role \in Roles
      BY DEF Inv, TypeOK, DataOK, UserTable, UserRow, Row
    <3> QED BY <1>2, <1>5, <1>6, <3>1
            DEF Board!Holds, Board!Member, Board!Managers, Board!Roles, Board!Row, Managers, Roles,
                Row, Within
  <2>3. /\ row.project \in Projects /\ projects[row.project].org = o /\ Board!Row(projects, row.project)
        /\ row.priority \in Board!Priorities /\ row.assignee \in Users \cup {Null}
    BY <1>3, <1>4, <1>5 DEF TaskRow, Within, Row, Board!Row, Board!Priorities, Priorities
  <2>4. tasks' = Board!Insert(tasks, t, row) /\ issued' = issued \cup {t}
    BY <1>8 DEF Insert, Board!Insert
  <2>5. UNCHANGED <<orgs, users, projects>>
    BY DEF CreateInsert
  <2> QED BY <1>8, <2>1, <2>2, <2>3, <2>4, <2>5 DEF Board!CreateTask
<1> QED BY <1>2, <1>9, <1>10 DEF Board!Next

LEMMA UpdateWriteSerial ==
  ASSUME Inv, TenantIntegrity, Serial, AllJudged, NEW r \in Requests, UpdateWrite(r)
  PROVE  AllJudged' /\ Board!Next
<1> DEFINE c == req[r].call
           u == req[r].user.id
           o == req[r].user.org
           row == Patched(tasks[c.id], c)
<1>1. /\ req[r].pc = "update.write" /\ c \in Calls /\ c.op = "updateTask"
      /\ Judged(req[r], users, projects, tasks) /\ c.id \in Tasks
  BY CallsAssumption DEF Inv, TypeOK, RequestsOK, Routed, Held, UpdateWrite, At, AllJudged
<1>2. /\ u \in Users /\ Row(users, u) /\ users[u].org = o /\ users[u].role \in Managers
  BY <1>1, CallerKnown, RouteRoles
<1>3. /\ Row(tasks, c.id) /\ projects[tasks[c.id].project].org = o
      /\ c.assignee \in Users => Within(users, c.assignee, o)
  BY <1>1 DEF Judged, Found
<1>4. tasks[c.id] \in TaskRow
  BY <1>1, <1>3 DEF Inv, TypeOK, DataOK, TaskTable, Row
<1>5. row \in TaskRow
  BY <1>1, <1>4, PatchedOK
<1>6. /\ row = [tasks[c.id] EXCEPT !.assignee = row.assignee, !.priority = row.priority]
      /\ row.assignee \in {tasks[c.id].assignee} \cup (Users \cup {Null})
      /\ row.assignee # tasks[c.id].assignee => row.assignee = c.assignee
  BY <1>4, <1>5 DEF Patched, TaskRow
<1> HIDE DEF row
<1>7. row.assignee # Null => Within(users, row.assignee, o)
  <2>1. tasks[c.id].assignee # Null => Within(users, tasks[c.id].assignee, o)
    BY <1>1, <1>3 DEF TenantIntegrity, Within
  <2> QED BY <1>3, <1>5, <1>6, <2>1 DEF TaskRow
<1>8. TaskKeysHold(row)
  <2>1. TaskKeysHold(tasks[c.id])
    BY <1>1, <1>3 DEF Inv, KeysHold
  <2>2. row.project = tasks[c.id].project /\ row.creator = tasks[c.id].creator
    BY <1>4, <1>6 DEF TaskRow
  <2> QED BY <1>7, <2>1, <2>2 DEF TaskKeysHold, Within
<1>9. tasks' = Insert(tasks, c.id, row) /\ Invalidate(r, StaleLists(c, req[r].row, row), 200)
  BY <1>3, <1>8 DEF UpdateWrite, row
<1>10. AllJudged'
  <2>1. Judged(req'[r], users', projects', tasks')
    BY <1>9, InvalidateJudged
  <2> QED BY <2>1, OneJudged
<1>11. Board!EditTask(u, c.id)
  <2>1. Board!OrgOf(c.id) = o /\ Board!Row(tasks, c.id)
    BY <1>3 DEF Board!OrgOf, Board!Row, Row
  <2>2. Board!Holds(u, o, Board!Managers) /\ Board!Member(row.assignee, o)
    <3>1. \A x \in Users : Row(users, x) => users[x].role \in Roles
      BY DEF Inv, TypeOK, DataOK, UserTable, UserRow, Row
    <3> QED BY <1>2, <1>5, <1>7, <3>1
            DEF Board!Holds, Board!Member, Board!Managers, Board!Roles, Board!Row, Managers, Roles,
                Row, Within, TaskRow
  <2>3. row.assignee \in Users \cup {Null} /\ row.priority \in Board!Priorities
    BY <1>5 DEF TaskRow, Board!Priorities, Priorities
  <2>4. tasks' = [tasks EXCEPT ![c.id] = [tasks[c.id] EXCEPT !.assignee = row.assignee,
                                                            !.priority = row.priority]]
    BY <1>6, <1>9 DEF Insert
  <2>5. tasks' = [tasks EXCEPT ![c.id].assignee = row.assignee, ![c.id].priority = row.priority]
    BY <1>1, <1>4, <2>4 DEF Inv, TypeOK, DataOK, TaskTable, TaskRow
  <2>6. UNCHANGED <<orgs, users, projects, issued>>
    BY DEF UpdateWrite
  <2> QED BY <2>1, <2>2, <2>3, <2>5, <2>6 DEF Board!EditTask
<1> QED BY <1>1, <1>2, <1>10, <1>11 DEF Board!Next

\* A task that may still move has no date, so the write sets exactly what the
\* board sets.
LEMMA StatusWriteSerial ==
  ASSUME Inv, StampMeansDone, Serial, AllJudged, NEW r \in Requests, StatusWrite(r)
  PROVE  AllJudged' /\ Board!Next
<1> DEFINE c == req[r].call
           u == req[r].user.id
           o == req[r].user.org
           t == c.id
           row == Moved(tasks[t], c.status)
<1>1. /\ req[r].pc = "status.write" /\ c \in Calls /\ c.op = "updateTaskStatus"
      /\ Judged(req[r], users, projects, tasks) /\ t \in Tasks /\ c.status \in Statuses
  BY CallsAssumption DEF Inv, TypeOK, RequestsOK, Routed, Held, StatusWrite, At, AllJudged
<1>2. /\ u \in Users /\ Row(users, u) /\ users[u].org = o /\ users[u].role = req[r].user.role
      /\ users[u].role \in Roles
  BY <1>1, CallerKnown
<1>3. /\ Row(tasks, t) /\ projects[tasks[t].project].org = o
      /\ <<tasks[t].status, c.status>> \in AllowedTransitions
      /\ tasks[t].assignee = u \/ users[u].role \in Managers
  BY <1>1, <1>2 DEF Judged, Found, CanMove, MayChangeStatus
<1>4. tasks[t] \in TaskRow
  BY <1>1, <1>3 DEF Inv, TypeOK, DataOK, TaskTable, Row
<1>5. tasks[t].completedAt = FALSE
  <2>1. tasks[t].status # "DONE"
    BY <1>3 DEF AllowedTransitions
  <2>2. tasks[t].completedAt \in BOOLEAN
    BY <1>4 DEF TaskRow
  <2>3. tasks[t].completedAt <=> tasks[t].status = "DONE"
    BY <1>1, <1>3 DEF StampMeansDone
  <2> QED BY <2>1, <2>2, <2>3
<1>6. row = [tasks[t] EXCEPT !.status = c.status, !.completedAt = (c.status = "DONE")]
  <2>1. (IF c.status = "DONE" THEN TRUE ELSE tasks[t].completedAt) = (c.status = "DONE")
    BY <1>5
  <2> QED BY <1>4, <2>1 DEF Moved, TaskRow
<1> HIDE DEF row
<1>7. tasks' = Insert(tasks, t, row) /\ Invalidate(r, ListsOf(row.assignee), 200)
  BY <1>3 DEF StatusWrite, row
<1>8. AllJudged'
  <2>1. Judged(req'[r], users', projects', tasks')
    BY <1>7, InvalidateJudged
  <2> QED BY <2>1, OneJudged
<1>9. Board!MoveTask(u, t)
  <2>1. /\ Board!OrgOf(t) = o /\ Board!Row(tasks, t) /\ Board!Holds(u, o, Board!Roles)
        /\ tasks[t].assignee = u \/ users[u].role \in Board!Managers
        /\ <<tasks[t].status, c.status>> \in Board!AllowedTransitions /\ c.status \in Board!Statuses
    BY <1>1, <1>2, <1>3 DEF Board!OrgOf, Board!Row, Row, Board!Holds, Board!Roles, Roles, Board!Managers,
       Managers, Board!AllowedTransitions, AllowedTransitions, Board!Statuses, Statuses
  <2>2. tasks' = [tasks EXCEPT ![t] = [tasks[t] EXCEPT !.status = c.status,
                                                      !.completedAt = (c.status = "DONE")]]
    BY <1>6, <1>7 DEF Insert
  <2>3. tasks' = [tasks EXCEPT ![t].status = c.status, ![t].completedAt = (c.status = "DONE")]
    BY <1>1, <1>4, <2>2 DEF Inv, TypeOK, DataOK, TaskTable, TaskRow
  <2>4. UNCHANGED <<orgs, users, projects, issued>>
    BY DEF StatusWrite
  <2> QED BY <2>1, <2>3, <2>4 DEF Board!MoveTask
<1> QED BY <1>1, <1>2, <1>8, <1>9 DEF Board!Next

LEMMA DeleteWriteSerial ==
  ASSUME Inv, Serial, AllJudged, NEW r \in Requests, DeleteWrite(r)
  PROVE  AllJudged' /\ Board!Next
<1> DEFINE c == req[r].call
           u == req[r].user.id
           o == req[r].user.org
           t == c.id
<1>1. /\ req[r].pc = "delete.write" /\ c \in Calls /\ c.op = "deleteTask"
      /\ Judged(req[r], users, projects, tasks) /\ t \in Tasks
  BY CallsAssumption DEF Inv, TypeOK, RequestsOK, Routed, Held, DeleteWrite, At, AllJudged
<1>2. /\ u \in Users /\ Row(users, u) /\ users[u].org = o /\ users[u].role \in Managers
  BY <1>1, CallerKnown, RouteRoles
<1>3. /\ Row(tasks, t) /\ projects[tasks[t].project].org = o
  BY <1>1 DEF Judged, Found
<1>4. tasks' = Delete(tasks, t) /\ Invalidate(r, ListsOf(req[r].row.assignee), 200)
  BY <1>3 DEF DeleteWrite
<1>5. AllJudged'
  <2>1. Judged(req'[r], users', projects', tasks')
    BY <1>4, InvalidateJudged
  <2> QED BY <2>1, OneJudged
<1>6. Board!DeleteTask(u, t)
  BY <1>2, <1>3, <1>4 DEF DeleteWrite, Board!DeleteTask, Board!OrgOf, Board!Holds, Board!Managers,
     Managers, Board!Row, Row, Board!Delete, Delete
<1> QED BY <1>1, <1>2, <1>5, <1>6 DEF Board!Next

LEMMA ProjectWriteSerial ==
  ASSUME Inv, RowsIssued, OrgsExist, Serial, AllJudged, NEW r \in Requests,
         ProjectInsert(r) \/ ProjectUpdate(r)
  PROVE  AllJudged' /\ Board!Next
<1> DEFINE c == req[r].call
           u == req[r].user.id
           o == req[r].user.org
<1>1. /\ req[r].pc \in {"project.insert", "project.write"} /\ c \in Calls
      /\ Judged(req[r], users, projects, tasks) /\ c.name \in Names
      /\ c.op \in {"createProject", "updateProject"}
  BY CallsAssumption DEF Inv, TypeOK, RequestsOK, Held, ProjectInsert, ProjectUpdate, At, AllJudged,
     Judged, Kind, Call
<1>2. /\ u \in Users /\ Row(users, u) /\ users[u].org = o /\ users[u].role \in Managers
  BY <1>1, CallerKnown, RouteRoles
<1>3. o \in orgs
  BY <1>2 DEF OrgsExist
<1>4. Board!Holds(u, o, Board!Managers)
  BY <1>2 DEF Board!Holds, Board!Managers, Managers, Board!Row, Row
<1>5. CASE ProjectInsert(r)
  <2>1. PICK p \in Projects \ issued :
          projects' = Insert(projects, p, [org |-> o, name |-> c.name]) /\ issued' = issued \cup {p}
    BY <1>5 DEF ProjectInsert
  <2>2. Board!WriteProject(u)
    BY <1>1, <1>3, <1>4, <1>5, <2>1 DEF ProjectInsert, Board!WriteProject, Board!Insert, Insert
  <2>3. Judged(req'[r], users', projects', tasks')
    BY <1>5, AnswerJudged DEF ProjectInsert
  <2> QED BY <1>2, <2>2, <2>3, OneJudged DEF Board!Next
<1>6. CASE ProjectUpdate(r)
  <2> DEFINE p == c.id
  <2>1. req[r].pc = "project.write" /\ p \in Projects /\ Within(projects, p, o)
    BY <1>1, <1>6, CallsAssumption DEF ProjectUpdate, At, Judged, Found
  <2>2. projects[p] \in ProjectRow /\ projects[p].org = o
    BY <2>1 DEF Within, Row, Inv, TypeOK, DataOK, ProjectTable
  <2>3. projects' = [projects EXCEPT ![p].name = c.name] /\ Answer(r, 200)
    BY <1>6, <2>1 DEF ProjectUpdate, Within
  <2>4. projects' = [projects EXCEPT ![p] = [org |-> o, name |-> c.name]]
    <3>1. [projects[p] EXCEPT !.name = c.name] = [org |-> o, name |-> c.name]
      BY <2>2 DEF ProjectRow
    <3>2. projects' = [projects EXCEPT ![p] = [projects[p] EXCEPT !.name = c.name]]
      BY <2>1, <2>3 DEF Inv, TypeOK, DataOK, ProjectTable
    <3> QED BY <3>1, <3>2
  <2>5. issued' = issued \cup {p}
    BY <1>6, <2>1 DEF ProjectUpdate, RowsIssued, Within
  <2>6. Board!WriteProject(u)
    BY <1>1, <1>3, <1>4, <1>6, <2>1, <2>2, <2>4, <2>5
       DEF ProjectUpdate, Within, Board!WriteProject, Board!Insert, Board!Row, Row
  <2>7. Judged(req'[r], users', projects', tasks')
    BY <2>3, AnswerJudged
  <2> QED BY <1>2, <2>6, <2>7, OneJudged DEF Board!Next
<1> QED BY <1>5, <1>6

\* A deletion that fails meets the foreign key; the answer says so.
LEMMA FailureJudged ==
  ASSUME Inv, NEW r \in Requests, Answer(r, 500),
         \/ req[r].call.op = "deleteProject" /\ HasTasks(req[r].call.id)
         \/ req[r].call.op = "deleteUser" /\ HasCreated(req[r].call.id)
  PROVE  Judged(req'[r], users, projects, tasks)
<1>1. req' = [req EXCEPT ![r] = Answered(req[r].call, req[r].user, 500, Null)]
  BY DEF Answer, Inv, TypeOK, RequestsOK
<1>2. req'[r].pc = "done" /\ req'[r].call = req[r].call
  BY <1>1 DEF Answered, Idle, Inv, TypeOK, RequestsOK
<1> QED BY <1>2 DEF Judged, Kind, Found, Explained, HasTasks, HasCreated

LEMMA ProjectDeleteSerial ==
  ASSUME Inv, Serial, AllJudged, NEW r \in Requests, ProjectDelete(r)
  PROVE  AllJudged' /\ (Board!Next \/ UNCHANGED tables)
<1> DEFINE c == req[r].call
           u == req[r].user.id
           o == req[r].user.org
           p == c.id
<1>1. /\ req[r].pc = "project.write" /\ c \in Calls /\ c.op = "deleteProject"
      /\ Judged(req[r], users, projects, tasks) /\ p \in Projects
  BY CallsAssumption DEF Inv, TypeOK, RequestsOK, Held, ProjectDelete, At, AllJudged
<1>2. /\ u \in Users /\ Row(users, u) /\ users[u].org = o /\ users[u].role = "ADMIN"
  BY <1>1, CallerKnown, RouteRoles
<1>3. Within(projects, p, o)
  BY <1>1 DEF Judged, Found
<1>4. CASE ProjectDeletable(p)
  <2>1. projects' = Delete(projects, p) /\ Answer(r, 200)
    BY <1>4 DEF ProjectDelete
  <2>2. Judged(req'[r], users', projects', tasks')
    BY <2>1, AnswerJudged
  <2>3. Board!DeleteProject(u, p)
    BY <1>2, <1>3, <1>4, <2>1 DEF ProjectDelete, ProjectDeletable, HasTasks, Within, Row, Delete,
       Board!DeleteProject, Board!Holds, Board!HasTasks, Board!Row, Board!Delete
  <2> QED BY <1>1, <1>2, <2>2, <2>3, OneJudged DEF Board!Next
<1>5. CASE ~ProjectDeletable(p)
  <2>1. HasTasks(p)
    BY <1>3, <1>5 DEF ProjectDeletable, Within
  <2>2. Answer(r, 500) /\ users' = users /\ projects' = projects /\ tasks' = tasks /\ UNCHANGED tables
    BY <1>5 DEF ProjectDelete, tables
  <2>3. Judged(req'[r], users, projects, tasks)
    BY <1>1, <2>1, <2>2, FailureJudged
  <2> QED BY <2>2, <2>3, OneJudged
<1> QED BY <1>4, <1>5

(* ---- accounts ------------------------------------------------------------------------ *)

LEMMA AddressFree ==
  ASSUME AllJudged, NEW r \in Requests, req[r].pc \in {"register.insert", "invite.insert"}
  PROVE  ~EmailTaken(req[r].call.email) /\ ~Board!EmailTaken(req[r].call.email)
BY DEF AllJudged, Judged, Found, EmailTaken, Board!EmailTaken, Row, Board!Row

LEMMA RegisterInsertSerial ==
  ASSUME Inv, Serial, AllJudged, NEW r \in Requests, RegisterInsert(r)
  PROVE  AllJudged' /\ Board!Next
<1> DEFINE e == req[r].call.email
<1>1. req[r].pc = "register.insert" /\ e \in Emails
  BY CallsAssumption DEF Inv, TypeOK, RequestsOK, Held, RegisterInsert, At, Call
<1>2. ~EmailTaken(e) /\ ~Board!EmailTaken(e)
  BY <1>1, AddressFree
<1>3. PICK o \in Orgs \ orgs, v \in Users \ issued :
        orgs' = orgs \cup {o} /\ AddUser(v, o, "ADMIN", e)
  BY <1>2 DEF RegisterInsert
<1>4. Answer(r, 201) /\ UNCHANGED <<projects, tasks>>
  BY <1>2 DEF RegisterInsert
<1>5. Judged(req'[r], users', projects', tasks')
  BY <1>4, AnswerJudged
<1>6. Board!AddAccount
  BY <1>1, <1>2, <1>3, <1>4 DEF AddUser, Insert, Board!Insert, Board!AddAccount, Board!Roles
<1> QED BY <1>5, <1>6, OneJudged DEF Board!Next

LEMMA InviteInsertSerial ==
  ASSUME Inv, OrgsExist, Serial, AllJudged, NEW r \in Requests, InviteInsert(r)
  PROVE  AllJudged' /\ Board!Next
<1> DEFINE c == req[r].call
           e == c.email
           u == req[r].user.id
           o == req[r].user.org
<1>1. /\ req[r].pc = "invite.insert" /\ e \in Emails /\ c.role \in Roles /\ c.op = "inviteUser"
  BY CallsAssumption DEF Inv, TypeOK, RequestsOK, Held, InviteInsert, At, Call, AllJudged, Judged, Kind
<1>2. ~EmailTaken(e) /\ ~Board!EmailTaken(e)
  BY <1>1, AddressFree
<1>3. /\ u \in Users /\ o \in Orgs /\ Row(users, u) /\ users[u].org = o /\ users[u].role = "ADMIN"
      /\ c.role # "ADMIN"
  BY <1>1, CallerKnown, RouteRoles DEF Valid
<1>4. PICK v \in Users \ issued : AddUser(v, o, c.role, e)
  BY <1>2 DEF InviteInsert
<1>5. Answer(r, 201) /\ UNCHANGED <<orgs, projects, tasks>>
  BY <1>2 DEF InviteInsert
<1>6. Judged(req'[r], users', projects', tasks')
  BY <1>5, AnswerJudged
<1>7. orgs' = orgs \cup {o}
  BY <1>3, <1>5 DEF OrgsExist
<1>8. Board!Holds(u, o, {"ADMIN"})
  BY <1>3 DEF Board!Holds, Board!Row, Row
<1>9. Board!AddAccount
  BY <1>1, <1>2, <1>3, <1>4, <1>5, <1>7, <1>8
     DEF AddUser, Insert, Board!Insert, Board!AddAccount, Board!Roles, Roles
<1> QED BY <1>6, <1>9, OneJudged DEF Board!Next

\* What both writes on an account know: the caller is an ADMIN, somebody
\* else, of the same organization.
LEMMA TargetKnown ==
  ASSUME Inv, AllJudged, NEW r \in Requests, req[r].pc = "user.write"
  PROVE  /\ req[r].call \in Calls /\ req[r].call.op \in {"updateUserRole", "deleteUser"}
         /\ req[r].call.id \in Users /\ Row(users, req[r].call.id)
         /\ req[r].user.id \in Users /\ req[r].user.id # req[r].call.id
         /\ Board!Holds(req[r].user.id, users[req[r].call.id].org, {"ADMIN"})
<1>1. req[r].call \in Calls /\ Judged(req[r], users, projects, tasks)
  BY DEF AllJudged, Inv, TypeOK, RequestsOK, Held
<1>2. req[r].call.op \in {"updateUserRole", "deleteUser"} /\ Within(users, req[r].call.id, req[r].user.org)
  BY <1>1 DEF Judged, Kind, Found
<1> QED BY <1>1, <1>2, CallsAssumption, CallerKnown, RouteRoles
        DEF Within, OwnAccount, Board!Holds, Board!Row, Row

LEMMA RoleWriteSerial ==
  ASSUME Inv, Serial, AllJudged, NEW r \in Requests, RoleWrite(r)
  PROVE  AllJudged' /\ Board!Next
<1> DEFINE c == req[r].call
<1>1. /\ c \in Calls /\ c.id \in Users /\ Row(users, c.id)
      /\ req[r].user.id \in Users /\ req[r].user.id # c.id
      /\ Board!Holds(req[r].user.id, users[c.id].org, {"ADMIN"})
  BY TargetKnown DEF RoleWrite, At
<1>2. c.role \in Board!Roles
  BY <1>1, CallsAssumption DEF Call, Roles, Board!Roles
<1>3. users' = [users EXCEPT ![c.id].role = c.role] /\ Answer(r, 200)
  BY <1>1 DEF RoleWrite
<1>4. Judged(req'[r], users', projects', tasks')
  BY <1>3, AnswerJudged
<1>5. Board!ChangeRole(req[r].user.id, c.id)
  BY <1>1, <1>2, <1>3 DEF RoleWrite, Board!ChangeRole, Board!Row, Row
<1> QED BY <1>1, <1>4, <1>5, OneJudged DEF Board!Next

LEMMA UserDeleteSerial ==
  ASSUME Inv, Serial, AllJudged, NEW r \in Requests, UserDelete(r)
  PROVE  AllJudged' /\ (Board!Next \/ UNCHANGED tables)
<1> DEFINE v == req[r].call.id
<1>1. /\ v \in Users /\ Row(users, v) /\ req[r].call.op = "deleteUser"
      /\ req[r].user.id \in Users /\ req[r].user.id # v
      /\ Board!Holds(req[r].user.id, users[v].org, {"ADMIN"})
  BY TargetKnown DEF UserDelete, At
<1>2. CASE ~HasCreated(v)
  <2>1. users' = Delete(users, v) /\ tasks' = UnassignAll(v) /\ Answer(r, 200)
    BY <1>1, <1>2 DEF UserDelete
  <2>2. Judged(req'[r], users', projects', tasks')
    BY <2>1, AnswerJudged
  <2>3. Board!RemoveAccount(req[r].user.id, v)
    BY <1>1, <1>2, <2>1 DEF UserDelete, HasCreated, UnassignAll, Row, Delete,
       Board!RemoveAccount, Board!HasCreated, Board!UnassignAll, Board!Row, Board!Delete
  <2> QED BY <1>1, <2>2, <2>3, OneJudged DEF Board!Next
<1>3. CASE HasCreated(v)
  <2>1. Answer(r, 500) /\ users' = users /\ projects' = projects /\ tasks' = tasks /\ UNCHANGED tables
    BY <1>3 DEF UserDelete, tables
  <2>2. Judged(req'[r], users, projects, tasks)
    BY <1>1, <1>3, <2>1, FailureJudged
  <2> QED BY <2>1, <2>2, OneJudged
<1> QED BY <1>2, <1>3

(* ---- what the operations of the board keep --------------------------------------------- *)

LEMMA BoardKeepsOrgs ==
  ASSUME Inv, OrgsExist, Board!Next
  PROVE  OrgsExist'
<1>1. users \in UserTable
  BY DEF Inv, TypeOK, DataOK
<1>2. ASSUME NEW u \in Users, users'[u] # Null,
             orgs \subseteq orgs', users[u] # Null => users'[u].org = users[u].org,
             users[u] = Null => users'[u].org \in orgs'
      PROVE  users'[u].org \in orgs'
  BY <1>2 DEF OrgsExist, Row
<1>3. CASE Board!AddAccount
  <2>1. PICK v \in Users, o \in Orgs, role \in Board!Roles, e \in Emails :
          /\ orgs' = orgs \cup {o}
          /\ users' = [users EXCEPT ![v] = [org |-> o, role |-> role, email |-> e]]
    BY <1>3 DEF Board!AddAccount, Board!Insert
  <2>2. \A u \in Users : users'[u] # Null =>
          users'[u].org = o \/ (users[u] # Null /\ users'[u] = users[u])
    BY <1>1, <2>1 DEF UserTable
  <2> QED BY <2>1, <2>2 DEF OrgsExist, Row
<1>4. ASSUME NEW u \in Users, NEW v \in Users, Board!ChangeRole(u, v)
      PROVE  OrgsExist'
  <2>1. PICK role : users' = [users EXCEPT ![v].role = role]
    BY <1>4 DEF Board!ChangeRole
  <2>2. users[v] \in UserRow /\ orgs' = orgs
    BY <1>1, <1>4 DEF Board!ChangeRole, Board!Row, UserTable
  <2>3. \A x \in Users : users'[x] # Null => users[x] # Null /\ users'[x].org = users[x].org
    BY <1>1, <1>4, <2>1, <2>2 DEF Board!ChangeRole, Board!Row, UserTable, UserRow
  <2> QED BY <2>2, <2>3 DEF OrgsExist, Row
<1>5. ASSUME NEW u \in Users, NEW v \in Users, Board!RemoveAccount(u, v)
      PROVE  OrgsExist'
  BY <1>1, <1>5 DEF Board!RemoveAccount, Board!Delete, UserTable, OrgsExist, Row
<1>6. CASE UNCHANGED <<orgs, users>>
  BY <1>6 DEF OrgsExist, Row
<1> QED BY <1>3, <1>4, <1>5, <1>6
        DEF Board!Next, Board!CreateTask, Board!WriteProject, Board!EditTask, Board!MoveTask,
            Board!DeleteTask, Board!DeleteProject

\* Every task after the step is new and open, or is stamped as it was, or was
\* moved and stamped by that move.
LEMMA BoardKeepsStamp ==
  ASSUME Inv, StampMeansDone, Board!Next
  PROVE  StampMeansDone'
<1>1. tasks \in TaskTable
  BY DEF Inv, TypeOK, DataOK
<1>2. ASSUME \A t \in Tasks : tasks'[t] # Null =>
               \/ /\ tasks[t] # Null /\ tasks'[t].status = tasks[t].status
                  /\ tasks'[t].completedAt = tasks[t].completedAt
               \/ tasks'[t].completedAt = (tasks'[t].status = "DONE")
      PROVE  StampMeansDone'
  BY <1>2 DEF StampMeansDone, Row
<1>3. ASSUME NEW u \in Users, Board!CreateTask(u)
      PROVE  StampMeansDone'
  <2>1. PICK t \in Tasks, p \in Projects, a \in Users \cup {Null}, pr \in Board!Priorities :
          tasks' = [tasks EXCEPT ![t] = [project |-> p, assignee |-> a, creator |-> u,
                      status |-> "TODO", priority |-> pr, completedAt |-> FALSE]]
    BY <1>3 DEF Board!CreateTask, Board!Insert
  <2>2. \A x \in Tasks : x # t => tasks'[x] = tasks[x]
    BY <1>1, <2>1 DEF TaskTable
  <2>3. tasks'[t].status = "TODO" /\ tasks'[t].completedAt = FALSE
    BY <1>1, <2>1 DEF TaskTable
  <2> QED BY <2>2, <2>3 DEF StampMeansDone, Row
<1>4. ASSUME NEW u \in Users, NEW t \in Tasks, Board!EditTask(u, t)
      PROVE  StampMeansDone'
  <2>1. PICK a, p : tasks' = [tasks EXCEPT ![t].assignee = a, ![t].priority = p]
    BY <1>4 DEF Board!EditTask
  <2>2. tasks[t] \in TaskRow /\ tasks[t] # Null
    BY <1>1, <1>4 DEF Board!EditTask, Board!Row, TaskTable
  <2>3. /\ tasks'[t].status = tasks[t].status /\ tasks'[t].completedAt = tasks[t].completedAt
        /\ \A x \in Tasks : x # t => tasks'[x] = tasks[x]
    BY <1>1, <2>1, <2>2 DEF TaskTable, TaskRow
  <2> QED BY <2>2, <2>3, <1>2
<1>5. ASSUME NEW u \in Users, NEW t \in Tasks, Board!MoveTask(u, t)
      PROVE  StampMeansDone'
  <2>1. PICK s : tasks' = [tasks EXCEPT ![t].status = s, ![t].completedAt = (s = "DONE")]
    BY <1>5 DEF Board!MoveTask
  <2>2. tasks[t] \in TaskRow /\ tasks[t] # Null
    BY <1>1, <1>5 DEF Board!MoveTask, Board!Row, TaskTable
  <2>3. /\ tasks'[t].status = s /\ tasks'[t].completedAt = (s = "DONE")
        /\ \A x \in Tasks : x # t => tasks'[x] = tasks[x]
    BY <1>1, <2>1, <2>2 DEF TaskTable, TaskRow
  <2>4. \A x \in Tasks : tasks'[x] # Null =>
               \/ /\ tasks[x] # Null /\ tasks'[x].status = tasks[x].status
                  /\ tasks'[x].completedAt = tasks[x].completedAt
               \/ tasks'[x].completedAt = (tasks'[x].status = "DONE")
    BY <2>3
  <2> QED BY <2>4, <1>2
<1>6. ASSUME NEW u \in Users, NEW t \in Tasks, Board!DeleteTask(u, t)
      PROVE  StampMeansDone'
  BY <1>1, <1>6 DEF Board!DeleteTask, Board!Delete, TaskTable, StampMeansDone, Row
<1>7. ASSUME NEW u \in Users, NEW v \in Users, Board!RemoveAccount(u, v)
      PROVE  StampMeansDone'
  <2>1. tasks' = Board!UnassignAll(v)
    BY <1>7 DEF Board!RemoveAccount
  <2>2. \A x \in Tasks : tasks'[x] # Null =>
          /\ tasks[x] # Null /\ tasks'[x].status = tasks[x].status
          /\ tasks'[x].completedAt = tasks[x].completedAt
    BY <1>1, <2>1 DEF Board!UnassignAll, Board!Row, TaskTable, TaskRow
  <2> QED BY <2>2, <1>2
<1>8. CASE tasks' = tasks
  BY <1>8 DEF StampMeansDone, Row
<1> QED BY <1>3, <1>4, <1>5, <1>6, <1>7, <1>8
        DEF Board!Next, Board!AddAccount, Board!WriteProject, Board!DeleteProject, Board!ChangeRole

\* An ADMIN cannot demote or delete itself, so the one who changes an account
\* is an ADMIN of its organization afterwards.
LEMMA BoardKeepsAdmins ==
  ASSUME Inv, RowsIssued, EveryOrgHasAdmin, Board!Next
  PROVE  EveryOrgHasAdmin'
<1>1. users \in UserTable
  BY DEF Inv, TypeOK, DataOK
<1>2. CASE Board!AddAccount
  <2>1. PICK v \in Users \ issued, o \in Orgs, role \in Board!Roles, e \in Emails :
          /\ (o \notin orgs /\ role = "ADMIN") \/ (\E u \in Users : Board!Holds(u, o, {"ADMIN"}))
          /\ orgs' = orgs \cup {o}
          /\ users' = [users EXCEPT ![v] = [org |-> o, role |-> role, email |-> e]]
    BY <1>2 DEF Board!AddAccount, Board!Insert
  <2>2. ~Row(users, v)
    BY <2>1 DEF RowsIssued
  <2>3. \A u \in Users : Row(users, u) => users'[u] = users[u] /\ users'[u] # Null
    BY <1>1, <2>1, <2>2 DEF UserTable, Row
  <2>4. ASSUME NEW x \in orgs PROVE \E u \in Users : users'[u] # Null /\ users'[u].org = x /\ users'[u].role = "ADMIN"
    BY <2>3 DEF EveryOrgHasAdmin
  <2>5. \E u \in Users : users'[u] # Null /\ users'[u].org = o /\ users'[u].role = "ADMIN"
    <3>1. CASE role = "ADMIN"
      <4>1. users'[v] = [org |-> o, role |-> role, email |-> e]
        BY <1>1, <2>1 DEF UserTable
      <4>2. users'[v] \in UserRow
        BY <4>1 DEF UserRow, Roles, Board!Roles
      <4> QED BY <3>1, <4>1, <4>2, SchemaAssumption
    <3>2. CASE \E u \in Users : Board!Holds(u, o, {"ADMIN"})
      BY <2>3, <3>2 DEF Board!Holds, Board!Row, Row
    <3> QED BY <2>1, <3>1, <3>2
  <2> QED BY <2>1, <2>4, <2>5 DEF EveryOrgHasAdmin, Row
<1>3. ASSUME NEW u \in Users, NEW v \in Users,
             Board!ChangeRole(u, v) \/ Board!RemoveAccount(u, v)
      PROVE  EveryOrgHasAdmin'
  <2>1. /\ u # v /\ Row(users, u) /\ users[u].org = users[v].org /\ users[u].role = "ADMIN"
        /\ orgs' = orgs
    BY <1>3 DEF Board!ChangeRole, Board!RemoveAccount, Board!Holds, Board!Row, Row
  <2>2. \A x \in Users : x # v => users'[x] = users[x]
    BY <1>1, <1>3 DEF Board!ChangeRole, Board!RemoveAccount, Board!Delete, UserTable
  <2>3. ASSUME NEW o \in orgs
        PROVE  \E x \in Users : users'[x] # Null /\ users'[x].org = o /\ users'[x].role = "ADMIN"
    <3>1. PICK w \in Users : Row(users, w) /\ users[w].org = o /\ users[w].role = "ADMIN"
      BY DEF EveryOrgHasAdmin
    <3>2. CASE w = v
      BY <2>1, <2>2, <3>1, <3>2 DEF Row
    <3>3. CASE w # v
      BY <2>2, <3>1, <3>3 DEF Row
    <3> QED BY <3>2, <3>3
  <2> QED BY <2>1, <2>3 DEF EveryOrgHasAdmin, Row
<1>4. CASE UNCHANGED <<orgs, users>>
  BY <1>4 DEF EveryOrgHasAdmin, Row
<1> QED BY <1>2, <1>3, <1>4
        DEF Board!Next, Board!CreateTask, Board!WriteProject, Board!EditTask, Board!MoveTask,
            Board!DeleteTask, Board!DeleteProject

\* What WorkflowHolds asks of one step.
WorkflowStep ==
  \A t \in Tasks : Row(tasks, t) /\ Row(tasks', t) =>
    \/ tasks'[t].status = tasks[t].status
    \/ <<tasks[t].status, tasks'[t].status>> \in AllowedTransitions

\* Only MoveTask changes a status; what CreateTask inserts was no row before,
\* because no id is issued twice.
LEMMA BoardKeepsWorkflow ==
  ASSUME Inv, RowsIssued, Board!Next
  PROVE  WorkflowStep
<1>1. tasks \in TaskTable
  BY DEF Inv, TypeOK, DataOK
<1>2. ASSUME \A t \in Tasks : tasks[t] # Null /\ tasks'[t] # Null => tasks'[t].status = tasks[t].status
      PROVE  WorkflowStep
  BY <1>2 DEF WorkflowStep, Row
<1>3. ASSUME NEW u \in Users, Board!CreateTask(u)
      PROVE  WorkflowStep
  <2>1. PICK t \in Tasks \ issued : \E row : tasks' = [tasks EXCEPT ![t] = row]
    BY <1>3 DEF Board!CreateTask, Board!Insert
  <2>2. tasks[t] = Null /\ \A x \in Tasks : x # t => tasks'[x] = tasks[x]
    BY <1>1, <2>1 DEF TaskTable, RowsIssued, Row
  <2> QED BY <2>2, <1>2
<1>4. ASSUME NEW u \in Users, NEW t \in Tasks, Board!EditTask(u, t)
      PROVE  WorkflowStep
  <2>1. PICK a, p : tasks' = [tasks EXCEPT ![t].assignee = a, ![t].priority = p]
    BY <1>4 DEF Board!EditTask
  <2>2. tasks[t] \in TaskRow
    BY <1>1, <1>4 DEF Board!EditTask, Board!Row, TaskTable
  <2>3. tasks'[t].status = tasks[t].status /\ \A x \in Tasks : x # t => tasks'[x] = tasks[x]
    BY <1>1, <2>1, <2>2 DEF TaskTable, TaskRow
  <2> QED BY <2>3, <1>2
<1>5. ASSUME NEW u \in Users, NEW t \in Tasks, Board!MoveTask(u, t)
      PROVE  WorkflowStep
  <2>1. PICK s : /\ <<tasks[t].status, s>> \in Board!AllowedTransitions
                 /\ tasks' = [tasks EXCEPT ![t].status = s, ![t].completedAt = (s = "DONE")]
    BY <1>5 DEF Board!MoveTask
  <2>2. tasks[t] \in TaskRow
    BY <1>1, <1>5 DEF Board!MoveTask, Board!Row, TaskTable
  <2>3. tasks'[t].status = s /\ \A x \in Tasks : x # t => tasks'[x] = tasks[x]
    BY <1>1, <2>1, <2>2 DEF TaskTable, TaskRow
  <2>4. Board!AllowedTransitions = AllowedTransitions
    BY DEF Board!AllowedTransitions, AllowedTransitions
  <2> QED BY <2>1, <2>3, <2>4 DEF WorkflowStep
<1>6. ASSUME NEW u \in Users, NEW t \in Tasks, Board!DeleteTask(u, t)
      PROVE  WorkflowStep
  BY <1>1, <1>2, <1>6 DEF Board!DeleteTask, Board!Delete, TaskTable
<1>7. ASSUME NEW u \in Users, NEW v \in Users, Board!RemoveAccount(u, v)
      PROVE  WorkflowStep
  <2>1. tasks' = Board!UnassignAll(v)
    BY <1>7 DEF Board!RemoveAccount
  <2>2. \A x \in Tasks : tasks[x] # Null => tasks'[x].status = tasks[x].status
    BY <1>1, <2>1 DEF Board!UnassignAll, Board!Row, TaskTable, TaskRow
  <2> QED BY <2>2, <1>2
<1>8. CASE tasks' = tasks
  BY <1>2, <1>8
<1> QED BY <1>3, <1>4, <1>5, <1>6, <1>7, <1>8
        DEF Board!Next, Board!AddAccount, Board!WriteProject, Board!DeleteProject, Board!ChangeRole

(* ---- the refinement ---------------------------------------------------------------------- *)

LEMMA TablesKeepSerial ==
  ASSUME OrgsExist, StampMeansDone, UNCHANGED tables
  PROVE  OrgsExist' /\ StampMeansDone' /\ (EveryOrgHasAdmin => EveryOrgHasAdmin')
<1>1. UNCHANGED <<orgs, users, tasks>>
  BY DEF tables
<1> QED BY <1>1 DEF OrgsExist, StampMeansDone, EveryOrgHasAdmin, Row

LEMMA StepSerial ==
  ASSUME Inv, Tenancy, Serial, SerialInv, [Next]_vars
  PROVE  AllJudged' /\ (Board!Next \/ UNCHANGED tables)
<1>0. /\ AllJudged /\ OrgsExist /\ StampMeansDone /\ RowsIssued /\ TenantIntegrity
  BY DEF SerialInv, Tenancy
<1>1. ASSUME NEW r \in Requests, ArrivePublic(r) \/ Arrive(r) \/ Reply(r)
      PROVE  AllJudged' /\ UNCHANGED tables
  BY <1>0, <1>1, QuietJudged DEF ArrivePublic, Arrive, Reply
<1>2. ASSUME NEW r \in Requests, TasksNext(r)
      PROVE  AllJudged' /\ (Board!Next \/ UNCHANGED tables)
  <2>1. CASE CreateInsert(r) \/ UpdateWrite(r) \/ StatusWrite(r) \/ DeleteWrite(r)
    BY <1>0, <2>1, CreateInsertSerial, UpdateWriteSerial, StatusWriteSerial, DeleteWriteSerial
  <2>2. CASE CreateAssignee(r) \/ CreateProjectCheck(r) \/ UpdateFind(r) \/ UpdateAssignee(r)
    BY <1>0, <2>2, QuietJudged DEF CreateAssignee, CreateProjectCheck, UpdateFind, UpdateAssignee
  <2>3. CASE \/ ListGet(r) \/ ListQuery(r) \/ ListStore(r) \/ ListTrack(r) \/ GetFind(r)
             \/ StatusFind(r) \/ DeleteFind(r)
             \/ InvalMembers(r) \/ InvalDelete(r) \/ InvalClear(r) \/ RedisError(r)
    BY <1>0, <2>3, QuietJudged, ReadsPlain
  <2> QED BY <1>2, <2>1, <2>2, <2>3 DEF TasksNext
<1>3. ASSUME NEW r \in Requests, ProjectsNext(r) \/ AccountsNext(r)
      PROVE  AllJudged' /\ (Board!Next \/ UNCHANGED tables)
  <2>1. CASE ProjectFind(r) \/ AccountFind(r) \/ UserFind(r)
    BY <1>0, <2>1, QuietJudged, ReadsPlain
  <2>2. CASE ~(ProjectFind(r) \/ AccountFind(r) \/ UserFind(r))
    BY <1>0, <1>3, <2>2, ProjectWriteSerial, ProjectDeleteSerial, RegisterInsertSerial,
       InviteInsertSerial, RoleWriteSerial, UserDeleteSerial DEF ProjectsNext, AccountsNext
  <2> QED BY <2>1, <2>2
<1>4. CASE Crash
  <2>1. \A r \in Requests : req'[r].pc = "idle"
    BY <1>4 DEF Crash, Idle
  <2>2. \A r \in Requests : Judged(req'[r], users', projects', tasks')
    BY <2>1, RestJudged
  <2>3. AllJudged'
    BY <2>2, OneJudged DEF AllJudged, Judged, Caller, Kind, Found, Within, Explained, Row, Authorized, Admitted,
       Valid, OwnAccount, CanMove, MayChangeStatus
  <2> QED BY <1>4, <2>3 DEF Crash
<1>5. CASE UNCHANGED vars \/ \E k \in Key : EntryExpires(k)
  <2>1. UNCHANGED <<tables, req>>
    BY <1>5 DEF vars, EntryExpires
  <2>2. users' = users /\ projects' = projects /\ tasks' = tasks /\ req' = req
    BY <2>1 DEF tables
  <2>3. \A r \in Requests : Judged(req'[r], users', projects', tasks')
    BY <1>0, <2>2 DEF AllJudged
  <2>4. AllJudged'
    BY <2>3 DEF AllJudged, Judged, Caller, Kind, Found, Within, Explained, Row, Authorized, Admitted,
       Valid, OwnAccount, CanMove, MayChangeStatus
  <2> QED BY <2>1, <2>4
<1> QED BY <1>1, <1>2, <1>3, <1>4, <1>5 DEF Next, Step

LEMMA NextSerial ==
  ASSUME Inv, Tenancy, Serial, SerialInv, [Next]_vars
  PROVE  /\ SerialInv' /\ (EveryOrgHasAdmin => EveryOrgHasAdmin')
         /\ [Board!Next]_(Board!tables)
<1>1. AllJudged' /\ (Board!Next \/ UNCHANGED tables)
  BY StepSerial
<1>2. CASE Board!Next
  BY <1>1, <1>2, BoardKeepsOrgs, BoardKeepsStamp, BoardKeepsAdmins DEF SerialInv, Tenancy
<1>3. CASE UNCHANGED tables
  BY <1>1, <1>3, TablesKeepSerial DEF SerialInv, tables, Board!tables
<1> QED BY <1>1, <1>2, <1>3

LEMMA InitSerial == Init => SerialInv /\ Board!SchemaInit
<1> SUFFICES ASSUME Init PROVE SerialInv /\ Board!SchemaInit
  OBVIOUS
<1>1. AllJudged
  BY RestJudged DEF Init, RequestInit, Idle, AllJudged
<1>2. OrgsExist /\ StampMeansDone
  BY SchemaAssumption DEF Init, SchemaInit, LegalTables, OrgsExist, StampMeansDone, Row
<1>3. Board!SchemaInit
  BY DEF Init, SchemaInit, Board!SchemaInit, Board!Row, Row
<1> QED BY <1>1, <1>2, <1>3 DEF SerialInv

\* Requests handled one at a time change the tables as the board permits,
\* wherever the process dies and whatever Redis does.
THEOREM BoardImplemented ==
  ASSUME Serial PROVE Spec => BoardSpec
<1>1. Inv /\ Tenancy /\ SerialInv /\ [Next]_vars
        => Inv' /\ Tenancy' /\ SerialInv' /\ [Board!Next]_(Board!tables)
  BY NextInv, NextTenancy, NextSerial
<1> QED BY <1>1, InitInv, InitTenancy, InitSerial, PTL DEF Spec, BoardSpec, Board!Spec

\* One request at a time a task is stamped exactly when DONE: what moves was
\* not DONE, hence had no date to keep.
THEOREM StampsMeanDone ==
  ASSUME Serial PROVE Spec => []StampMeansDone
<1>1. Inv /\ Tenancy /\ SerialInv /\ [Next]_vars => Inv' /\ Tenancy' /\ SerialInv'
  BY NextInv, NextTenancy, NextSerial
<1>2. SerialInv => StampMeansDone
  BY DEF SerialInv
<1> QED BY <1>1, <1>2, InitInv, InitTenancy, InitSerial, PTL DEF Spec

\* One request at a time no organization that has an ADMIN loses its last one.
THEOREM AdminsStay ==
  ASSUME Serial PROVE Spec /\ EveryOrgHasAdmin => []EveryOrgHasAdmin
<1>1. Inv /\ Tenancy /\ SerialInv /\ EveryOrgHasAdmin /\ [Next]_vars
        => Inv' /\ Tenancy' /\ SerialInv' /\ EveryOrgHasAdmin'
  BY NextInv, NextTenancy, NextSerial
<1> QED BY <1>1, InitInv, InitTenancy, InitSerial, PTL DEF Spec

\* One request at a time the only answers 500 are deletions that a foreign
\* key restricts: no other look-up is contradicted by its write.
THEOREM ErrorsAreRestrictions ==
  ASSUME Serial PROVE Spec => []ServerErrorsAreRestrictions
<1>1. Inv /\ Tenancy /\ SerialInv /\ [Next]_vars => Inv' /\ Tenancy' /\ SerialInv'
  BY NextInv, NextTenancy, NextSerial
<1>2. SerialInv => ServerErrorsAreRestrictions
  BY DEF SerialInv, AllJudged, Judged, Explained, ServerErrorsAreRestrictions, At, HasTasks, HasCreated
<1> QED BY <1>1, <1>2, InitInv, InitTenancy, InitSerial, PTL DEF Spec

\* One request at a time a task's status changes only along the allowed
\* transitions: the status a move was judged by is the one it overwrites.
THEOREM WorkflowIsKept ==
  ASSUME Serial PROVE Spec => WorkflowHolds
<1>1. Inv /\ Tenancy /\ SerialInv /\ [Next]_vars => Inv' /\ Tenancy' /\ SerialInv'
  BY NextInv, NextTenancy, NextSerial
<1>2. ASSUME Inv, Tenancy, SerialInv, [Next]_vars
      PROVE  [\A t \in Tasks : Row(tasks, t) /\ Row(tasks, t)' =>
                \/ tasks'[t].status = tasks[t].status
                \/ <<tasks[t].status, tasks'[t].status>> \in AllowedTransitions]_tables
  <2>1. Board!Next \/ UNCHANGED tables
    BY <1>2, StepSerial
  <2>2. CASE Board!Next
    BY <1>2, <2>2, BoardKeepsWorkflow DEF WorkflowStep, Tenancy, Row
  <2> QED BY <2>1, <2>2
<1> QED BY <1>1, <1>2, InitInv, InitTenancy, InitSerial, PTL DEF Spec, WorkflowHolds
=============================================================================
