--------------------------- MODULE TenancyProofs ---------------------------
(***************************************************************************)
(* Tasks stay inside their organization and a DONE task keeps its date,    *)
(* for every set of users, projects, tasks, calls and request slots.       *)
(*                                                                         *)
(* A handler looks a user, a project or a task up and writes some awaits   *)
(* later.  What the look-up found is not true any more by then: the row    *)
(* may be gone.  But an id is given out once and no write moves a row to   *)
(* another organization, so the row is where it was, or the foreign key    *)
(* refuses the write.                                                      *)
(***************************************************************************)
EXTENDS TrackerProofs

(* ---- the invariant ------------------------------------------------------ *)

\* Every row has an id that was given out.
RowsIssued ==
  /\ \A u \in Users : Row(users, u) => u \in issued
  /\ \A p \in Projects : Row(projects, p) => p \in issued
  /\ \A t \in Tasks : Row(tasks, t) => t \in issued

\* The id x was given out to a row of organization o, now there or gone.
WasIn(table, ids, x, o) == x \in ids /\ (Row(table, x) => table[x].org = o)
TaskWasIn(ps, ts, ids, t, o) == t \in ids /\ (Row(ts, t) => ps[ts[t].project].org = o)

\* What a handler has established before each await, in terms of the tables
\* us, ps, ts and the ids given out.
Established(q, us, ps, ts, ids) ==
  LET o == q.user.org
      c == q.call
  IN /\ q.pc \in HandlerPCs \ PublicPCs => WasIn(us, ids, q.user.id, o)
     /\ q.pc \in {"create.project", "create.insert", "update.write"} /\ c.assignee \in Users =>
          WasIn(us, ids, c.assignee, o)
     /\ q.pc = "create.insert" => WasIn(ps, ids, c.project, o)
     /\ q.pc \in {"update.assignee", "update.write"} => TaskWasIn(ps, ts, ids, c.id, o)

AllEstablished == \A r \in Requests : Established(req[r], users, projects, tasks, issued)

Tenancy == RowsIssued /\ AllEstablished /\ TenantIntegrity

USE DEF ListPCs, CreatePCs, UpdatePCs, StatusPCs, DeletePCs, HandlerPCs, TaskPCs, InvalPCs,
        ProjectPCs, PublicPCs, AccountPCs

(* ---- what a step does to the rows ---------------------------------------- *)

\* A row stays in its organization and a task in its project; an id of a row
\* that is new was not given out before.
RowsStay ==
  /\ issued \subseteq issued'
  /\ \A u \in Users : Row(users', u) =>
       IF Row(users, u) THEN users'[u].org = users[u].org ELSE u \notin issued
  /\ \A p \in Projects : Row(projects', p) =>
       IF Row(projects, p) THEN projects'[p].org = projects[p].org ELSE p \notin issued
  /\ \A t \in Tasks : Row(tasks', t) =>
       IF Row(tasks, t) THEN tasks'[t].project = tasks[t].project ELSE t \notin issued

\* The people of a task are of its project's organization.
Inside(task, us, ps) ==
  /\ us[task.creator].org = ps[task.project].org
  /\ task.assignee # Null => us[task.assignee].org = ps[task.project].org

\* The task names whom it named before, or one less.
SameRefs(t) ==
  /\ Row(tasks, t) /\ tasks'[t].project = tasks[t].project
  /\ tasks'[t].creator = tasks[t].creator /\ tasks'[t].assignee \in {tasks[t].assignee, Null}

LEMMA TenantKept ==
  ASSUME Inv, Inv', TenantIntegrity, RowsStay,
         \A t \in Tasks : Row(tasks', t) => Inside(tasks'[t], users', projects') \/ SameRefs(t)
  PROVE  TenantIntegrity'
<1> SUFFICES ASSUME NEW t \in Tasks, Row(tasks', t)
             PROVE  /\ Row(projects', tasks'[t].project) /\ Row(users', tasks'[t].creator)
                    /\ users'[tasks'[t].creator].org = projects'[tasks'[t].project].org
                    /\ tasks'[t].assignee # Null =>
                         /\ Row(users', tasks'[t].assignee)
                         /\ users'[tasks'[t].assignee].org = projects'[tasks'[t].project].org
  BY DEF TenantIntegrity, Row
<1>1. /\ tasks'[t] \in TaskRow
      /\ Row(projects', tasks'[t].project) /\ Row(users', tasks'[t].creator)
      /\ tasks'[t].assignee # Null => Row(users', tasks'[t].assignee)
  BY DEF Inv, TypeOK, DataOK, TaskTable, KeysHold, TaskKeysHold, Row
<1>2. CASE Inside(tasks'[t], users', projects')
  BY <1>1, <1>2 DEF Inside
<1>3. CASE SameRefs(t)
  <2>1. /\ Row(projects, tasks[t].project) /\ Row(users, tasks[t].creator)
        /\ users[tasks[t].creator].org = projects[tasks[t].project].org
        /\ tasks[t].assignee # Null =>
             /\ Row(users, tasks[t].assignee)
             /\ users[tasks[t].assignee].org = projects[tasks[t].project].org
    BY <1>3 DEF SameRefs, TenantIntegrity
  <2>2. tasks'[t].project \in Projects /\ tasks'[t].creator \in Users
          /\ tasks'[t].assignee \in Users \cup {Null}
    BY <1>1 DEF TaskRow
  <2>3. /\ projects'[tasks'[t].project].org = projects[tasks[t].project].org
        /\ users'[tasks'[t].creator].org = users[tasks[t].creator].org
    BY <1>1, <1>3, <2>1, <2>2 DEF RowsStay, SameRefs
  <2>4. tasks'[t].assignee # Null =>
          /\ tasks[t].assignee # Null
          /\ users'[tasks'[t].assignee].org = users[tasks[t].assignee].org
    BY <1>1, <1>3, <2>1, <2>2 DEF RowsStay, SameRefs
  <2> QED BY <1>1, <1>3, <2>1, <2>3, <2>4 DEF SameRefs
<1> QED BY <1>2, <1>3

LEMMA TablesKept ==
  ASSUME Inv, Inv', RowsIssued, TenantIntegrity, UNCHANGED tables
  PROVE  RowsStay /\ RowsIssued' /\ TenantIntegrity'
<1>1. UNCHANGED <<users, projects, tasks, issued>>
  BY DEF tables
<1>2. RowsStay /\ RowsIssued'
  BY <1>1 DEF RowsStay, RowsIssued, Row
<1>3. TenantIntegrity'
  BY <1>1 DEF TenantIntegrity, Row
<1> QED BY <1>2, <1>3

(* ---- what a step does to the other requests -------------------------------- *)

LEMMA EstablishedStays ==
  ASSUME Inv, Inv', RowsStay, NEW q \in Locals, Routed(q), Held(q),
         Established(q, users, projects, tasks, issued)
  PROVE  Established(q, users', projects', tasks', issued')
<1>1. ASSUME NEW u \in Users, NEW o, WasIn(users, issued, u, o)
      PROVE  WasIn(users', issued', u, o)
  BY <1>1 DEF WasIn, RowsStay
<1>2. ASSUME NEW p \in Projects, NEW o, WasIn(projects, issued, p, o)
      PROVE  WasIn(projects', issued', p, o)
  BY <1>2 DEF WasIn, RowsStay
<1>3. ASSUME NEW t \in Tasks, NEW o, TaskWasIn(projects, tasks, issued, t, o)
      PROVE  TaskWasIn(projects', tasks', issued', t, o)
  <2>1. t \in issued'
    BY <1>3 DEF TaskWasIn, RowsStay
  <2>2. ASSUME Row(tasks', t) PROVE projects'[tasks'[t].project].org = o
    <3>1. Row(tasks, t) /\ tasks'[t].project = tasks[t].project
      BY <1>3, <2>2 DEF TaskWasIn, RowsStay
    <3>2. /\ tasks[t].project \in Projects
          /\ Row(projects, tasks[t].project) /\ Row(projects', tasks[t].project)
      BY <2>2, <3>1 DEF Inv, TypeOK, DataOK, TaskTable, TaskRow, KeysHold, TaskKeysHold, Row
    <3>3. projects[tasks[t].project].org = o
      BY <1>3, <3>1 DEF TaskWasIn
    <3> QED BY <3>1, <3>2, <3>3 DEF RowsStay
  <2> QED BY <2>1, <2>2 DEF TaskWasIn
<1>4. q.pc \in HandlerPCs \ PublicPCs => q.user.id \in Users
  BY DEF Held, User
<1>5. q.pc = "create.insert" => q.call.project \in Projects
  BY CallsAssumption DEF Routed, Held
<1>6. q.pc \in {"update.assignee", "update.write"} => q.call.id \in Tasks
  BY CallsAssumption DEF Routed, Held
<1> QED BY <1>1, <1>2, <1>3, <1>4, <1>5, <1>6 DEF Established

\* It is enough that the slot that moved is in order.
LEMMA OneEstablished ==
  ASSUME Inv, Inv', RowsStay, AllEstablished, NEW r \in Requests,
         \A s \in Requests \ {r} : req'[s] = req[s],
         Established(req'[r], users', projects', tasks', issued')
  PROVE  AllEstablished'
<1> SUFFICES ASSUME NEW s \in Requests
             PROVE  Established(req'[s], users', projects', tasks', issued')
  BY DEF AllEstablished, Established, WasIn, TaskWasIn, Row
<1>1. CASE s = r  BY <1>1
<1>2. CASE s # r
  <2>1. req[s] \in Locals /\ Routed(req[s]) /\ Held(req[s])
    BY DEF Inv, TypeOK, RequestsOK
  <2>2. Established(req[s], users, projects, tasks, issued)
    BY DEF AllEstablished
  <2>3. Established(req[s], users', projects', tasks', issued')
    BY <2>1, <2>2, EstablishedStays
  <2> QED BY <1>2, <2>3
<1> QED BY <1>1, <1>2

(* ---- steps that establish nothing new ---------------------------------------- *)

\* A handler that goes on to one of these points has just established something.
Proving == {"create.project", "create.insert", "update.assignee", "update.write"}

\* Only r moves, within its handler or to its answer, and keeps its user.
Plain(r) ==
  /\ \A s \in Requests \ {r} : req'[s] = req[s]
  /\ req'[r].pc \notin Proving
  /\ req'[r].pc \in HandlerPCs \ PublicPCs =>
       req[r].pc \in HandlerPCs \ PublicPCs /\ req'[r].user = req[r].user

LEMMA PlainEstablishes ==
  ASSUME Inv, Inv', RowsStay, AllEstablished, NEW r \in Requests, Plain(r)
  PROVE  AllEstablished'
<1>1. req[r] \in Locals /\ Routed(req[r]) /\ Held(req[r])
  BY DEF Inv, TypeOK, RequestsOK
<1>2. Established(req[r], users', projects', tasks', issued')
  BY <1>1, EstablishedStays DEF AllEstablished
<1>3. Established(req'[r], users', projects', tasks', issued')
  BY <1>2 DEF Plain, Proving, Established
<1>4. \A s \in Requests \ {r} : req'[s] = req[s]
  BY DEF Plain
<1> QED BY <1>3, <1>4, OneEstablished

LEMMA AnswerPlain ==
  ASSUME Inv, NEW r \in Requests, NEW code, NEW page,
         Answer(r, code) \/ AnswerPage(r, page)
  PROVE  Plain(r)
<1>1. PICK n, res : req' = [req EXCEPT ![r] = Answered(req[r].call, req[r].user, n, res)]
  BY DEF Answer, AnswerPage, Inv, TypeOK, RequestsOK
<1>2. Answered(req[r].call, req[r].user, n, res).pc = "done"
  BY DEF Answered, Idle
<1>3. req'[r].pc = "done"
  BY <1>1, <1>2 DEF Inv, TypeOK, RequestsOK
<1>4. \A s \in Requests \ {r} : req'[s] = req[s]
  BY <1>1 DEF Inv, TypeOK, RequestsOK
<1> QED BY <1>3, <1>4 DEF Plain, Proving

LEMMA GotoPlain ==
  ASSUME Inv, NEW r \in Requests, NEW pc, pc \notin Proving, Goto(r, pc),
         pc \in HandlerPCs \ PublicPCs => req[r].pc \in HandlerPCs \ PublicPCs
  PROVE  Plain(r)
<1>1. req \in [Requests -> Locals] /\ req' = [req EXCEPT ![r].pc = pc]
  BY DEF Inv, TypeOK, RequestsOK, Goto
<1>2. req'[r].pc = pc /\ req'[r].user = req[r].user
  BY <1>1 DEF Locals
<1> QED BY <1>1, <1>2 DEF Plain

LEMMA InvalidatePlain ==
  ASSUME Inv, NEW r \in Requests, NEW us, NEW code, Invalidate(r, us, code),
         req[r].pc \in HandlerPCs \ PublicPCs
  PROVE  Plain(r)
<1>1. CASE us = <<>>
  BY <1>1, AnswerPlain DEF Invalidate
<1>2. CASE us # <<>>
  BY <1>2 DEF Invalidate, Plain, Proving, Idle, Inv, TypeOK, RequestsOK
<1> QED BY <1>1, <1>2

LEMMA ReplyPlain ==
  ASSUME Inv, NEW r \in Requests, Reply(r)
  PROVE  Plain(r)
BY DEF Plain, Proving, Reply, Idle, Inv, TypeOK, RequestsOK

\* Lists, look-ups that only answer or go on, and the invalidation.
LEMMA ReadsPlain ==
  ASSUME Inv, NEW r \in Requests,
         \/ ListGet(r) \/ ListQuery(r) \/ ListStore(r) \/ ListTrack(r) \/ GetFind(r)
         \/ StatusFind(r) \/ DeleteFind(r)
         \/ InvalMembers(r) \/ InvalDelete(r) \/ InvalClear(r) \/ RedisError(r)
         \/ ProjectFind(r) \/ AccountFind(r) \/ UserFind(r)
  PROVE  Plain(r) /\ UNCHANGED tables
<1>1. req \in [Requests -> Locals]
  BY DEF Inv, TypeOK, RequestsOK
<1>2. CASE ListGet(r)
  BY <1>2, AnswerPlain, GotoPlain DEF ListGet, At, Proving
<1>3. CASE ListQuery(r)
  BY <1>1, <1>3 DEF ListQuery, At, Proving, Plain, Locals
<1>4. CASE ListStore(r)
  BY <1>4, AnswerPlain, GotoPlain DEF ListStore, At, Proving
<1>5. CASE ListTrack(r)
  BY <1>5, AnswerPlain DEF ListTrack
<1>6. CASE GetFind(r)
  BY <1>6, AnswerPlain DEF GetFind
<1>7. CASE StatusFind(r)
  <2>1. CASE \E code \in {400, 403, 404} : Answer(r, code)
    BY <1>7, <2>1, AnswerPlain DEF StatusFind
  <2>2. CASE req' = [req EXCEPT ![r].row = tasks[req[r].call.id], ![r].pc = "status.write"]
    BY <1>1, <1>7, <2>2 DEF StatusFind, At, Proving, Plain, Locals
  <2> QED BY <1>7, <2>1, <2>2 DEF StatusFind
<1>8. CASE DeleteFind(r)
  <2>1. CASE Answer(r, 404)
    BY <1>8, <2>1, AnswerPlain DEF DeleteFind
  <2>2. CASE req' = [req EXCEPT ![r].row = GetTask(req[r].user, req[r].call.id),
                                ![r].pc = "delete.write"]
    BY <1>1, <1>8, <2>2 DEF DeleteFind, At, Proving, Plain, Locals
  <2> QED BY <1>8, <2>1, <2>2 DEF DeleteFind
<1>9. CASE InvalMembers(r)
  BY <1>1, <1>9 DEF InvalMembers, At, Proving, Plain, Locals
<1>10. CASE InvalDelete(r)
  BY <1>10, GotoPlain DEF InvalDelete, At, Proving
<1>11. CASE InvalClear(r)
  BY <1>11, InvalidatePlain DEF InvalClear, InvalNext, At
<1>12. CASE RedisError(r)
  BY <1>12, AnswerPlain, GotoPlain, InvalidatePlain DEF RedisError, InvalNext, At, Proving
<1>13. CASE ProjectFind(r)
  BY <1>13, AnswerPlain, GotoPlain DEF ProjectFind, At, Proving
<1>14. CASE AccountFind(r)
  BY <1>14, AnswerPlain, GotoPlain DEF AccountFind, At, Proving
<1>15. CASE UserFind(r)
  BY <1>15, AnswerPlain, GotoPlain DEF UserFind, At, Proving
<1> QED BY <1>2, <1>3, <1>4, <1>5, <1>6, <1>7, <1>8, <1>9, <1>10, <1>11, <1>12, <1>13,
           <1>14, <1>15

(* ---- steps that write no table ------------------------------------------------- *)

LEMMA PlainRead ==
  ASSUME Inv, Inv', Tenancy, NEW r \in Requests, Plain(r), UNCHANGED tables
  PROVE  Tenancy'
BY TablesKept, PlainEstablishes DEF Tenancy

LEMMA ProvingRead ==
  ASSUME Inv, Inv', Tenancy, UNCHANGED tables, NEW r \in Requests,
         \A s \in Requests \ {r} : req'[s] = req[s],
         Established(req'[r], users, projects, tasks, issued)
  PROVE  Tenancy'
<1>1. RowsStay /\ RowsIssued' /\ TenantIntegrity'
  BY TablesKept DEF Tenancy
<1>2. users' = users /\ projects' = projects /\ tasks' = tasks /\ issued' = issued
  BY DEF tables
<1>3. AllEstablished'
  BY <1>1, <1>2, OneEstablished DEF Tenancy
<1> QED BY <1>1, <1>3 DEF Tenancy

\* A look-up inside an organization that finds the row.
LEMMA UserFound ==
  ASSUME RowsIssued, NEW u \in Users, NEW o, InOrg(users, u, o) # Null
  PROVE  WasIn(users, issued, u, o)
BY DEF RowsIssued, InOrg, WasIn

LEMMA ProjectFound ==
  ASSUME RowsIssued, NEW p \in Projects, NEW o, InOrg(projects, p, o) # Null
  PROVE  WasIn(projects, issued, p, o)
BY DEF RowsIssued, InOrg, WasIn

\* Going on in the same handler changes the control point alone.
LEMMA GotoKeeps ==
  ASSUME Inv, NEW r \in Requests, NEW pc, Goto(r, pc)
  PROVE  /\ req'[r].pc = pc /\ req'[r].call = req[r].call /\ req'[r].user = req[r].user
         /\ \A s \in Requests \ {r} : req'[s] = req[s]
<1>1. req \in [Requests -> Locals] /\ req' = [req EXCEPT ![r].pc = pc]
  BY DEF Inv, TypeOK, RequestsOK, Goto
<1> QED BY <1>1 DEF Locals

LEMMA CreateAssigneeTenancy ==
  ASSUME Inv, Inv', Tenancy, NEW r \in Requests, CreateAssignee(r)
  PROVE  Tenancy'
<1>1. UNCHANGED tables
  BY DEF CreateAssignee
<1>2. CASE Answer(r, 400)
  BY <1>1, <1>2, AnswerPlain, PlainRead
<1>3. CASE AssigneeInOrg(req[r].user, req[r].call.assignee) # Null /\ Goto(r, "create.project")
  <2>1. req[r].pc = "create.assignee" /\ req[r].call.assignee \in Users
    BY DEF CreateAssignee, At, Inv, TypeOK, RequestsOK, Routed
  <2>2. WasIn(users, issued, req[r].call.assignee, req[r].user.org)
    BY <1>3, <2>1, UserFound DEF AssigneeInOrg, Tenancy
  <2>3. WasIn(users, issued, req[r].user.id, req[r].user.org)
    BY <2>1 DEF Tenancy, AllEstablished, Established
  <2>4. Established(req'[r], users, projects, tasks, issued)
    BY <1>3, <2>2, <2>3, GotoKeeps DEF Established
  <2> QED BY <1>1, <1>3, <2>4, GotoKeeps, ProvingRead
<1> QED BY <1>2, <1>3 DEF CreateAssignee

LEMMA CreateProjectCheckTenancy ==
  ASSUME Inv, Inv', Tenancy, NEW r \in Requests, CreateProjectCheck(r)
  PROVE  Tenancy'
<1>1. UNCHANGED tables
  BY DEF CreateProjectCheck
<1>2. CASE Answer(r, 400)
  BY <1>1, <1>2, AnswerPlain, PlainRead
<1>3. CASE InOrg(projects, req[r].call.project, req[r].user.org) # Null /\ Goto(r, "create.insert")
  <2>1. req[r].pc = "create.project" /\ req[r].call.project \in Projects
    BY CallsAssumption DEF CreateProjectCheck, At, Inv, TypeOK, RequestsOK, Routed, Held
  <2>2. WasIn(projects, issued, req[r].call.project, req[r].user.org)
    BY <1>3, <2>1, ProjectFound DEF Tenancy
  <2>3. /\ WasIn(users, issued, req[r].user.id, req[r].user.org)
        /\ req[r].call.assignee \in Users =>
             WasIn(users, issued, req[r].call.assignee, req[r].user.org)
    BY <2>1 DEF Tenancy, AllEstablished, Established
  <2>4. Established(req'[r], users, projects, tasks, issued)
    BY <1>3, <2>2, <2>3, GotoKeeps DEF Established
  <2> QED BY <1>1, <1>3, <2>4, GotoKeeps, ProvingRead
<1> QED BY <1>2, <1>3 DEF CreateProjectCheck

LEMMA UpdateFindTenancy ==
  ASSUME Inv, Inv', Tenancy, NEW r \in Requests, UpdateFind(r)
  PROVE  Tenancy'
<1> DEFINE c == req[r].call
           row == GetTask(req[r].user, c.id)
           next == IF NewAssignee(c, row) THEN "update.assignee" ELSE "update.write"
<1>1. UNCHANGED tables
  BY DEF UpdateFind
<1>2. CASE Answer(r, 404)
  BY <1>1, <1>2, AnswerPlain, PlainRead
<1>3. CASE row # Null /\ req' = [req EXCEPT ![r].row = row, ![r].pc = next]
  <2>1. req[r].pc = "update.find" /\ c.id \in Tasks
    BY CallsAssumption DEF UpdateFind, At, Inv, TypeOK, RequestsOK, Routed, Held
  <2>2. /\ row = tasks[c.id] /\ Row(tasks, c.id)
        /\ projects[tasks[c.id].project].org = req[r].user.org
    BY <1>3 DEF GetTask
  <2>3. TaskWasIn(projects, tasks, issued, c.id, req[r].user.org)
    BY <2>1, <2>2 DEF TaskWasIn, Tenancy, RowsIssued
  <2>4. WasIn(users, issued, req[r].user.id, req[r].user.org)
    BY <2>1 DEF Tenancy, AllEstablished, Established
  <2>5. ASSUME next = "update.write", c.assignee \in Users
        PROVE  WasIn(users, issued, c.assignee, req[r].user.org)
    <3>1. tasks[c.id].assignee = c.assignee /\ c.assignee # Null
      BY <2>2, <2>5, SchemaAssumption DEF NewAssignee
    <3>2. Row(users, c.assignee) /\ users[c.assignee].org = req[r].user.org
      BY <2>1, <2>2, <3>1 DEF Tenancy, TenantIntegrity
    <3> QED BY <2>5, <3>2 DEF WasIn, Tenancy, RowsIssued
  <2>6. next \in {"update.assignee", "update.write"}
    OBVIOUS
  <2> HIDE DEF next, row
  <2>7. /\ req'[r].pc = next /\ req'[r].call = c /\ req'[r].user = req[r].user
        /\ \A s \in Requests \ {r} : req'[s] = req[s]
    BY <1>3 DEF Inv, TypeOK, RequestsOK, Locals
  <2>8. Established(req'[r], users, projects, tasks, issued)
    BY <2>3, <2>4, <2>5, <2>6, <2>7 DEF Established
  <2> QED BY <1>1, <2>7, <2>8, ProvingRead
<1> QED BY <1>2, <1>3 DEF UpdateFind

LEMMA UpdateAssigneeTenancy ==
  ASSUME Inv, Inv', Tenancy, NEW r \in Requests, UpdateAssignee(r)
  PROVE  Tenancy'
<1>1. UNCHANGED tables
  BY DEF UpdateAssignee
<1>2. CASE Answer(r, 400)
  BY <1>1, <1>2, AnswerPlain, PlainRead
<1>3. CASE AssigneeInOrg(req[r].user, req[r].call.assignee) # Null /\ Goto(r, "update.write")
  <2>1. req[r].pc = "update.assignee" /\ req[r].call.assignee \in Users
    BY DEF UpdateAssignee, At, Inv, TypeOK, RequestsOK, Routed
  <2>2. WasIn(users, issued, req[r].call.assignee, req[r].user.org)
    BY <1>3, <2>1, UserFound DEF AssigneeInOrg, Tenancy
  <2>3. /\ WasIn(users, issued, req[r].user.id, req[r].user.org)
        /\ TaskWasIn(projects, tasks, issued, req[r].call.id, req[r].user.org)
    BY <2>1 DEF Tenancy, AllEstablished, Established
  <2>4. Established(req'[r], users, projects, tasks, issued)
    BY <1>3, <2>2, <2>3, GotoKeeps DEF Established
  <2> QED BY <1>1, <1>3, <2>4, GotoKeeps, ProvingRead
<1> QED BY <1>2, <1>3 DEF UpdateAssignee

(* ---- arrival, crash and expiry ---------------------------------------------------- *)

LEMMA ArrivePublicTenancy ==
  ASSUME Inv, Inv', Tenancy, NEW r \in Requests, ArrivePublic(r)
  PROVE  Tenancy'
<1>1. UNCHANGED tables
  BY DEF ArrivePublic
<1>2. PICK c \in Calls :
        c.op = "register" /\ req' = [req EXCEPT ![r].pc = FirstStep(c), ![r].call = c]
  BY DEF ArrivePublic
<1>3. FirstStep(c) = "register.find"
  BY <1>2 DEF FirstStep
<1>4. /\ req'[r].pc = "register.find"
      /\ \A s \in Requests \ {r} : req'[s] = req[s]
  BY <1>2, <1>3 DEF Inv, TypeOK, RequestsOK, Locals
<1> QED BY <1>1, <1>4, PlainRead DEF Plain, Proving

\* The first await comes after a look-up of the caller and of nothing else.
LEMMA FirstStepProvesNothing ==
  ASSUME NEW c \in Calls
  PROVE  /\ FirstStep(c) \notin {"create.insert", "update.assignee", "update.write"}
         /\ FirstStep(c) = "create.project" => c.assignee \notin Users
<1>1. c.op \in Ops
  BY CallsAssumption DEF Call
<1> QED BY <1>1 DEF FirstStep, Ops, TaskOps, ProjectOps, AccountOps

LEMMA ArriveTenancy ==
  ASSUME Inv, Inv', Tenancy, NEW r \in Requests, Arrive(r)
  PROVE  Tenancy'
<1> DEFINE user(c) == [id |-> c.caller, role |-> users[c.caller].role, org |-> users[c.caller].org]
           begun(c) == [Idle EXCEPT !.pc = FirstStep(c), !.call = c, !.user = user(c)]
<1>1. UNCHANGED tables
  BY DEF Arrive
<1>2. PICK c \in Calls :
        /\ c.op # "register" /\ c.caller \in issued
        /\ req' = [req EXCEPT ![r] =
               IF ~Row(users, c.caller) THEN Answered(c, Null, 401, Null)
               ELSE IF ~Authorized(users[c.caller].role, c.op) THEN Answered(c, user(c), 403, Null)
               ELSE IF ~Valid(c) \/ OwnAccount(c) THEN Answered(c, user(c), 400, Null)
               ELSE begun(c)]
  BY DEF Arrive
<1>3. \A s \in Requests \ {r} : req'[s] = req[s]
  <2> HIDE DEF user, begun
  <2> QED BY <1>2 DEF Inv, TypeOK, RequestsOK
<1>4. \/ \E u, n : req'[r] = Answered(c, u, n, Null)
      \/ Row(users, c.caller) /\ req'[r] = begun(c)
  <2> HIDE DEF user, begun
  <2> QED BY <1>2 DEF Inv, TypeOK, RequestsOK
<1>5. ASSUME NEW u, NEW n, req'[r] = Answered(c, u, n, Null) PROVE Tenancy'
  <2>1. req'[r].pc = "done"
    BY <1>5 DEF Answered, Idle
  <2> QED BY <1>1, <1>3, <2>1, PlainRead DEF Plain, Proving
<1>6. CASE Row(users, c.caller) /\ req'[r] = begun(c)
  <2>1. /\ req'[r].pc = FirstStep(c) /\ req'[r].call = c
        /\ req'[r].user.id = c.caller /\ req'[r].user.org = users[c.caller].org
    BY <1>6 DEF Idle
  <2>2. WasIn(users, issued, c.caller, users[c.caller].org)
    BY <1>2 DEF WasIn
  <2> HIDE DEF user, begun
  <2>3. Established(req'[r], users, projects, tasks, issued)
    BY <2>1, <2>2, FirstStepProvesNothing DEF Established
  <2> QED BY <1>1, <1>3, <2>3, ProvingRead
<1> QED BY <1>4, <1>5, <1>6

LEMMA NobodyMoves ==
  ASSUME Inv, Inv', Tenancy, UNCHANGED tables,
         \A r \in Requests : req'[r] = req[r] \/ req'[r].pc = "idle"
  PROVE  Tenancy'
<1>1. RowsStay /\ RowsIssued' /\ TenantIntegrity'
  BY TablesKept DEF Tenancy
<1>2. users' = users /\ projects' = projects /\ tasks' = tasks /\ issued' = issued
  BY DEF tables
<1>3. ASSUME NEW r \in Requests PROVE Established(req'[r], users', projects', tasks', issued')
  <2>1. CASE req'[r] = req[r]
    BY <1>2, <2>1 DEF Tenancy, AllEstablished
  <2>2. CASE req'[r].pc = "idle"
    BY <2>2 DEF Established
  <2> QED BY <2>1, <2>2
<1>4. AllEstablished'
  BY <1>3 DEF AllEstablished, Established, WasIn, TaskWasIn, Row
<1> QED BY <1>1, <1>4 DEF Tenancy

LEMMA CrashTenancy ==
  ASSUME Inv, Inv', Tenancy, Crash
  PROVE  Tenancy'
<1>1. \A r \in Requests : req'[r].pc = "idle"
  BY DEF Crash, Idle
<1> QED BY <1>1, NobodyMoves DEF Crash

LEMMA ExpiryTenancy ==
  ASSUME Inv, Inv', Tenancy, NEW k \in Key, EntryExpires(k)
  PROVE  Tenancy'
BY NobodyMoves DEF EntryExpires

(* ---- writes of tasks ------------------------------------------------------------------ *)

\* Every task after the step is of one organization by itself, or refers to
\* what it referred to.
LEMMA Written ==
  ASSUME Inv, Inv', Tenancy, NEW r \in Requests, Plain(r), RowsStay, RowsIssued',
         \A t \in Tasks : Row(tasks', t) => Inside(tasks'[t], users', projects') \/ SameRefs(t)
  PROVE  Tenancy'
BY TenantKept, PlainEstablishes DEF Tenancy

\* One task is written, in place or with an id never given out.
LEMMA TaskRowsStay ==
  ASSUME Inv, RowsIssued, NEW t \in Tasks, NEW row, tasks' = Insert(tasks, t, row),
         UNCHANGED <<users, projects>>,
         \/ Row(tasks, t) /\ row.project = tasks[t].project /\ issued' = issued
         \/ t \notin issued /\ issued' = issued \cup {t}
  PROVE  /\ RowsStay /\ RowsIssued' /\ tasks'[t] = row
         /\ \A s \in Tasks : s # t => tasks'[s] = tasks[s]
<1>1. tasks'[t] = row /\ \A s \in Tasks : s # t => tasks'[s] = tasks[s]
  BY DEF Inv, TypeOK, DataOK, TaskTable, Insert
<1>2. RowsStay
  BY <1>1 DEF RowsStay, RowsIssued, Row
<1>3. RowsIssued'
  BY <1>1 DEF RowsIssued, Row
<1> QED BY <1>1, <1>2, <1>3

LEMMA CreateInsertTenancy ==
  ASSUME Inv, Inv', Tenancy, NEW r \in Requests, CreateInsert(r)
  PROVE  Tenancy'
<1> DEFINE c == req[r].call
           row == NewTask(req[r].user, c)
<1>1. /\ req[r].pc = "create.insert" /\ req[r].user \in User /\ c \in Calls
      /\ c.op = "createTask"
  BY DEF Inv, TypeOK, RequestsOK, Routed, Held, CreateInsert, At
<1>2. CASE TaskKeysHold(row)
  <2>1. PICK t \in Tasks \ issued :
          /\ tasks' = Insert(tasks, t, row) /\ issued' = issued \cup {t}
          /\ Invalidate(r, ListsOf(row.assignee), 201)
    BY <1>2 DEF CreateInsert
  <2>2. users' = users /\ projects' = projects
    BY DEF CreateInsert
  <2>3. Plain(r)
    BY <1>1, <2>1, InvalidatePlain
  <2>4. /\ row.project = c.project /\ row.creator = req[r].user.id
        /\ row.assignee \in {c.assignee, Null} /\ row \in TaskRow
    BY <1>1, NewTaskOK DEF NewTask
  <2>5. Inside(row, users, projects)
    <3>1. /\ WasIn(users, issued, req[r].user.id, req[r].user.org)
          /\ WasIn(projects, issued, c.project, req[r].user.org)
          /\ c.assignee \in Users => WasIn(users, issued, c.assignee, req[r].user.org)
      BY <1>1 DEF Tenancy, AllEstablished, Established
    <3>2. row.assignee # Null => row.assignee = c.assignee /\ c.assignee \in Users
      BY <2>4 DEF TaskRow
    <3> HIDE DEF row
    <3> QED BY <1>2, <2>4, <3>1, <3>2 DEF Inside, WasIn, TaskKeysHold
  <2> HIDE DEF row
  <2>6. /\ RowsStay /\ RowsIssued' /\ tasks'[t] = row
        /\ \A s \in Tasks : s # t => tasks'[s] = tasks[s]
    BY <2>1, <2>2, TaskRowsStay DEF Tenancy
  <2>7. ASSUME NEW s \in Tasks, Row(tasks', s)
        PROVE  Inside(tasks'[s], users', projects') \/ SameRefs(s)
    BY <2>2, <2>5, <2>6, <2>7 DEF SameRefs, Row
  <2> QED BY <2>3, <2>6, <2>7, Written
<1>3. CASE ~TaskKeysHold(row)
  <2>1. Answer(r, 500) /\ UNCHANGED tables
    BY <1>3 DEF CreateInsert, tables
  <2> QED BY <2>1, AnswerPlain, PlainRead
<1> QED BY <1>2, <1>3

LEMMA UpdateWriteTenancy ==
  ASSUME Inv, Inv', Tenancy, NEW r \in Requests, UpdateWrite(r)
  PROVE  Tenancy'
<1> DEFINE c == req[r].call
           old == tasks[c.id]
           row == Patched(old, c)
<1>1. /\ req[r].pc = "update.write" /\ c \in Calls /\ c.op = "updateTask"
  BY DEF Inv, TypeOK, RequestsOK, Routed, Held, UpdateWrite, At
<1>2. c.id \in Tasks /\ c.assignee \in Users \cup {Null, Absent}
  BY <1>1, CallsAssumption DEF Call
<1>3. CASE Row(tasks, c.id) /\ TaskKeysHold(row)
  <2>1. old \in TaskRow
    BY <1>2, <1>3 DEF Row, Inv, TypeOK, DataOK, TaskTable
  <2>2. /\ row.project = old.project /\ row.creator = old.creator
        /\ row.assignee = (IF c.assignee = Absent THEN old.assignee ELSE c.assignee)
    BY <2>1 DEF Patched, TaskRow
  <2>3. tasks' = Insert(tasks, c.id, row) /\ Invalidate(r, StaleLists(c, req[r].row, row), 200)
    BY <1>3 DEF UpdateWrite
  <2>4. users' = users /\ projects' = projects /\ issued' = issued
    BY DEF UpdateWrite
  <2>5. Plain(r)
    BY <1>1, <2>3, InvalidatePlain
  <2>6. Inside(row, users, projects)
    <3>1. /\ projects[old.project].org = req[r].user.org
          /\ c.assignee \in Users => WasIn(users, issued, c.assignee, req[r].user.org)
      BY <1>1, <1>3 DEF Tenancy, AllEstablished, Established, TaskWasIn
    <3>2. /\ users[old.creator].org = projects[old.project].org
          /\ old.assignee # Null => users[old.assignee].org = projects[old.project].org
      BY <1>2, <1>3 DEF Tenancy, TenantIntegrity
    <3> HIDE DEF row, old
    <3> QED BY <1>2, <1>3, <2>2, <3>1, <3>2 DEF Inside, WasIn, TaskKeysHold
  <2> HIDE DEF row
  <2>7. /\ RowsStay /\ RowsIssued' /\ tasks'[c.id] = row
        /\ \A s \in Tasks : s # c.id => tasks'[s] = tasks[s]
    BY <1>2, <1>3, <2>2, <2>3, <2>4, TaskRowsStay DEF Tenancy
  <2>8. ASSUME NEW s \in Tasks, Row(tasks', s)
        PROVE  Inside(tasks'[s], users', projects') \/ SameRefs(s)
    BY <2>4, <2>6, <2>7, <2>8 DEF SameRefs, Row
  <2> QED BY <2>5, <2>7, <2>8, Written
<1>4. CASE ~(Row(tasks, c.id) /\ TaskKeysHold(row))
  <2>1. Answer(r, 500) /\ UNCHANGED tables
    BY <1>4 DEF UpdateWrite, tables
  <2> QED BY <2>1, AnswerPlain, PlainRead
<1> QED BY <1>3, <1>4

LEMMA StatusWriteTenancy ==
  ASSUME Inv, Inv', Tenancy, NEW r \in Requests, StatusWrite(r)
  PROVE  Tenancy'
<1> DEFINE c == req[r].call
           row == Moved(tasks[c.id], c.status)
<1>1. /\ req[r].pc = "status.write" /\ c \in Calls /\ c.op = "updateTaskStatus"
  BY DEF Inv, TypeOK, RequestsOK, Routed, Held, StatusWrite, At
<1>2. c.id \in Tasks
  BY <1>1, CallsAssumption
<1>3. CASE Row(tasks, c.id)
  <2>1. /\ row.project = tasks[c.id].project /\ row.creator = tasks[c.id].creator
        /\ row.assignee = tasks[c.id].assignee
    BY <1>2, <1>3 DEF Moved, Row, Inv, TypeOK, DataOK, TaskTable, TaskRow
  <2>2. tasks' = Insert(tasks, c.id, row) /\ Invalidate(r, ListsOf(row.assignee), 200)
    BY <1>3 DEF StatusWrite
  <2>3. users' = users /\ projects' = projects /\ issued' = issued
    BY DEF StatusWrite
  <2>4. Plain(r)
    BY <1>1, <2>2, InvalidatePlain
  <2> HIDE DEF row
  <2>5. /\ RowsStay /\ RowsIssued' /\ tasks'[c.id] = row
        /\ \A s \in Tasks : s # c.id => tasks'[s] = tasks[s]
    BY <1>2, <1>3, <2>1, <2>2, <2>3, TaskRowsStay DEF Tenancy
  <2>6. ASSUME NEW s \in Tasks, Row(tasks', s) PROVE SameRefs(s)
    BY <1>3, <2>1, <2>5, <2>6 DEF SameRefs, Row
  <2> QED BY <2>4, <2>5, <2>6, Written
<1>4. CASE ~Row(tasks, c.id)
  <2>1. Answer(r, 500) /\ UNCHANGED tables
    BY <1>4 DEF StatusWrite, tables
  <2> QED BY <2>1, AnswerPlain, PlainRead
<1> QED BY <1>3, <1>4

LEMMA DeleteWriteTenancy ==
  ASSUME Inv, Inv', Tenancy, NEW r \in Requests, DeleteWrite(r)
  PROVE  Tenancy'
<1> DEFINE t == req[r].call.id
<1>1. CASE Row(tasks, t)
  <2>1. tasks' = Delete(tasks, t) /\ Invalidate(r, ListsOf(req[r].row.assignee), 200)
    BY <1>1 DEF DeleteWrite
  <2>2. users' = users /\ projects' = projects /\ issued' = issued
    BY DEF DeleteWrite
  <2>3. Plain(r)
    BY <2>1, InvalidatePlain DEF DeleteWrite, At
  <2>4. \A s \in Tasks : Row(tasks', s) => Row(tasks, s) /\ tasks'[s] = tasks[s]
    BY <2>1 DEF Delete, Row, Inv, TypeOK, DataOK, TaskTable
  <2>5. RowsStay
    BY <2>2, <2>4 DEF RowsStay
  <2>6. RowsIssued'
    BY <2>2, <2>4 DEF RowsIssued, Tenancy, Row
  <2>7. \A s \in Tasks : Row(tasks', s) => SameRefs(s)
    BY <2>4 DEF SameRefs
  <2> QED BY <2>3, <2>5, <2>6, <2>7, Written
<1>2. CASE ~Row(tasks, t)
  <2>1. Answer(r, 500) /\ UNCHANGED tables
    BY <1>2 DEF DeleteWrite, tables
  <2> QED BY <2>1, AnswerPlain, PlainRead
<1> QED BY <1>1, <1>2

(* ---- writes of projects and users ------------------------------------------------------- *)

\* A project row stays in its organization, and a new one has a new id.
LEMMA ProjectRowsStay ==
  ASSUME Inv, RowsIssued, NEW r \in Requests,
         ProjectInsert(r) \/ ProjectUpdate(r) \/ ProjectDelete(r)
  PROVE  /\ issued \subseteq issued'
         /\ \A p \in Projects : Row(projects', p) =>
              /\ p \in issued'
              /\ IF Row(projects, p) THEN projects'[p].org = projects[p].org ELSE p \notin issued
<1>0. projects \in ProjectTable /\ \A p \in Projects : Row(projects, p) => p \in issued
  BY DEF Inv, TypeOK, DataOK, RowsIssued
<1>1. CASE ProjectInsert(r)
  <2>1. PICK p \in Projects \ issued :
          /\ projects' = Insert(projects, p, [org |-> req[r].user.org, name |-> req[r].call.name])
          /\ issued' = issued \cup {p}
    BY <1>1 DEF ProjectInsert
  <2> QED BY <1>0, <2>1 DEF Insert, ProjectTable, Row
<1>2. CASE ProjectUpdate(r)
  <2>1. issued' = issued
    BY <1>2 DEF ProjectUpdate
  <2>2. CASE ~Row(projects, req[r].call.id)
    BY <1>0, <1>2, <2>1, <2>2 DEF ProjectUpdate
  <2>3. CASE Row(projects, req[r].call.id)
    <3>1. projects' = [projects EXCEPT ![req[r].call.id].name = req[r].call.name]
      BY <1>2, <2>3 DEF ProjectUpdate
    <3>2. req[r].call.id \in Projects
      BY <1>2, CallsAssumption DEF ProjectUpdate, At, Inv, TypeOK, RequestsOK, Held
    <3>3. \A p \in Projects : p # req[r].call.id => projects'[p] = projects[p]
      BY <1>0, <3>1 DEF ProjectTable
    <3>4. projects'[req[r].call.id].org = projects[req[r].call.id].org
      BY <1>0, <2>3, <3>1, <3>2 DEF ProjectTable, ProjectRow, Row
    <3> QED BY <1>0, <2>1, <2>3, <3>3, <3>4 DEF Row
  <2> QED BY <2>2, <2>3
<1>3. CASE ProjectDelete(r)
  <2>1. issued' = issued /\ (projects' = projects \/ projects' = Delete(projects, req[r].call.id))
    BY <1>3 DEF ProjectDelete
  <2> QED BY <1>0, <2>1 DEF Delete, ProjectTable, Row
<1> QED BY <1>1, <1>2, <1>3

LEMMA ProjectWriteTenancy ==
  ASSUME Inv, Inv', Tenancy, NEW r \in Requests,
         ProjectInsert(r) \/ ProjectUpdate(r) \/ ProjectDelete(r)
  PROVE  Tenancy'
<1>1. Plain(r)
  BY AnswerPlain DEF ProjectInsert, ProjectUpdate, ProjectDelete
<1>2. users' = users /\ tasks' = tasks
  BY DEF ProjectInsert, ProjectUpdate, ProjectDelete
<1>3. /\ issued \subseteq issued'
      /\ \A p \in Projects : Row(projects', p) =>
           /\ p \in issued'
           /\ IF Row(projects, p) THEN projects'[p].org = projects[p].org ELSE p \notin issued
  BY ProjectRowsStay DEF Tenancy
<1>4. RowsStay /\ RowsIssued'
  BY <1>2, <1>3 DEF RowsStay, RowsIssued, Tenancy, Row
<1>5. \A t \in Tasks : Row(tasks', t) => SameRefs(t)
  BY <1>2 DEF SameRefs
<1> QED BY <1>1, <1>4, <1>5, Written

LEMMA AccountWriteTenancy ==
  ASSUME Inv, Inv', Tenancy, NEW r \in Requests,
         RegisterInsert(r) \/ InviteInsert(r) \/ RoleWrite(r) \/ UserDelete(r)
  PROVE  Tenancy'
<1>1. Plain(r)
  BY AnswerPlain DEF RegisterInsert, InviteInsert, RoleWrite, UserDelete
<1>2. projects' = projects
  BY DEF RegisterInsert, InviteInsert, RoleWrite, UserDelete
<1>3. \A t \in Tasks : Row(tasks', t) => SameRefs(t)
  <2>1. tasks' = tasks \/ tasks' = UnassignAll(req[r].call.id)
    BY DEF RegisterInsert, InviteInsert, RoleWrite, UserDelete
  <2> QED BY <2>1 DEF UnassignAll, SameRefs, Row, Inv, TypeOK, DataOK, TaskTable, TaskRow
<1> DEFINE UsersStay ==
             /\ issued \subseteq issued'
             /\ \A u \in Users : Row(users', u) =>
                  /\ u \in issued'
                  /\ IF Row(users, u) THEN users'[u].org = users[u].org ELSE u \notin issued
<1>4. UsersStay
  <2>0. users \in UserTable /\ \A u \in Users : Row(users, u) => u \in issued
    BY DEF Inv, TypeOK, DataOK, Tenancy, RowsIssued
  <2>1. ASSUME NEW u \in Users \ issued, NEW o, NEW role, NEW e, AddUser(u, o, role, e)
        PROVE  UsersStay
    BY <2>0, <2>1 DEF AddUser, Insert, UserTable, Row
  <2>2. CASE users' = users /\ issued' = issued
    BY <2>0, <2>2
  <2>3. CASE RegisterInsert(r)
    BY <2>1, <2>2, <2>3 DEF RegisterInsert
  <2>4. CASE InviteInsert(r)
    BY <2>1, <2>2, <2>4 DEF InviteInsert
  <2>5. CASE RoleWrite(r)
    <3>1. issued' = issued
      BY <2>5 DEF RoleWrite
    <3>2. CASE Row(users, req[r].call.id)
      <4>1. users' = [users EXCEPT ![req[r].call.id].role = req[r].call.role]
        BY <2>5, <3>2 DEF RoleWrite
      <4>2. req[r].call.id \in Users
        BY <2>5, CallsAssumption DEF RoleWrite, At, Inv, TypeOK, RequestsOK, Held
      <4>3. \A u \in Users : u # req[r].call.id => users'[u] = users[u]
        BY <2>0, <4>1 DEF UserTable
      <4>4. users'[req[r].call.id].org = users[req[r].call.id].org
        BY <2>0, <3>2, <4>1, <4>2 DEF UserTable, UserRow, Row
      <4> QED BY <2>0, <3>1, <3>2, <4>3, <4>4 DEF Row
    <3> QED BY <2>2, <2>5, <3>1, <3>2 DEF RoleWrite
  <2>6. CASE UserDelete(r)
    <3>1. issued' = issued /\ (users' = users \/ users' = Delete(users, req[r].call.id))
      BY <2>6 DEF UserDelete
    <3> QED BY <2>0, <3>1 DEF Delete, UserTable, Row
  <2> QED BY <2>3, <2>4, <2>5, <2>6
<1>5. RowsStay
  BY <1>2, <1>3, <1>4 DEF RowsStay, SameRefs
<1>6. RowsIssued'
  BY <1>2, <1>3, <1>4 DEF RowsIssued, Tenancy, SameRefs, Row
<1> QED BY <1>1, <1>3, <1>5, <1>6, Written

(* ---- tasks inside their organization ---------------------------------------------------------- *)

LEMMA InitTenancy == Init => Tenancy
<1> SUFFICES ASSUME Init PROVE Tenancy
  OBVIOUS
<1>1. RowsIssued
  BY DEF Init, SchemaInit, RowsIssued
<1>2. AllEstablished
  BY DEF Init, RequestInit, Idle, AllEstablished, Established
<1>3. TenantIntegrity
  BY SchemaAssumption DEF Init, SchemaInit, LegalTables, TenantIntegrity, Row
<1> QED BY <1>1, <1>2, <1>3 DEF Tenancy

LEMMA NextTenancy ==
  ASSUME Inv, Inv', Tenancy, [Next]_vars
  PROVE  Tenancy'
<1>1. ASSUME NEW r \in Requests, ArrivePublic(r) \/ Arrive(r) PROVE Tenancy'
  BY <1>1, ArrivePublicTenancy, ArriveTenancy
<1>2. ASSUME NEW r \in Requests, TasksNext(r) PROVE Tenancy'
  BY <1>2, ReadsPlain, PlainRead, CreateAssigneeTenancy, CreateProjectCheckTenancy,
     CreateInsertTenancy, UpdateFindTenancy, UpdateAssigneeTenancy, UpdateWriteTenancy,
     StatusWriteTenancy, DeleteWriteTenancy DEF TasksNext
<1>3. ASSUME NEW r \in Requests, ProjectsNext(r) \/ AccountsNext(r) PROVE Tenancy'
  BY <1>3, ReadsPlain, PlainRead, ProjectWriteTenancy, AccountWriteTenancy
  DEF ProjectsNext, AccountsNext
<1>4. ASSUME NEW r \in Requests, Reply(r) PROVE Tenancy'
  BY <1>4, ReplyPlain, PlainRead DEF Reply
<1>5. ASSUME NEW k \in Key, EntryExpires(k) PROVE Tenancy'
  BY <1>5, ExpiryTenancy
<1>6. CASE Crash
  BY <1>6, CrashTenancy
<1>7. CASE UNCHANGED vars
  BY <1>7, NobodyMoves DEF vars
<1> QED BY <1>1, <1>2, <1>3, <1>4, <1>5, <1>6, <1>7 DEF Next, Step

\* No task points outside its organization, whatever is deleted between the
\* look-ups of createTask and updateTask and their writes.
THEOREM TasksStayInside == Spec => []TenantIntegrity
<1>1. Inv /\ Tenancy /\ [Next]_vars => Inv' /\ Tenancy'
  BY NextInv, NextTenancy
<1>2. Tenancy => TenantIntegrity
  BY DEF Tenancy
<1> QED BY <1>1, <1>2, InitInv, InitTenancy, PTL DEF Spec

(* ---- the completion date -------------------------------------------------------------------------- *)

\* It is enough that a task that is DONE after the step has a date, or is as
\* it was in both respects.
LEMMA StampKept ==
  ASSUME DoneIsStamped,
         \A t \in Tasks : Row(tasks', t) /\ tasks'[t].status = "DONE" =>
           \/ tasks'[t].completedAt
           \/ /\ Row(tasks, t) /\ tasks[t].status = "DONE"
              /\ tasks'[t].completedAt = tasks[t].completedAt
  PROVE  DoneIsStamped'
BY DEF DoneIsStamped, Row

LEMMA TasksKeepStamp ==
  ASSUME DoneIsStamped, tasks' = tasks
  PROVE  DoneIsStamped'
BY DEF DoneIsStamped, Row

LEMMA CreateInsertStamp ==
  ASSUME Inv, DoneIsStamped, NEW r \in Requests, CreateInsert(r)
  PROVE  DoneIsStamped'
<1> DEFINE row == NewTask(req[r].user, req[r].call)
<1>1. CASE tasks' = tasks
  BY <1>1, TasksKeepStamp
<1>2. CASE \E t \in Tasks : tasks' = Insert(tasks, t, row)
  <2>1. row.status = "TODO"
    BY DEF NewTask
  <2> HIDE DEF row
  <2> QED BY <1>2, <2>1, StampKept DEF Insert, Inv, TypeOK, DataOK, TaskTable, Row
<1> QED BY <1>1, <1>2 DEF CreateInsert

LEMMA UpdateWriteStamp ==
  ASSUME Inv, DoneIsStamped, NEW r \in Requests, UpdateWrite(r)
  PROVE  DoneIsStamped'
<1> DEFINE c == req[r].call
           row == Patched(tasks[c.id], c)
<1>1. CASE tasks' = tasks
  BY <1>1, TasksKeepStamp
<1>2. CASE Row(tasks, c.id) /\ tasks' = Insert(tasks, c.id, row)
  <2>1. c.id \in Tasks
    BY CallsAssumption DEF UpdateWrite, At, Inv, TypeOK, RequestsOK, Routed, Held
  <2>2. row.status = tasks[c.id].status /\ row.completedAt = tasks[c.id].completedAt
    BY <1>2, <2>1 DEF Patched, Row, Inv, TypeOK, DataOK, TaskTable, TaskRow
  <2> HIDE DEF row
  <2> QED BY <1>2, <2>1, <2>2, StampKept DEF Insert, Inv, TypeOK, DataOK, TaskTable, Row
<1> QED BY <1>1, <1>2 DEF UpdateWrite

LEMMA StatusWriteStamp ==
  ASSUME Inv, DoneIsStamped, NEW r \in Requests, StatusWrite(r)
  PROVE  DoneIsStamped'
<1> DEFINE c == req[r].call
           row == Moved(tasks[c.id], c.status)
<1>1. CASE tasks' = tasks
  BY <1>1, TasksKeepStamp
<1>2. CASE Row(tasks, c.id) /\ tasks' = Insert(tasks, c.id, row)
  <2>1. c.id \in Tasks
    BY CallsAssumption DEF StatusWrite, At, Inv, TypeOK, RequestsOK, Routed, Held
  <2>2. row.status = "DONE" => row.completedAt
    BY <1>2, <2>1 DEF Moved, Row, Inv, TypeOK, DataOK, TaskTable, TaskRow
  <2> HIDE DEF row
  <2> QED BY <1>2, <2>1, <2>2, StampKept DEF Insert, Inv, TypeOK, DataOK, TaskTable, Row
<1> QED BY <1>1, <1>2 DEF StatusWrite

LEMMA DeleteWriteStamp ==
  ASSUME Inv, DoneIsStamped, NEW r \in Requests, DeleteWrite(r)
  PROVE  DoneIsStamped'
<1>1. tasks' = tasks \/ tasks' = Delete(tasks, req[r].call.id)
  BY DEF DeleteWrite
<1> QED BY <1>1, StampKept DEF DoneIsStamped, Delete, Inv, TypeOK, DataOK, TaskTable, Row

LEMMA UserDeleteStamp ==
  ASSUME Inv, DoneIsStamped, NEW r \in Requests, UserDelete(r)
  PROVE  DoneIsStamped'
<1>1. CASE tasks' = tasks
  BY <1>1, TasksKeepStamp
<1>2. CASE tasks' = UnassignAll(req[r].call.id)
  <2>1. \A t \in Tasks : Row(tasks', t) =>
          /\ Row(tasks, t) /\ tasks'[t].status = tasks[t].status
          /\ tasks'[t].completedAt = tasks[t].completedAt
    BY <1>2 DEF UnassignAll, Row, Inv, TypeOK, DataOK, TaskTable, TaskRow
  <2> QED BY <2>1, StampKept
<1> QED BY <1>1, <1>2 DEF UserDelete

LEMMA NextStamp ==
  ASSUME Inv, DoneIsStamped, [Next]_vars
  PROVE  DoneIsStamped'
<1>1. ASSUME NEW r \in Requests, TasksNext(r) PROVE DoneIsStamped'
  <2>1. \/ CreateInsert(r) \/ UpdateWrite(r) \/ StatusWrite(r) \/ DeleteWrite(r)
        \/ CreateAssignee(r) \/ CreateProjectCheck(r) \/ UpdateFind(r) \/ UpdateAssignee(r)
        \/ UNCHANGED tables
    BY <1>1, ReadsPlain DEF TasksNext
  <2>2. ASSUME UNCHANGED tables PROVE tasks' = tasks
    BY <2>2 DEF tables
  <2> QED BY <2>1, <2>2, CreateInsertStamp, UpdateWriteStamp, StatusWriteStamp, DeleteWriteStamp,
             TasksKeepStamp DEF CreateAssignee, CreateProjectCheck, UpdateFind, UpdateAssignee
<1>2. ASSUME NEW r \in Requests, ProjectsNext(r) PROVE DoneIsStamped'
  <2>1. tasks' = tasks
    BY <1>2 DEF ProjectsNext, ProjectInsert, ProjectFind, ProjectUpdate, ProjectDelete, tables
  <2> QED BY <2>1, TasksKeepStamp
<1>3. ASSUME NEW r \in Requests, AccountsNext(r) PROVE DoneIsStamped'
  <2>1. CASE UserDelete(r)
    BY <2>1, UserDeleteStamp
  <2>2. CASE ~UserDelete(r)
    <3>1. tasks' = tasks
      BY <1>3, <2>2 DEF AccountsNext, AccountFind, RegisterInsert, InviteInsert, UserFind,
                        RoleWrite, tables
    <3> QED BY <3>1, TasksKeepStamp
  <2> QED BY <2>1, <2>2
<1>4. ASSUME \/ \E r \in Requests : ArrivePublic(r) \/ Arrive(r) \/ Reply(r)
             \/ \E k \in Key : EntryExpires(k)
             \/ Crash
             \/ UNCHANGED vars
      PROVE  DoneIsStamped'
  <2>1. tasks' = tasks
    BY <1>4 DEF ArrivePublic, Arrive, Reply, EntryExpires, Crash, vars, tables
  <2> QED BY <2>1, TasksKeepStamp
<1> QED BY <1>1, <1>2, <1>3, <1>4 DEF Next, Step

\* A DONE task has its completion date, whatever requests race on it.
THEOREM DoneTasksAreStamped == Spec => []DoneIsStamped
<1>1. Init => DoneIsStamped
  BY SchemaAssumption DEF Init, SchemaInit, LegalTables, DoneIsStamped, Row
<1>2. Inv /\ DoneIsStamped /\ [Next]_vars => Inv' /\ DoneIsStamped'
  BY NextInv, NextStamp
<1> QED BY <1>1, <1>2, InitInv, PTL DEF Spec
=============================================================================
