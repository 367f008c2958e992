------------------------------ MODULE Requests ------------------------------
(***************************************************************************)
(* The life of an HTTP request in the Node process: authenticate,          *)
(* authorize and validate, then the handler, suspended at each await, then *)
(* the answer.  A request slot is a concurrent request: with one slot the  *)
(* server handles requests one at a time, with more their steps interleave.*)
(* The code between two awaits runs in one piece, so a step is one database*)
(* or Redis command followed by the synchronous code up to the next await. *)
(***************************************************************************)
EXTENDS CacheHelper, Sequences, Naturals, FiniteSets

CONSTANTS
  Requests,   \* request slots
  Absent,     \* undefined: a field the client did not send
  Calls       \* the calls clients make (a bound on inputs)

VARIABLE req

\* A call: the user id in the bearer token (register has none), the :id of
\* the path, and the fields of the body or query.
Call == [op : Ops, caller : Users \cup {Null},
         id : Users \cup Projects \cup Tasks \cup {Null},
         project : Projects \cup {Null},
         assignee : Users \cup {Null, Absent, "all"},
         status : Statuses \cup {"all"},
         priority : Priorities \cup {Absent, "all"},
         role : Roles, email : Emails, name : Names]

ASSUME CallsAssumption ==
  /\ Absent \notin Users \cup Priorities \cup {Null}
  /\ Null # "all"
  /\ \A c \in Calls :
       /\ c \in Call
       /\ c.op # "register" => c.caller \in Users
       /\ c.op = "listTasks" => /\ c.status \in StatusFilters
                                /\ c.priority \in PriorityFilters
                                /\ c.assignee # Null
       /\ c.op = "createTask" => /\ c.project \in Projects
                                 /\ c.assignee # "all" /\ c.priority # "all"
       /\ c.op \in {"getTask", "updateTask", "updateTaskStatus", "deleteTask"} => c.id \in Tasks
       /\ c.op = "updateTask" => c.assignee # "all" /\ c.priority # "all"
       /\ c.op = "updateTaskStatus" => c.status \in Statuses
       /\ c.op \in {"updateProject", "deleteProject"} => c.id \in Projects
       /\ c.op \in {"updateUserRole", "deleteUser"} => c.id \in Users

User == [id : Users, role : Roles, org : Orgs]   \* req.user

\* Control points are named service.step; the step is the next await.
ListPCs    == {"list.get", "list.query", "list.setex", "list.sadd"}
CreatePCs  == {"create.assignee", "create.project", "create.insert"}
UpdatePCs  == {"update.find", "update.assignee", "update.write"}
StatusPCs  == {"status.find", "status.write"}
DeletePCs  == {"delete.find", "delete.write"}
TaskPCs    == ListPCs \cup {"get.find"} \cup CreatePCs \cup UpdatePCs
                \cup StatusPCs \cup DeletePCs
InvalPCs   == {"inval.smembers", "inval.del", "inval.delset"}
ProjectPCs == {"project.insert", "project.find", "project.write"}
PublicPCs  == {"register.find", "register.insert"}
AccountPCs == {"invite.find", "invite.insert", "user.find", "user.write"}
HandlerPCs == TaskPCs \cup InvalPCs \cup ProjectPCs \cup PublicPCs \cup AccountPCs

\* What a suspended handler holds: the call, req.user, the task row it read,
\* the result it is about to cache or return, the users whose lists it must
\* still invalidate, the keys SMEMBERS returned, the status it will answer.
Idle == [pc |-> "idle", call |-> Null, user |-> Null, row |-> Null,
         page |-> Null, todo |-> <<>>, keys |-> {}, code |-> 0]

Locals == [pc : HandlerPCs \cup {"idle", "done"}, call : Calls \cup {Null},
           user : User \cup {Null}, row : TaskRow \cup {Null}, page : Result \cup {Null},
           todo : Seq(Users), keys : SUBSET Key, code : Nat]

RequestInit == req = [r \in Requests |-> Idle]

At(r, pc) == req[r].pc = pc
Goto(r, pc) == req' = [req EXCEPT ![r].pc = pc]

\* The answer: the code and, for a list, its page; the locals are gone.
Answered(call, user, code, page) ==
  [Idle EXCEPT !.pc = "done", !.call = call, !.user = user, !.code = code, !.page = page]
Answer(r, code) ==
  req' = [req EXCEPT ![r] = Answered(@.call, @.user, code, Null)]
AnswerPage(r, page) ==
  req' = [req EXCEPT ![r] = Answered(@.call, @.user, 200, page)]

\* The Joi schemas, where they restrict the calls above: no ADMIN by invite,
\* at least one field to update, a filter by assignee must be a uuid.
Valid(c) ==
  /\ c.op = "inviteUser" => c.role # "ADMIN"
  /\ c.op = "updateTask" => c.assignee # Absent \/ c.priority # Absent
  /\ c.op = "listTasks" => c.assignee # "all"

\* Mutant: the self check of the users service dropped.
NeverOwnAccount(c) == FALSE

\* "You cannot change your own role / delete your own account".
OwnAccount(c) == c.op \in {"updateUserRole", "deleteUser"} /\ c.id = c.caller

\* The first await of each handler.
FirstStep(c) ==
  CASE c.op = "listTasks"        -> "list.get"
    [] c.op = "getTask"          -> "get.find"
    [] c.op = "createTask"       -> IF c.assignee \in Users THEN "create.assignee"
                                                            ELSE "create.project"
    [] c.op = "updateTask"       -> "update.find"
    [] c.op = "updateTaskStatus" -> "status.find"
    [] c.op = "deleteTask"       -> "delete.find"
    [] c.op = "createProject"    -> "project.insert"
    [] c.op \in {"updateProject", "deleteProject"} -> "project.find"
    [] c.op = "inviteUser"       -> "invite.find"
    [] c.op \in {"updateUserRole", "deleteUser"} -> "user.find"
    [] c.op = "register"         -> "register.find"

\* Bound: a call that creates a row is admitted only while an id is left for
\* it and for every request in flight of its kind.
IdsLeft(c) ==
  LET InFlight(ops) == Cardinality({r \in Requests : ~At(r, "idle") /\ req[r].call.op \in ops})
      Left(pool, ops) == c.op \in ops => Cardinality(pool \ issued) > InFlight(ops)
  IN /\ Left(Tasks, {"createTask"})
     /\ Left(Projects, {"createProject"})
     /\ Left(Users, {"inviteUser", "register"})
     /\ c.op = "register" => Cardinality(Orgs \ orgs) > InFlight({"register"})

\* A request to POST /auth/register, which no middleware guards.
ArrivePublic(r) ==
  /\ At(r, "idle")
  /\ \E c \in Calls :
       /\ c.op = "register" /\ IdsLeft(c)
       /\ req' = [req EXCEPT ![r].pc = FirstStep(c), ![r].call = c]
  /\ UNCHANGED <<tables, redis>>

\* authenticate reads the caller's current role and organization; authorize
\* and validate follow in the same turn.  The token's user existed once.
Arrive(r) ==
  /\ At(r, "idle")
  /\ \E c \in Calls :
       /\ c.op # "register" /\ IdsLeft(c)
       /\ c.caller \in issued
       /\ LET row  == users[c.caller]
              user == [id |-> c.caller, role |-> row.role, org |-> row.org]
          IN req' = [req EXCEPT ![r] =
               IF ~Row(users, c.caller)             THEN Answered(c, Null, 401, Null)
               ELSE IF ~Authorized(row.role, c.op)  THEN Answered(c, user, 403, Null)
               ELSE IF ~Valid(c) \/ OwnAccount(c)   THEN Answered(c, user, 400, Null)
               ELSE [Idle EXCEPT !.pc = FirstStep(c), !.call = c, !.user = user]]
  /\ UNCHANGED <<tables, redis>>

\* The response leaves the server.
Reply(r) ==
  /\ At(r, "done")
  /\ req' = [req EXCEPT ![r] = Idle]
  /\ UNCHANGED <<tables, redis>>

\* The process dies and is restarted: PostgreSQL and Redis keep their state,
\* every request in flight is lost.
Crash ==
  /\ \E r \in Requests : ~At(r, "idle")
  /\ req' = [r \in Requests |-> Idle]
  /\ UNCHANGED <<tables, redis>>
=============================================================================
