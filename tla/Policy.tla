------------------------------- MODULE Policy -------------------------------
(***************************************************************************)
(* The static rules of the tracker: the enumerations and the transition    *)
(* map of constants/index.js, and the roles each route hands to            *)
(* authorize(...) in the *.routes.js files.                                *)
(***************************************************************************)

Roles      == {"ADMIN", "MANAGER", "MEMBER"}
Statuses   == {"TODO", "IN_PROGRESS", "IN_REVIEW", "DONE", "BLOCKED"}
Priorities == {"LOW", "MEDIUM", "HIGH"}
Managers   == {"ADMIN", "MANAGER"}

\* Mutant: DONE can be reopened.
ReopeningTransitions ==
  { <<"TODO", "IN_PROGRESS">>, <<"TODO", "BLOCKED">>,
    <<"IN_PROGRESS", "IN_REVIEW">>, <<"IN_PROGRESS", "BLOCKED">>,
    <<"IN_REVIEW", "DONE">>, <<"IN_REVIEW", "BLOCKED">>, <<"DONE", "IN_REVIEW">>,
    <<"BLOCKED", "TODO">>, <<"BLOCKED", "IN_PROGRESS">>, <<"BLOCKED", "IN_REVIEW">> }

\* ALLOWED_TRANSITIONS as a set of <<from, to>> pairs; DONE has no exit.
AllowedTransitions ==
  { <<"TODO", "IN_PROGRESS">>,      <<"TODO", "BLOCKED">>,
    <<"IN_PROGRESS", "IN_REVIEW">>, <<"IN_PROGRESS", "BLOCKED">>,
    <<"IN_REVIEW", "DONE">>,        <<"IN_REVIEW", "BLOCKED">>,
    <<"BLOCKED", "TODO">>, <<"BLOCKED", "IN_PROGRESS">>,
    <<"BLOCKED", "IN_REVIEW">> }

\* The state-changing or cache-touching operations, by service.
TaskOps    == {"listTasks", "getTask", "createTask", "updateTask",
               "updateTaskStatus", "deleteTask"}
ProjectOps == {"createProject", "updateProject", "deleteProject"}
AccountOps == {"register", "inviteUser", "updateUserRole", "deleteUser"}
Ops        == TaskOps \cup ProjectOps \cup AccountOps

\* What each route hands to authorize(...); the users router does so for all
\* of its routes.
AccountRoles       == {"ADMIN"}
DeleteProjectRoles == {"ADMIN"}
CreateProjectRoles == Managers
UpdateProjectRoles == Managers
CreateTaskRoles    == Managers
UpdateTaskRoles    == Managers
DeleteTaskRoles    == Managers

\* The roles an operation's route admits.  The other task routes admit every
\* authenticated user, and register has no caller.
Admitted(op) ==
  CASE op \in {"inviteUser", "updateUserRole", "deleteUser"} -> AccountRoles
    [] op = "deleteProject" -> DeleteProjectRoles
    [] op = "createProject" -> CreateProjectRoles
    [] op = "updateProject" -> UpdateProjectRoles
    [] op = "createTask"    -> CreateTaskRoles
    [] op = "updateTask"    -> UpdateTaskRoles
    [] op = "deleteTask"    -> DeleteTaskRoles
    [] OTHER -> Roles

\* Mutant: the routes of MANAGERs without authorize(...).
AuthorizedAnyone(role, op) == Admitted(op) = Managers \/ role \in Admitted(op)

Authorized(role, op) == role \in Admitted(op)
=============================================================================
