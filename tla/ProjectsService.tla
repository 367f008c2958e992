-------------------------- MODULE ProjectsService --------------------------
(***************************************************************************)
(* modules/projects/projects.service.js: create, rename and delete a       *)
(* project of the caller's organization.                                   *)
(***************************************************************************)
EXTENDS Requests

ProjectInsert(r) ==
  /\ At(r, "project.insert")
  /\ \E p \in Projects \ issued :
       /\ projects' = Insert(projects, p, [org |-> req[r].user.org, name |-> req[r].call.name])
       /\ issued' = issued \cup {p}
  /\ Answer(r, 201)
  /\ UNCHANGED <<orgs, users, tasks, redis>>

\* getProject, which updateProject and deleteProject call first.
ProjectFind(r) ==
  /\ At(r, "project.find")
  /\ IF InOrg(projects, req[r].call.id, req[r].user.org) = Null THEN Answer(r, 404)
     ELSE Goto(r, "project.write")
  /\ UNCHANGED <<tables, redis>>

\* A project gone in the meantime is error P2025.
ProjectUpdate(r) ==
  /\ At(r, "project.write") /\ req[r].call.op = "updateProject"
  /\ LET p == req[r].call.id
     IN IF Row(projects, p)
        THEN projects' = [projects EXCEPT ![p].name = req[r].call.name] /\ Answer(r, 200)
        ELSE Answer(r, 500) /\ UNCHANGED projects
  /\ UNCHANGED <<orgs, users, tasks, issued, redis>>

\* Task_projectId is ON DELETE RESTRICT: a project with tasks is P2003.
ProjectDeletable(p) == Row(projects, p) /\ ~HasTasks(p)

ProjectDelete(r) ==
  /\ At(r, "project.write") /\ req[r].call.op = "deleteProject"
  /\ LET p == req[r].call.id
     IN IF ProjectDeletable(p)
        THEN projects' = Delete(projects, p) /\ Answer(r, 200)
        ELSE Answer(r, 500) /\ UNCHANGED projects
  /\ UNCHANGED <<orgs, users, tasks, issued, redis>>

ProjectsNext(r) ==
  ProjectInsert(r) \/ ProjectFind(r) \/ ProjectUpdate(r) \/ ProjectDelete(r)
=============================================================================
