------------------------------ MODULE Accounts ------------------------------
(***************************************************************************)
(* The operations on user accounts: register of auth.service.js and        *)
(* inviteUser, updateUserRole and deleteUser of users.service.js.          *)
(***************************************************************************)
EXTENDS Requests

\* Mutant: the look-up before the insert dropped.
NeverDuplicate(r) == FALSE

\* findUnique({ where: { email } })
Duplicate(r) == EmailTaken(req[r].call.email)

\* The look-up, then the hashing of the password, then the insert.
AccountFind(r) ==
  /\ req[r].pc \in {"register.find", "invite.find"}
  /\ IF Duplicate(r) THEN Answer(r, 409)
     ELSE Goto(r, IF At(r, "register.find") THEN "register.insert" ELSE "invite.insert")
  /\ UNCHANGED <<tables, redis>>

AddUser(u, org, role, email) ==
  /\ users' = Insert(users, u, [org |-> org, role |-> role, email |-> email])
  /\ issued' = issued \cup {u}

\* One transaction: the organization and its ADMIN, or neither (P2002).
RegisterInsert(r) ==
  /\ At(r, "register.insert")
  /\ LET email == req[r].call.email
     IN IF EmailTaken(email) THEN Answer(r, 500) /\ UNCHANGED <<orgs, users, issued>>
        ELSE /\ \E o \in Orgs \ orgs, u \in Users \ issued :
                  orgs' = orgs \cup {o} /\ AddUser(u, o, "ADMIN", email)
             /\ Answer(r, 201)
  /\ UNCHANGED <<projects, tasks, redis>>

InviteInsert(r) ==
  /\ At(r, "invite.insert")
  /\ LET c == req[r].call
     IN IF EmailTaken(c.email) THEN Answer(r, 500) /\ UNCHANGED <<users, issued>>
        ELSE /\ \E u \in Users \ issued : AddUser(u, req[r].user.org, c.role, c.email)
             /\ Answer(r, 201)
  /\ UNCHANGED <<orgs, projects, tasks, redis>>

\* The target must be in the caller's organization.
UserFind(r) ==
  /\ At(r, "user.find")
  /\ IF InOrg(users, req[r].call.id, req[r].user.org) = Null THEN Answer(r, 404)
     ELSE Goto(r, "user.write")
  /\ UNCHANGED <<tables, redis>>

RoleWrite(r) ==
  /\ At(r, "user.write") /\ req[r].call.op = "updateUserRole"
  /\ LET u == req[r].call.id
     IN IF Row(users, u)
        THEN users' = [users EXCEPT ![u].role = req[r].call.role] /\ Answer(r, 200)
        ELSE Answer(r, 500) /\ UNCHANGED users
  /\ UNCHANGED <<orgs, projects, tasks, issued, redis>>

\* ON DELETE RESTRICT for the tasks created (P2003), SET NULL for those
\* assigned; no cached list is invalidated.
UserDelete(r) ==
  /\ At(r, "user.write") /\ req[r].call.op = "deleteUser"
  /\ LET u == req[r].call.id
     IN IF Row(users, u) /\ ~HasCreated(u)
        THEN /\ users' = Delete(users, u)
             /\ tasks' = UnassignAll(u)
             /\ Answer(r, 200)
        ELSE Answer(r, 500) /\ UNCHANGED <<users, tasks>>
  /\ UNCHANGED <<orgs, projects, issued, redis>>

AccountsNext(r) ==
  AccountFind(r) \/ RegisterInsert(r) \/ InviteInsert(r)
  \/ UserFind(r) \/ RoleWrite(r) \/ UserDelete(r)
=============================================================================
