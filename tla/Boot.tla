-------------------------------- MODULE Boot --------------------------------
(***************************************************************************)
(* The life of the container: entrypoint.sh runs the migration, the seed   *)
(* and the server; a signal closes the server; Docker restarts what exits. *)
(* PostgreSQL and Redis can be away for a while.  While the server listens *)
(* the tables change as TaskBoard permits, by the operations that touch    *)
(* what the next seed looks up.                                            *)
(***************************************************************************)
EXTENDS Schema, Naturals

CONSTANTS MaxFaults,   \* bound: process deaths and outages
          MaxUses      \* bound: operations of the API

VARIABLES
  demo,      \* the organizations named 'Demo Corp'; names are not unique
  boot,      \* the process: where it is and what main() of the seed holds
  up,        \* which of PostgreSQL and Redis can be reached
  migration, \* the record of the one migration in _prisma_migrations
  faults, uses,
  untouched  \* history: the seed has completed and the API changed nothing since

bootVars == <<tables, demo, boot, up, faults, uses, untouched, migration>>

\* No record; a record without finished_at; a finished one.
Migrations == {"none", "started", "applied"}

SeedPCs == {"seed.org", "seed.ADMIN", "seed.MANAGER", "seed.MEMBER", "seed.project", "seed.tasks"}
BootPCs == {"migrate", "migrate.apply"} \cup SeedPCs
             \cup {"redis", "db", "serving", "closing", "exited", "stopped"}

Fresh == [pc |-> "migrate", org |-> Null, people |-> [r \in Roles |-> Null], project |-> Null]
Exited == [Fresh EXCEPT !.pc = "exited"]

\* The demo address of a role is written as the role.
DemoProject == "Demo Project"
ASSUME BootAssumption ==
  /\ Roles \subseteq Emails /\ DemoProject \in Names
  /\ MaxFaults \in Nat /\ MaxUses \in Nat

Running(pc) == boot.pc = pc
After(pc) == [boot EXCEPT !.pc = pc]

\* A command of the seed fails when PostgreSQL is away: exit(1), and set -e
\* keeps the server from starting.
Command(pc) == Running(pc) /\ "db" \in up /\ UNCHANGED <<up, faults, uses, untouched>>
SeedStep(pc) == Command(pc) /\ UNCHANGED migration
SeedFails ==
  /\ boot.pc \in {"migrate", "migrate.apply", "db"} \cup SeedPCs /\ "db" \notin up
  /\ boot' = Exited
  /\ UNCHANGED <<tables, demo, up, faults, uses, untouched, migration>>

\* prisma migrate deploy reads the record: a migration that is not applied is
\* recorded as started, then run; one that was started and not finished is
\* error P3009, and set -e ends the entrypoint.
MigrateCheck ==
  /\ Command("migrate")
  /\ \/ migration = "none" /\ boot' = After("migrate.apply") /\ migration' = "started"
     \/ migration = "started" /\ boot' = Exited /\ UNCHANGED migration
     \/ migration = "applied" /\ boot' = After("seed.org") /\ UNCHANGED migration
  /\ UNCHANGED <<tables, demo>>

\* Its one script makes the tables, and the record gets its finished_at.
MigrateApply ==
  /\ Command("migrate.apply")
  /\ boot' = After("seed.org")
  /\ migration' = "applied"
  /\ UNCHANGED <<tables, demo>>

Migrate == MigrateCheck \/ MigrateApply

(* ---- the seed: each step is a look-up and the insert it decides ------------ *)

\* The uuid of a new row; which of those left does not matter.
\* Bound: an insert waits for an id to be left.
Pick(ids) == CHOOSE id \in ids : TRUE

\* Mutant: an organization that exists ends the seed.
SkipAllAfterOrg == "redis"
AfterOrgFound == "seed.ADMIN"

\* findFirst without an order: any organization of that name.
SeedOrg ==
  /\ SeedStep("seed.org")
  /\ \/ \E o \in demo : boot' = [After(AfterOrgFound) EXCEPT !.org = o]
        /\ UNCHANGED <<orgs, demo>>
     \/ /\ demo = {} /\ Orgs \ orgs # {}
        /\ LET o == Pick(Orgs \ orgs)
           IN /\ orgs' = orgs \cup {o} /\ demo' = {o}
              /\ boot' = [After("seed.ADMIN") EXCEPT !.org = o]
  /\ UNCHANGED <<users, projects, tasks, issued>>

\* Mutant: the look-up restricted to the organization.
FoundAtHome(role) ==
  {u \in Users : Row(users, u) /\ users[u].email = role /\ users[u].org = boot.org}

\* Mutant: the look-up by role instead of address.
FoundByRole(role) == {u \in Users : Row(users, u) /\ users[u].role = role}

\* findUnique({ where: { email } })
Found(role) == {u \in Users : Row(users, u) /\ users[u].email = role}

\* A demo account wherever it is, else a new one: P2002 if the address is
\* taken after all.
SeedUser(pc, role, then) ==
  /\ SeedStep(pc)
  /\ \/ /\ \E u \in Found(role) : boot' = [After(then) EXCEPT !.people[role] = u]
        /\ UNCHANGED <<users, issued>>
     \/ /\ Found(role) = {} /\ Users \ issued # {}
        /\ LET u == Pick(Users \ issued)
           IN IF EmailTaken(role) THEN boot' = Exited /\ UNCHANGED <<users, issued>>
              ELSE /\ users' = Insert(users, u, [org |-> boot.org, role |-> role, email |-> role])
                   /\ issued' = issued \cup {u}
                   /\ boot' = [After(then) EXCEPT !.people[role] = u]
  /\ UNCHANGED <<orgs, projects, tasks, demo>>

DemoProjects(org) ==
  {p \in Projects : Row(projects, p) /\ projects[p] = [org |-> org, name |-> DemoProject]}

SeedProject ==
  /\ SeedStep("seed.project")
  /\ \/ /\ \E p \in DemoProjects(boot.org) : boot' = [After("seed.tasks") EXCEPT !.project = p]
        /\ UNCHANGED <<projects, issued>>
     \/ /\ DemoProjects(boot.org) = {} /\ Projects \ issued # {}
        /\ LET p == Pick(Projects \ issued)
           IN /\ projects' = Insert(projects, p, [org |-> boot.org, name |-> DemoProject])
              /\ issued' = issued \cup {p}
              /\ boot' = [After("seed.tasks") EXCEPT !.project = p]
  /\ UNCHANGED <<orgs, users, tasks, demo>>

\* A row of createMany.
Sample(creator, status, priority) ==
  [project |-> boot.project, assignee |-> boot.people["MEMBER"], creator |-> boot.people[creator],
   status |-> status, priority |-> priority, completedAt |-> status = "DONE"]

\* Mutant: no look at the tasks there are.
AlwaysEmpty(p) == TRUE
NoTasks(p) == ~HasTasks(p)

SeedTasks ==
  /\ SeedStep("seed.tasks")
  /\ boot' = After("redis")
  /\ IF NoTasks(boot.project)
     THEN LET left == Tasks \ issued
              a == Pick(left)
              b == Pick(left \ {a})
              c == Pick(left \ {a, b})
          IN /\ left # {} /\ left \ {a} # {} /\ left \ {a, b} # {}
             /\ tasks' = [tasks EXCEPT ![a] = Sample("ADMIN", "DONE", "HIGH"),
                                       ![b] = Sample("MANAGER", "IN_PROGRESS", "HIGH"),
                                       ![c] = Sample("MANAGER", "TODO", "MEDIUM")]
             /\ issued' = issued \cup {a, b, c}
     ELSE UNCHANGED <<tasks, issued>>
  /\ UNCHANGED <<orgs, users, projects, demo>>

Seed ==
  \/ SeedOrg \/ SeedProject \/ SeedTasks
  \/ SeedUser("seed.ADMIN", "ADMIN", "seed.MANAGER")
  \/ SeedUser("seed.MANAGER", "MANAGER", "seed.MEMBER")
  \/ SeedUser("seed.MEMBER", "MEMBER", "seed.project")

(* ---- the server ------------------------------------------------------------ *)

\* connectRedis: the client retries until Redis is there.
ConnectRedis ==
  /\ Running("redis") /\ "cache" \in up
  /\ boot' = After("db")
  /\ UNCHANGED <<tables, demo, up, faults, uses, untouched, migration>>

\* $connect (SeedFails when it fails), then listen.
Listen ==
  /\ Running("db") /\ "db" \in up
  /\ boot' = [Fresh EXCEPT !.pc = "serving"]
  /\ untouched' = TRUE
  /\ UNCHANGED <<tables, demo, up, faults, uses, migration>>

\* SIGTERM or SIGINT: server.close waits for the connections, then exit(0).
Signal ==
  /\ Running("serving")
  /\ boot' = After("closing")
  /\ UNCHANGED <<tables, demo, up, faults, uses, untouched, migration>>

\* docker compose stop, or a signal that Docker did not send.
Closed ==
  /\ Running("closing")
  /\ \E pc \in {"exited", "stopped"} : boot' = [Fresh EXCEPT !.pc = pc]
  /\ UNCHANGED <<tables, demo, up, faults, uses, untouched, migration>>

\* restart: unless-stopped, and docker compose up.
Restart ==
  /\ Running("exited") /\ boot' = Fresh
  /\ UNCHANGED <<tables, demo, up, faults, uses, untouched, migration>>
ComposeUp ==
  /\ Running("stopped") /\ boot' = Fresh
  /\ UNCHANGED <<tables, demo, up, faults, uses, untouched, migration>>

(* ---- the rest of the world -------------------------------------------------- *)

Board == INSTANCE TaskBoard

\* A new organization may be named 'Demo Corp' too.
Use ==
  /\ boot.pc \in {"serving", "closing"} /\ uses < MaxUses
  /\ \/ Board!AddAccount
     \/ \E u, v \in Users : Board!RemoveAccount(u, v)
     \/ \E u \in Users : Board!WriteProject(u)
     \/ \E u \in Users, t \in Tasks : Board!DeleteTask(u, t)
     \/ \E u \in Users, p \in Projects : Board!DeleteProject(u, p)
  /\ demo' \in {demo, demo \cup (orgs' \ orgs)}
  /\ uses' = uses + 1 /\ untouched' = FALSE
  /\ UNCHANGED <<boot, up, faults, migration>>

\* The process dies, or is killed by a stop it does not answer; what the
\* database committed stays.
Die ==
  /\ boot.pc \notin {"exited", "stopped"} /\ faults < MaxFaults
  /\ \E pc \in {"exited", "stopped"} : boot' = [Fresh EXCEPT !.pc = pc]
  /\ faults' = faults + 1
  /\ UNCHANGED <<tables, demo, up, uses, untouched, migration>>

Outage(s) ==
  /\ s \in up /\ faults < MaxFaults
  /\ up' = up \ {s} /\ faults' = faults + 1
  /\ UNCHANGED <<tables, demo, boot, uses, untouched, migration>>

Recover(s) ==
  /\ s \notin up /\ up' = up \cup {s}
  /\ UNCHANGED <<tables, demo, boot, faults, uses, untouched, migration>>

Services == {"db", "cache"}

\* The volume pgdata is new, or was used before.
NoTables ==
  /\ orgs = {} /\ users = [u \in Users |-> Null] /\ issued = {}
  /\ projects = [p \in Projects |-> Null] /\ tasks = [t \in Tasks |-> Null]

BootInit ==
  /\ \/ NoTables /\ demo = {} /\ migration = "none"
     \/ SchemaInit /\ demo \in SUBSET orgs /\ migration = "applied"
  /\ boot = Fresh /\ up = Services /\ faults = 0 /\ uses = 0 /\ untouched = FALSE

\* What the container does by itself.
BootStep ==
  Migrate \/ Seed \/ SeedFails \/ ConnectRedis \/ Listen \/ Closed \/ Restart

BootNext ==
  \/ BootStep \/ Signal \/ ComposeUp \/ Use \/ Die
  \/ \E s \in Services : Outage(s) \/ Recover(s)

\* A service that is away comes back; nobody owes a signal or an `up'.
BootSpec ==
  /\ BootInit /\ [][BootNext]_bootVars
  /\ WF_bootVars(BootStep) /\ \A s \in Services : WF_bootVars(Recover(s))

(* ---- properties ------------------------------------------------------------- *)

\* A container that was not stopped gets to serve, whatever a partial seed, the
\* API or an outage left behind: the seed digests it.  The one thing that ends
\* this for good, and with it "No manual setup required" (README.md:20), is a
\* migration that was cut off, whose record stays unfinished.
ServesAgain ==
  boot.pc \notin {"stopped", "closing"}
    ~> (boot.pc \in {"stopped", "serving"} \/ [](migration = "started"))

\* README.md:33: a server that listens has the accounts of the seed and a demo
\* project with tasks, although any earlier start may have died half way.
DemoReady ==
  untouched /\ Running("serving") =>
    /\ \A role \in Roles : EmailTaken(role)
    /\ \E o \in demo, p \in Projects : p \in DemoProjects(o) /\ HasTasks(p)

\* At most one organization and one of its projects have the demo names.
OneDemo ==
  /\ \A o, x \in demo : o = x
  /\ \A o \in demo : \A p, q \in DemoProjects(o) : p = q

\* "Idempotent seed -- safe to re-run" (seed.js:1): a start that follows a
\* completed one adds nothing, unless two rows answer one of its look-ups.
SeedIsIdempotent == [][untouched /\ untouched' /\ OneDemo => UNCHANGED tables]_bootVars

\* The seed looks accounts up by address in every organization, and so makes
\* tasks whose creator or assignee is a stranger; only demo addresses and a
\* second 'Demo Corp' lead it there, and no task names an account that is gone.
StrangersAreDemo ==
  \A t \in Tasks : Row(tasks, t) =>
    LET org == projects[tasks[t].project].org IN
    \A u \in {tasks[t].creator, tasks[t].assignee} \ {Null} :
      /\ Row(users, u)
      /\ users[u].org # org => users[u].email \in Roles /\ org \in demo
=============================================================================
