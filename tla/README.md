# A TLA+ model of the team task tracker

The tracker is a multi-tenant REST API: Express on one Node process, Prisma over
PostgreSQL, and Redis as a cache of task lists. Organizations own users and
projects, projects own tasks. This directory models what the server does with
its tables, its cache, its sessions and the requests in flight, and how its
container starts, seeds the database and stops. TLC checks the models on small
instances. TLAPS proves every safety property and action property that the
passing runs check, for instances of any size: those that hold however many requests
run at once, those that need requests one at a time, and those of the sessions and of
the start.

Paths below are relative to the repository.

## 1. Inventory

| Part | State | Operations | Source | Model |
|---|---|---|---|---|
| Static rules | none | roles, statuses, priorities, `ALLOWED_TRANSITIONS`, the roles of each route | `src/constants`, `*.routes.js`, `rbac.middleware.js` | `Policy` |
| Database | `Organization`, `User`, `Project`, `Task`, `RefreshToken` | inserts, updates and deletes with foreign keys, unique indexes and referential actions | `prisma/schema.prisma`, the init migration | `Schema`; `RefreshToken` in `Sessions` |
| Cache helper | Redis: list entries with a TTL of one hour, per assignee the set of its keys; the client's queue of commands | `buildCacheKey`, `getCache`, `setCache`, `invalidateUserCache` | `src/utils/cacheHelper.js`, `config/redis.js` | `CacheHelper` and, step by step, `TasksService`; `OfflineQueue` |
| Request pipeline | `req.user`, the locals of each suspended handler | `authenticate`, `authorize`, `validate`, error handler | `src/middlewares`, `asyncHandler.js` | `Requests` |
| Tasks service | none of its own | list, get, create, update, change of status, delete | `src/modules/tasks` | `TasksService` |
| Projects service | none | create, rename, delete; get and list | `src/modules/projects` | `ProjectsService` |
| Users service, registration | none | register, invite, change of role, delete; list | `src/modules/users`, `auth.service.js` | `Accounts` |
| Sessions | `RefreshToken` rows, cookies | login, refresh with rotation and breach revocation, logout | `auth.service.js`, `jwtHelper.js` | `Sessions`, `SessionBoard` |
| Analytics | none | two SQL reads and their merge | `src/modules/analytics` | not modelled, see 5 |
| Server lifecycle | start-up phase, the record of the migration, open connections | start, graceful shutdown, restart | `src/server.js`, `config/redis.js`, `docker-compose.yml` | `Boot`; the crash is in `Requests` |
| Seed | none | look-ups and inserts at every start | `prisma/seed.js`, `scripts/entrypoint.sh` | `Boot` |
| Environment, hashing, logging, API docs | none | – | `config/env.js`, `utils`, `docs` | not modelled: nothing to check |

**How they interact.** A request passes `authenticate` (one query for the
caller's current row), `authorize` and `validate`, then a handler that awaits
one database or Redis command after another. The code between two awaits runs in
one piece; between an await and its continuation any other request can run. No
handler opens a transaction but `register`. So services interact only through
the tables and Redis, and every decision taken before an await can be out of
date after it. After a task write the handler deletes the list entries of the
assignees it believes concerned. Sessions share only the `User` table with the
rest: the deletion of an account takes its refresh tokens along. The container
runs the migrations, the seed and the server one after the other, and the seed
works on the tables the API left behind.

**What is hard.**

* *Check, then write.* Status changes, assignees, projects, roles and e-mail
  addresses are all judged on a row read earlier and written by id alone.
* *Fill racing with invalidation.* A list is queried, stored and tracked in three
  steps, an invalidation reads the set, deletes the keys and deletes the set in
  three steps, and all six interleave.
* *Partial failure.* Redis errors are caught and logged, so an entry may be
  stored and not tracked, and a write may succeed with its invalidation lost. A
  crash between any two steps has the same effect and nothing resumes the work.
* *A Redis that is away.* The client of `config/redis.js` (node-redis 4) reconnects for
  ever and has no timeout. It rejects the commands under way when a connection is lost,
  but queues those it is given later: their handlers just wait, and the `catch` of
  `cacheHelper.js` never runs.
* *What no invalidation covers.* Lists of everybody's tasks, lists of tasks taken
  away from an assignee, deleted users, renamed projects: only the hour of the
  entry ends them.
* *Shared keys.* A MEMBER and the managers who filter by that MEMBER share one
  entry, and roles change.
* *Referential actions.* Deleting a project with tasks or the creator of a task
  fails, deleting an assignee silently empties a column.
* *Rotation in two commands.* A refresh deletes the old token row and inserts the
  new one. A second refresh with the same token, a breach revocation, a logout,
  the deletion of the account or a crash can come in between. Tokens of one user
  signed in the same second are the same string, and a token is verified in whole
  seconds but its row in milliseconds.
* *A seed that is not a transaction.* It runs at every start, may die half way,
  and looks its rows up by names and addresses that the API can have reassigned;
  when it fails the server does not start.
* *A migration with a record.* `prisma migrate deploy` notes the migration as started,
  runs it, and notes it as finished; one that was started and not finished makes every
  later deploy fail.

**What makes each part correct.** Tables: every foreign key inside one
organization; DONE exactly with a completion date; one account per address; an
ADMIN in each organization. Tasks: one permitted operation per change, statuses
only along the workflow. Cache: an entry is of its key's scope; what a write made
stale is gone; what can be left stale ends. Requests: each is answered, and with
500 only where the database restricts. Sessions: one login is never two sessions,
a reuse or a logout ends sessions, and one that cannot be renewed any more never can
again. Start: the container gets to serve, with the demo rows complete and not
repeated.
`PROJECT.json` lists the hazards one by one at their lines, with the property that
watches each. Where the code falls short of one of these, section 3 says so.

## 2. Modules

```
                                                                     OfflineQueue <- MCOffline
                                                                          |
Policy <- Schema <- CacheHelper <- Requests <-+- TasksService ----+       v
             ^                                +- ProjectsService -+- Tracker <-+- MCTracker
             |                                +- Accounts --------+    |       +- TrackerProofs
             +--- TaskBoard <---- INSTANCE ----------------------------+            ^
             |        ^                               ListProofs -> TenancyProofs --+
             |        |              FreshProofs -> SerialProofs ---^
             |     INSTANCE
             +----- Boot <-+- MCBoot
                           +- BootProofs

SessionBoard <- INSTANCE - Sessions <-+- MCSessions
                                      +- SessionProofs
```

* **Policy** – the enumerations, `AllowedTransitions`, the roles each route hands to
  `authorize`, and `Authorized(role, op)`.
* **Schema** – a table is a function from ids to a row or `Null`. `issued` holds
  the uuids handed out, so that a deleted row's id never comes back. A task keeps
  project, assignee, creator, status, priority (standing for title, description,
  priority and due date) and whether `completedAt` is set. `TaskKeysHold`,
  `HasTasks`, `HasCreated` and `UnassignAll` are the foreign keys and their ON
  DELETE actions in the migration.
* **CacheHelper** – one operator per Redis command. `cache[key]` is the stored
  page, `tracked[u]` the set `user:cachekeys:{u}`. An entry may expire at any
  time; the set never does.
* **Requests** – a *slot* is a request in flight: `req[r]` holds the control point
  (`service.step`, the next await) and the locals that survive it. `Arrive` is
  the whole middleware chain, one turn after the query of `authenticate`;
  `Reply` sends the answer; `Crash` loses every request and leaves PostgreSQL and
  Redis as they are (they run in containers of their own).
* **TasksService, ProjectsService, Accounts** – one action per await of each
  handler, with its early returns and the database errors it can meet (P2002,
  P2003 and P2025 are all answered 500 by the error handler). `RedisError` is a
  command that fails, by an error reply or because the connection is lost while it is
  under way: it was carried out or it was not, and the helper catches the error and
  goes on. A handler whose command is neither answered nor rejected is one that takes
  no step: the safety properties allow for it everywhere.
* **Tracker** – the composition, the specification, and the properties.
* **OfflineQueue** – `Tracker` with a connection to Redis that is lost and found. `away`
  says that there is none, `queued` whose commands the client holds back. While Redis is
  away a command that was under way is rejected (`RedisError`) and one sent later waits
  for `Reconnect`. Tables, cache and requests change by the steps of `Tracker` alone, so
  its safety properties hold here too. A crash is left to `Tracker`: the server that is
  restarted connects to Redis before it listens (`Boot`).
* **TaskBoard** – the abstract specification: tables only, each change one
  operation by a user who at that moment has the right to it. `BoardSpec` in
  `Tracker` instantiates it over the same tables, so the refinement mapping is the
  identity on them and hides requests and cache.
* **Sessions** – `/auth/login`, `/refresh` and `/logout` over `RefreshToken`, one
  action per await, with the clock, crashes and the deletion of accounts. `given`
  is every token a client was ever sent: it may send any of them at any time, and
  again.
* **SessionBoard** – the abstract sessions: a login of an existing account opens
  one, sessions end, one that cannot be renewed any more never can again, an account
  takes its sessions with it. When a session ends is not the board's business: a logout
  does not end one that a refresh is renewing (section 3).
  `Sessions` implements it with `open <- OpenSessions, next <- serial`. A session is
  open while a row that is not revoked carries it, or a refresh that has accepted
  such a row and can still replace it (`Renewal`): in the gap between deletion and
  insert the session lives only in the handler's locals.
* **Boot** – `entrypoint.sh`, `seed.js`, `server.js` and Docker's restart policy as one
  process whose position is `boot.pc`; PostgreSQL and Redis may be away. `migration` is
  what `_prisma_migrations` says of the one migration: on a new volume the deploy records
  it as started (`MigrateCheck`), then runs it and completes the record (`MigrateApply`);
  it does nothing for an applied one and fails for one that was only started. While the
  server listens the tables change by the operations of `TaskBoard` that touch what
  the next seed looks up: accounts added and removed, projects written and deleted,
  tasks deleted.
* **MCSessions, MCBoot, MCOffline** – their instances.
* **MCTracker** – people, projects, tasks and the calls of each instance.
* **TrackerProofs, TenancyProofs, ListProofs, SerialProofs, FreshProofs** – the
  inductive invariants of the server and their proofs, each resting on those it
  extends in the diagram.
* **SessionProofs**, **BootProofs** – those of the sessions and of the start.

Modelling choices that are not evident from the code:

* `findMany` and `count` of a list run side by side; the model keeps the rows and
  leaves the total out. Page and limit are fixed: another value of them is just
  another key.
* `findMany` with its includes is one step, and so are a `findFirst` and a
  `findUnique`; Prisma may send several SQL statements for an include.
* A token names a user that existed once (`c.caller \in issued`); its signature
  and its fifteen minutes are left out, so an access token never expires here.
* The self checks of `users.service.js` precede the first await and are part of
  `Arrive`.
* `LegalTables` assumes the rows found at start-up obey the foreign keys inside
  one organization, have unique addresses and a date exactly when DONE, which is
  what the seed inserts into a new database.
* A refresh token is its user and the second it was signed in, for the payload is
  only `id`, `iat` and `exp`. `expiresAt` has milliseconds: in the second of `exp`
  the row may be late or not. Cookies and request bodies are one input.
* `session` numbers the login a row descends from; it and `breached`, `spared` are
  history and steer nothing.
* `authenticate` may answer a logout 401 at any time, which stands for the fifteen
  minutes of the access token too.
* A look-up of the seed and the insert it decides are one step: the server is not
  listening, so nothing writes in between, and a death between them leaves what
  a death before the look-up leaves. `findFirst` without an order returns any row
  that matches. A demo address is written as its role.
* A stop that the open connections outlast ends in a kill, which is `Die`;
  `server.js` itself has no forced exit.

Named bounds: the id pools `Orgs`, `Users`, `Projects`, `Tasks`, the addresses
`Emails`, the names `Names`, the filters `StatusFilters` and `PriorityFilters`,
the slots `Requests`, and the inputs `Calls`. `IdsLeft` admits a creating call
only while an id is left for it, so that no handler runs dry in mid-flight:
a real uuid is always available. In `Sessions`: `MaxNow` seconds, tokens living
`Life` of them, and `MaxRows` rows ever inserted (`RowsLeft` admits a request only while
a row is left for it). In `Boot`: `MaxFaults` deaths and outages and `MaxUses`
operations of the API, and an insert of the seed waits for an id to be left, which
the instance always has.

## 3. Runs

One slot means requests one at a time, the assumption under which most of the
code was written; two slots interleave at every await. Two are enough for the
hazards listed, each of which is a read of one request overtaken by another
one's write; the second slot is reused, so a waiting handler can be overtaken by
any number of complete requests.

| Run | Slots | What it asks | Result |
|---|---|---|---|
| `isolated` | 1, crashes | `BoardSpec`: every request on tasks, projects and accounts changes the tables as the board permits; `WorkflowHolds`, `StampMeansDone`, `DoneIsStamped`, `EveryOrgHasAdmin`, `ServerErrorsAreRestrictions` | holds |
| `isolated_lists` | 1 | `AssigneeListsFresh`, `AssigneeKeysTracked`: after each write that names or keeps an assignee, the cached lists of one assignee are what the database would answer, and are tracked | holds |
| `concurrent` | 2, crashes, Redis errors | `TypeOK`, `TenantIntegrity` while users and projects are deleted between check and write, `EntriesMatchKey`, `AnswersScoped` with a caller whose role changes | holds |
| `settling` | 2, crashes, Redis errors, entries expire | `CacheSettles` with writes whose invalidation is lost and writes that have none | holds |
| `offline` | 2, Redis errors and outages, fair | `AnsweredUnlessAwayForGood`: fills and invalidations of two assignees, the connection lost and found between any two commands | holds |
| `sessions` | 2, crashes | `SessionsDoNotFork`, `BreachReachesAll`, `SessionBoardSpec`: two requests to `/auth`, tokens expiring, the account deleted | holds |
| `boot` | – | `DemoReady`, `StrangersAreDemo`, `SeedIsIdempotent`, `ServesAgain`: starts from a new or a used volume, with a death or an outage and operations of the API between them | holds |
| `violation_workflow` | 2 | `WorkflowHolds` (README.md:86, "DONE = terminal state") | violated |
| `violation_tracking` | 2 | `AssigneeKeysTracked` (`cacheHelper.js:42`) | violated |
| `violation_lockout` | 2 | `EveryOrgHasAdmin` (`users.service.js:54`) | violated |
| `violation_breach` | 2, crashes | `BreachSparesNone` (README.md:57, "all sessions for that user are revoked") | violated |
| `violation_cascade` | 1 | `ProjectDeletionAnswers` (`projects.routes.js:239`, "Project and all associated tasks deleted successfully") | violated |

*Bounds.* `isolated` has a possible task, taken through every status, a manager and
two possible assignees, one of them the ADMIN of another organization, a project
and a possible second one, a third organization to be registered, a free address
and one in use, and an ADMIN, a MANAGER and an account to come who promote,
demote and delete each other (524,000 states).
`isolated_lists` has two tasks, two assignees, two values of the status filter:
the smallest instance in which a status change moves a task from one list into
another and a reassignment touches two people's lists. Taking the assignee away
and deleting the user are not among its calls, for they invalidate nothing: the task
taken from mia stays in her cached list, although README.md:136 says that both old and
new assignee's caches are invalidated when the assignee changes. `settling` has both
calls and says what ends the staleness.
`concurrent` has a possible task, its project, the MANAGER and the MEMBER it refers to,
all of which an ADMIN deletes at any moment, and the lists through the key that the
MEMBER, whose role changes, and the managers of both organizations may share (998,000
states). Dates are left to `isolated`: each is written with its status in one UPDATE.
The run uses symmetry over the slots, sound because no definition names a slot and it
has no liveness property.

`sessions` has one user, two requests at once, tokens that live two of three seconds
and four rows (1,180,000 states): enough for logins and rotations in one second and
in two, a token that expires between two awaits, and a breach revocation before,
in and after the gap of a rotation. One user is enough because every look-up and
write is of one user's rows. The slots are symmetric here too.
`boot` starts from an empty volume or from an organization whose ADMIN and MEMBER
have demo addresses, named 'Demo Corp' or not, with an empty 'Demo Project' (277,000
states). One fault and two operations of the API suffice for a seed that dies after
any of its inserts, and for an account removed and its address taken elsewhere
before the next start.

*What the violations show.* Each is a schedule of legal requests: two moves of an
IN_REVIEW task both pass the transition check and DONE turns into BLOCKED; a key is
added to the tracking set between SMEMBERS and DEL and is never invalidated again; two
ADMINs demote each other; a refresh that has deleted its row inserts the next one after
a breach revocation, which therefore misses it; deleting a project with tasks is
answered 500 and deletes nothing. `ServerErrorsAreRestrictions` says that for one
request at a time a restricted deletion is the only 500. It describes the code and does
not excuse the restricted deletion of a project, which is the finding of
`violation_cascade`.

*Where properties stop short of the documentation.* Besides these findings the code
falls short of what the repository says in five places, which the properties of the
passing runs leave room for:

* `assigneeId: null` invalidates nothing (`tasks.service.js:184`, README.md:136), see
  the calls of `isolated_lists`.
* Of two accounts with one address the second is answered 500, not 409
  (`auth.routes.js:98`), when both look-ups come before both inserts.
  `ServerErrorsAreRestrictions` is checked and proved for one request at a time.
* A logout is answered 200 while a refresh that has accepted its row goes on to replace
  it, so the session lives on (`auth.routes.js:213`, "log out the user").
  `SessionBoardSpec` takes the renewal for the session still open; what it excludes is
  that a session comes back from nowhere.
* While Redis is away a request waits for it, in spite of `cacheHelper.js:27`
  ("Cache errors should not break the request"), for nothing fails. It is the hypothesis
  of `AnsweredUnlessAwayForGood`.
* A first start that is cut off while the migration is applied leaves a record no later
  start gets past until somebody resolves it by hand (README.md:20, "No manual setup
  required"). It is the exception of `ServesAgain`.

*Fairness.* `FairSpec` (`settling`) assumes only that an entry expires (`EntryExpires(k)`:
SETEX gives each one hour). No handler is assumed to go on, no client to call, no
command of Redis to work. `CacheSettles` says that either the tables change forever or
from some moment on every entry, those of everybody's tasks included, is what the
database answers: a handler caught with an old page, perhaps waiting for Redis since,
may store it once more, but its expiry ends it, and a new fill reads the resting tables.
The run's calls are a write whose invalidation may fail or be cut off by a crash
(`Rate`) and the three that have none (`Assign` to nobody, `Rename`, `DropUser`).

`OfflineSpec` (`offline`) assumes that a handler goes on when its
command is answered or rejected: each command to PostgreSQL is, and each command to
Redis while there is a connection or when one is lost. This is weak fairness on
`Serve(r)` of a slot in use, which is disabled while the command waits in the queue.
Nobody owes a reconnection (the `cache` service of `docker-compose.yml` has no restart
policy), so nothing promises that every request is answered (`RequestsAnswered`).
`AnsweredUnlessAwayForGood` has it as a hypothesis that Redis is back again and again,
however briefly: an invalidation that is cut off
at each of its commands still comes to its end.

`BootSpec` has weak fairness on `BootStep`, what the container does by itself (a
command of the entrypoint answers or fails, `restart: unless-stopped` restarts),
and on `Recover` of each service, without which no start can succeed. Nobody owes a
signal or a `docker compose up`. `ServesAgain` then says that a container that was not
stopped gets to serve unless the record of the migration stays unfinished for good:
whatever a partial seed or the API left behind, the seed digests it.

*The board.* `BoardSpec` holds for one slot only: with two slots
`violation_workflow` breaks it. It is checked for one slot together with crashes
at every await, since each handler changes the tables in a single step, before
its invalidation, and proved for one slot and instances of any size (section 4).

*The seed.* `TenantIntegrity` is not among the properties of `boot`, for the seed
breaks it: delete the demo MEMBER, let somebody register that address in another
organization, delete the demo tasks, restart, and `seed.js:28` takes the stranger
as assignee. `StrangersAreDemo` bounds the damage: only accounts with demo addresses
and only tasks of an organization named 'Demo Corp'. `SeedIsIdempotent` excepts
tables in which two rows answer one look-up (`OneDemo`), since any of them may be
found and seeded.

Every property of a passing run has a mutant in `PROJECT.json`: a variant of one
definition, written beside it and marked `Mutant:`, under which the run reports
that property violated. Together they show that each property depends on a
line of code that could plausibly be wrong.

## 4. Proofs

What follows is proved for every number of slots (in `SerialProofs` and `FreshProofs`
for at most one), every set of calls, every pool of ids, finite or not, and every
legal initial database, with crashes and Redis errors in any pattern (in
`FreshProofs` without); of the sessions, for every number of users, requests, rows
and seconds; of the start, for every new volume, every used one with legal tables
(`LegalTables`), and every number of deaths, outages and operations of the API.

| Theorem | Module | States |
|---|---|---|
| `TypesHold` | `TrackerProofs` | `Spec => []TypeOK`: tables, cache and the locals of each suspended handler have their types, and a handler runs only for the operation called |
| `ForeignKeysHold` | `TrackerProofs` | `Spec => []KeysHold`: project, creator and assignee of every task exist |
| `TasksStayInside` | `TenancyProofs` | `Spec => []TenantIntegrity`: and they are of one organization |
| `DoneTasksAreStamped` | `TenancyProofs` | `Spec => []DoneIsStamped` |
| `EntriesAreScoped` | `ListProofs` | `Spec => []EntriesMatchKey` |
| `AnswersAreScoped` | `ListProofs` | `Spec => []AnswersScoped` |
| `BoardImplemented` | `SerialProofs` | one slot: `Spec => BoardSpec` |
| `StampsMeanDone` | `SerialProofs` | one slot: `Spec => []StampMeansDone` |
| `AdminsStay` | `SerialProofs` | one slot: `Spec /\ EveryOrgHasAdmin => []EveryOrgHasAdmin` |
| `ErrorsAreRestrictions` | `SerialProofs` | one slot: `Spec => []ServerErrorsAreRestrictions` |
| `WorkflowIsKept` | `SerialProofs` | one slot: `Spec => WorkflowHolds` |
| `KeysStayTracked` | `FreshProofs` | one slot, `NoFailures`: `Spec => []AssigneeKeysTracked` |
| `ListsStayFresh` | `FreshProofs` | one slot, `NoFailures`, `CallsInvalidate`: `Spec => []AssigneeListsFresh` |
| `SessionTypesHold` | `SessionProofs` | `SessionsSpec => []SessionsTypeOK` |
| `SessionsStaySingle` | `SessionProofs` | `SessionsSpec => []SessionsDoNotFork` |
| `BreachesReach` | `SessionProofs` | `SessionsSpec => []BreachReachesAll` |
| `SessionsImplementBoard` | `SessionProofs` | `SessionsSpec => SessionBoardSpec` |
| `SeedCompletes` | `BootProofs` | `BootSpec => []DemoReady` |
| `StrangersBounded` | `BootProofs` | `BootSpec => []StrangersAreDemo` |
| `SeedRepeatsNothing` | `BootProofs` | `BootSpec => SeedIsIdempotent` |

They rest on the named assumptions of the modules: `SchemaAssumption` (`Null` is no
id and no row, the initial tables are legal), `CacheAssumption` (`"all"` is no id),
`CallsAssumption` (calls are well-typed), `SessionsAssumption` (`Null` is no user,
token or row; the bounds are numbers) and `BootAssumption` (the demo addresses and
the name of the demo project are among the addresses and names; the bounds are
numbers). TLC evaluates them in the runs. Further hypotheses stand in the theorems
themselves: `Serial` in `SerialProofs` and `FreshProofs`, `NoFailures` and
`CallsInvalidate` in `FreshProofs`.

*Types and foreign keys* (`TrackerProofs`). `TypeOK` alone is not inductive:
`Find` puts the name of a task's project into a page, which is a name only if
the project's row exists. Hence `Inv == TypeOK /\ KeysHold`. `KeysHold` is
preserved because each insert and update tests `TaskKeysHold` in the step that
writes, a project with tasks and a creator are not deleted, and `UnassignAll`
empties the assignee in the step that deletes the user. `TypeOK` splits into the
data and, per request, the types of its locals (`Locals`), the agreement of
control point and call (`Routed`) and what the control point promises of them
(`Held`), for instance that `todo` is not empty where `Head(todo)` is taken.
`OneSlot` reduces a step to the slot that moved; one lemma per action follows.

*Organizations* (`TenancyProofs`). What a look-up found may be gone at the write,
so "the assignee is in the organization" is not an invariant of the handler. What
is: the id *was given out to a row of the organization* (`WasIn`), for ids are given
out once (`RowsIssued`) and no write moves a row to another organization
(`RowsStay`). `Established` lists what each control point has established so;
at the write either the row is still there, hence in the organization, or the
foreign key refuses. `Tenancy == RowsIssued /\ AllEstablished /\ TenantIntegrity` is
inductive relative to `Inv`; `TenantIntegrity` itself is needed where updateTask
skips the look-up of an assignee it read from the task. `Plain` collects the steps
that establish nothing new.

*Dates.* `DoneIsStamped` is inductive relative to `Inv`: the only write that makes a
task DONE stamps it, and no write removes a stamp. The converse, that a stamped
task is DONE, needs the workflow and holds only for one request at a time
(`StampMeansDone`, below).

*Lists* (`ListProofs`). The rows of a page are copies and outlive their tasks and
projects. `Scoped` says of a page that its rows passed the filters of a key and
that their projects were in its organization; `Scoping` says it of each cached
entry for its key and of each page a request holds for the key the request asked
for. A request takes a page from the tables (`ListQueryScoped`: buildWhereClause
implies the key's filters), from the cache (`ListGetScoped`), or keeps the one it
has (`KeepsPage`), and stores only its own (`StoresOwn`).

*One request at a time* (`SerialProofs`). Under `Serial`, that any two slots are the
same slot, what a look-up found is still so at the write, not merely once was: `Found`
says so per control point, `Caller` that the caller holds the role `authenticate`
read and is permitted the call, `Explained` that an answer 500 has its restricting
foreign key. `SerialInv == AllJudged /\ OrgsExist /\ StampMeansDone` is inductive
relative to the invariants above. One lemma per writing action shows the write to
be an operation of `TaskBoard`, every other action to leave the tables alone, so
`NextSerial` is the step simulation. `OrgsExist` makes an invited account's organization
one the board knows. `StampMeansDone` is part of the invariant because the board's
`MoveTask` writes the date exactly, while `updateTaskStatus` leaves it unless the new
status is DONE: the two agree since a task that may move is not DONE and has no
date. Two of the other theorems are read off the board, whose operations keep
`StampMeansDone` and `EveryOrgHasAdmin` (who changes an account is an ADMIN of the same
organization and another account). `AdminsStay` assumes that each organization has an
ADMIN at the start, which `LegalTables` does not ask for.

`WorkflowIsKept` is read off the board as well: only `MoveTask` changes a status, and
what `CreateTask` inserts was no row before (`RowsIssued`). `violation_workflow` is
the same property with a second slot.

*Fresh lists* (`FreshProofs`). Two invariants, each of one request and the cache.
`Tracked`: a stored list is named by its assignee's set unless it is the one between
its SETEX and its SADD; what DEL was given is what the set named, and between the two
DELs the assignee has no list. `Fresh`: a stored list is what the database would
answer unless its assignee is still in the `todo` of an invalidation, the page
about to be stored is current, and the task a handler has read is as it read it.
The last part carries the argument: the handler computes the lists to invalidate from
that earlier row, so the list of the *present* assignee is among them. `Shown` says
what a list holds of one task, and `CurrentKept` that a list changes only with a task
it holds or comes to hold: each writing action then needs only the assignee before
and after. An inserted project or user, and a deletion that the foreign keys let
through, change no list. The hypotheses are where the code stops:

* `NoFailures` – no Redis command fails and the process does not die. A failed SADD,
  or a crash before it, leaves a key no set names, a failed SMEMBERS or DEL a list
  that is out of date; `settling` says what ends both.
* `CallsInvalidate` – no `deleteUser`, no `updateProject`, no `updateTask` with
  assignee null: the three operations that change listed rows and invalidate nothing
  (`users.service.js:91`, `projects.service.js:47`, `tasks.service.js:184`).
  `KeysStayTracked` does not need it.
* `Serial` – `violation_tracking` breaks `AssigneeKeysTracked` with two slots.

*Sessions* (`SessionProofs`). Every step of a slot is one of six kinds (`StepKinds`): it
`Ends`, with some rows revoked perhaps, `Breaches`, `Accepts` a row, `Checks` the
account, `Swaps` (deletes the accepted row) or `Creates`; each later argument has six
cases instead of twelve actions. `RowInv` speaks of `Rows`, the stored rows with the
copies that refreshes hold: two with one id are `Alike` (a revocation may have changed
the stored one), two of one session are of one user, and ids and sessions are below
`serial`. `SessionsDoNotFork` is inductive relative to it: a deletion succeeds only while
the row with the held id is stored, that row is the only one of its session, and
so nobody else is between deletion and insert for it. `BreachInv` extends
`BreachReachesAll` to the held rows, since a later insert descends from them; it needs
that a refresh accepting a row after the revocation finds only rows not revoked.
For the refinement `Carried` is followed kind by kind: only the insert of a login adds
a session to it, numbered `serial`.

*The start* (`BootProofs`). `BootInv == DataInv /\ SeedInv` is inductive. `DataInv`: the
tables are well formed, the id of a row was given out (so that no insert of the seed
overwrites a row), the project of a task exists, and `StrangersAreDemo`. `SeedInv` is
what `main()` knows at each of its look-ups (`SeedFound`: the organization it found is
a demo organization, each person still answers the look-up by address), and that
the tables are complete (`SeedDone`) from the moment the last look-up is answered
until the API first writes. Each step of the seed either finds its row and changes
nothing or inserts one that the same look-up finds. So what an earlier seed left, at
whatever step it died, is found or completed, and once everything is found nothing is
inserted. The last needs `OneDemo`: with two demo organizations a second start may
find the other one. While the server listens the tables change only by operations of
`TaskBoard`, whose checks keep `DataInv` and which end `untouched`.

The inductive invariants were checked with TLC on the instances before they were
proved. Only model-checked is liveness (`AnsweredUnlessAwayForGood`, `CacheSettles`,
`ServesAgain`), which needs ENABLED and fairness and is out of the prover's reach. No
data is defined by recursion, so nothing needed induction over data. The violations
are statements about instances and have no theorem; for three of them a theorem
gives hypotheses under which the property holds after all (`WorkflowIsKept`,
`KeysStayTracked`, `AdminsStay`), and `BreachesReach` says what remains of a fourth.

## 5. Not modelled

* *Analytics.* Two raw SQL reads and a merge of their rows. The SQL names relations
  `tasks`, `projects` and `users` (`analytics.service.js:22`), which the migration
  creates as `"Task"`, `"Project"` and `"User"`: the first query fails, every
  authorized call answers 500 and the merge is never reached. Nothing changes state.
* *Pagination and the total* of `listTasks`: `findMany` and `count` may see different
  tables, but the total decides nothing and ages in the cache beside the rows.
* *Late rows.* A refresh whose token verifies in the last second of its life may find its
  row late and then revokes every session of the user. The code does so on purpose
  (`auth.service.js:107`); the model takes both outcomes and no property judges them.
* *Growth* of `RefreshToken`, whose dead rows nobody deletes, and of the tracking
  sets, which have no expiry: a bound in a model would be the model's own.
* *Hashing, logging, the generated API documentation, headers, the format of answers,
  e-mail syntax, password rules*: they hold no state any of the properties depends
  on.
* *A restart of Redis itself*: what survives it is a matter of its deployment, not
  of this code.

What could be added: a theorem on which requests may overlap without breaking
`BoardSpec`, weaker than `Serial`; and the freshness of lists after failures, as a bound
on what may be stale, in place of `NoFailures`.
