---------------------------- MODULE CacheHelper ----------------------------
(***************************************************************************)
(* utils/cacheHelper.js over Redis: the task-list entries and, per         *)
(* assignee, the set user:cachekeys:{assigneeId} of the keys to delete     *)
(* when that assignee's tasks change.  Every operator below is ONE Redis   *)
(* command; the service modules put an await between any two of them.      *)
(* An entry is one page of one filter; page and limit are fixed, for each  *)
(* value of them adds only another independent key.                        *)
(***************************************************************************)
EXTENDS Schema

CONSTANTS
  StatusFilters,   \* values of the status query parameter, "all" included
  PriorityFilters  \* values of the priority query parameter

VARIABLES
  cache,    \* cache[key]: the stored result, Null when absent or expired
  tracked   \* tracked[u]: the members of user:cachekeys:{u}

redis == <<cache, tracked>>

Key == [org : Orgs, assignee : Users \cup {"all"},
        status : StatusFilters, priority : PriorityFilters]

\* A listed task carries its project's name (TASK_INCLUDE).  A result maps
\* each task to the row listed, or to Null when it is not in the list.
Listed == [task : TaskRow, projectName : Names]
Result == [Tasks -> Listed \cup {Null}]

ASSUME CacheAssumption ==
  /\ "all" \notin Users
  /\ StatusFilters \subseteq Statuses \cup {"all"}
  /\ PriorityFilters \subseteq Priorities \cup {"all"}
  /\ Null \notin Listed /\ Null \notin Result

CacheInit ==
  /\ cache = [k \in Key |-> Null]
  /\ tracked = [u \in Users |-> {}]

\* SETEX key ttl value
SetEx(key, value) ==
  /\ cache' = [cache EXCEPT ![key] = value]
  /\ UNCHANGED tracked

\* SADD user:cachekeys:{u} key
SAdd(u, key) ==
  /\ tracked' = [tracked EXCEPT ![u] = @ \cup {key}]
  /\ UNCHANGED cache

\* DEL key key ...
DelKeys(keys) ==
  /\ cache' = [k \in Key |-> IF k \in keys THEN Null ELSE cache[k]]
  /\ UNCHANGED tracked

\* DEL user:cachekeys:{u}
DelSet(u) ==
  /\ tracked' = [tracked EXCEPT ![u] = {}]
  /\ UNCHANGED cache

\* Mutant: set() without an expiry, the entry stays until it is deleted.
ExpireNever(key) == FALSE /\ UNCHANGED redis

\* The hour given to SETEX runs out.  The tracking set has no expiry.
Expire(key) ==
  /\ cache[key] # Null
  /\ cache' = [cache EXCEPT ![key] = Null]
  /\ UNCHANGED tracked
=============================================================================
