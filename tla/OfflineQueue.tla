---------------------------- MODULE OfflineQueue ----------------------------
(***************************************************************************)
(* The API server with a Redis that can be away.  The client of            *)
(* config/redis.js connects again for ever, without a timeout: when the    *)
(* connection is lost it rejects the commands under way, and those it is   *)
(* given later wait in its queue until there is a connection.  A handler   *)
(* is suspended meanwhile, and cacheHelper.js has nothing to catch.        *)
(* Each step on the tables, the cache and the requests is one of Tracker's.*)
(***************************************************************************)
EXTENDS Tracker

VARIABLES
  away,     \* Redis cannot be reached
  queued    \* the requests whose command waits in the client's queue

offlineVars == <<vars, away, queued>>

RedisPCs == {"list.get", "list.setex", "list.sadd"} \cup InvalPCs
AtRedis(r) == req[r].pc \in RedisPCs

\* A step of a request: while Redis is away a command of its own can only be
\* rejected, if it was under way, or wait.
Serve(r) ==
  /\ r \notin queued
  /\ IF away /\ AtRedis(r) THEN RedisError(r)
     ELSE ArrivePublic(r) \/ Arrive(r) \/ Step(r)
  /\ queued' = IF away /\ AtRedis(r)' THEN queued \cup {r} ELSE queued
  /\ UNCHANGED away

LoseRedis ==
  /\ ~away /\ away' = TRUE
  /\ UNCHANGED <<vars, queued>>

\* The commands in the queue are sent.
Reconnect ==
  /\ away /\ away' = FALSE
  /\ queued' = {}
  /\ UNCHANGED vars

OfflineExpires(k) == EntryExpires(k) /\ UNCHANGED <<away, queued>>

OfflineNext ==
  \/ \E r \in Requests : Serve(r)
  \/ \E k \in Key : OfflineExpires(k)
  \/ LoseRedis \/ Reconnect

\* Node resumes a handler whose command was answered or failed, which PostgreSQL
\* and a connection to Redis see to.  Nobody owes a connection.
OfflineSpec ==
  /\ Init /\ away = FALSE /\ queued = {}
  /\ [][OfflineNext]_offlineVars
  /\ \A r \in Requests : WF_offlineVars(~At(r, "idle") /\ Serve(r))

(* ---- liveness ---------------------------------------------------------------- *)

\* "Cache errors should not break the request" (cacheHelper.js:27): every
\* request is answered, whatever becomes of Redis.
RequestsAnswered == \A r \in Requests : ~At(r, "idle") ~> At(r, "idle")

\* Every request is answered unless Redis stays away for good: commands may
\* fail and connections be lost as often as they like, between any two of the
\* commands of a fill or of an invalidation.
AnsweredUnlessAwayForGood == []<>~away => RequestsAnswered
=============================================================================
