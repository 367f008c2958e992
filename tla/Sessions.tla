------------------------------ MODULE Sessions ------------------------------
(***************************************************************************)
(* Login, refresh with rotation and breach revocation, and logout of       *)
(* auth.service.js over the RefreshToken table.  As in Requests a step is  *)
(* one database command and the synchronous code up to the next await;     *)
(* each slot of Slots is a concurrent request.                             *)
(***************************************************************************)
EXTENDS Naturals, FiniteSets

CONSTANTS
  Users,         \* user ids, each with its own address
  Slots,         \* concurrent requests to /auth
  Null,          \* no cookie, no row
  Life,          \* seconds a refresh token lives (JWT_REFRESH_EXPIRES_DAYS)
  MaxNow,        \* bound: the last second of the clock
  MaxRows        \* bound: rows ever inserted

VARIABLES
  accounts,      \* ids of the User table
  stored,        \* rows of the RefreshToken table
  serial,        \* the next row id; a uuid, so none is given out twice
  now,           \* the clock, in whole seconds, as jsonwebtoken reads it
  given,         \* the tokens clients were sent, and may send back at any time
  req,           \* the requests in flight
  breached,      \* history: sessions some breach revocation meant to end
  spared         \* history: of these, the ones being renewed at that moment

sessionVars == <<accounts, stored, serial, now, given, req, breached, spared>>
history == <<breached, spared>>

\* A refresh token is the signature of { id, iat, exp }: one string per user
\* and second.
Token == [user : Users, iat : Nat]
Signed(u) == [user |-> u, iat |-> now]

\* userId is the user of the token, expiresAt its iat and Life.  `session'
\* numbers the login that the row descends from and is not a column.
TokenRow == [id : Nat, token : Token, revoked : BOOLEAN, session : Nat]

RefreshPCs == {"refresh.find", "refresh.revoke", "refresh.user",
               "refresh.delete", "refresh.create"}
SessionPCs == {"login.find", "login.compare", "login.create", "logout.write"} \cup RefreshPCs

\* user: of a login.  token: the one submitted, then the one signed.
\* row: what findUnique returned.
Idle == [pc |-> "idle", user |-> Null, token |-> Null, row |-> Null, code |-> 0]
Locals == [pc : SessionPCs \cup {"idle", "done"}, user : Users \cup {Null},
           token : Token \cup {Null}, row : TokenRow \cup {Null}, code : Nat]

ASSUME SessionsAssumption ==
  /\ Null \notin Users /\ Null \notin Token /\ Null \notin TokenRow
  /\ Life \in Nat \ {0} /\ MaxNow \in Nat /\ MaxRows \in Nat

At(r, pc) == req[r].pc = pc
Goto(r, pc) == req' = [req EXCEPT ![r].pc = pc]
Answer(r, code) == req' = [req EXCEPT ![r] = [Idle EXCEPT !.pc = "done", !.code = code]]

(* ---- the RefreshToken table ----------------------------------------------- *)

Taken(t)      == \E row \in stored : row.token = t
RowIds        == {row.id : row \in stored}
Revoke(rows)  == (stored \ rows) \cup {[row EXCEPT !.revoked = TRUE] : row \in rows}
RowsOf(u)     == {row \in stored : row.token.user = u}
NewRow(t, s)  == [id |-> serial, token |-> t, revoked |-> FALSE, session |-> s]

\* jwt.verify fails from the second exp on.
Expired(t) == now >= t.iat + Life

\* The sessions of u that a refresh has accepted and not finished renewing.
Renewing(u) == {req[r].row.session : r \in
  {q \in Slots : /\ req[q].pc \in {"refresh.user", "refresh.delete", "refresh.create"}
                 /\ req[q].row.token.user = u}}

(* ---- login ------------------------------------------------------------------ *)

\* Bound: a row id is left for this request and for each one in flight.
RowsLeft == serial + Cardinality({r \in Slots : ~At(r, "idle")}) < MaxRows

LoginArrive(r) ==
  /\ At(r, "idle") /\ RowsLeft
  /\ \E u \in Users : req' = [req EXCEPT ![r].pc = "login.find", ![r].user = u]
  /\ UNCHANGED <<accounts, stored, serial, now, given, history>>

LoginFind(r) ==
  /\ At(r, "login.find")
  /\ IF req[r].user \in accounts THEN Goto(r, "login.compare") ELSE Answer(r, 401)
  /\ UNCHANGED <<accounts, stored, serial, now, given, history>>

\* bcrypt.compare is awaited; the token is signed in the same turn as the
\* insert is sent.
LoginCompare(r) ==
  /\ At(r, "login.compare")
  /\ \/ Answer(r, 401)
     \/ req' = [req EXCEPT ![r].pc = "login.create", ![r].token = Signed(req[r].user)]
  /\ UNCHANGED <<accounts, stored, serial, now, given, history>>

\* refreshToken.create of login and of refresh: P2002 on the unique token and
\* P2003 on the foreign key are answered 500.
CreateToken(r) ==
  /\ req[r].pc \in {"login.create", "refresh.create"}
  /\ LET t == req[r].token
         s == IF At(r, "login.create") THEN serial ELSE req[r].row.session
     IN \/ /\ Taken(t) \/ t.user \notin accounts
           /\ Answer(r, 500)
           /\ UNCHANGED <<stored, serial>>
        \/ /\ ~Taken(t) /\ t.user \in accounts
           /\ stored' = stored \cup {NewRow(t, s)}
           /\ serial' = serial + 1
           /\ req' = [req EXCEPT ![r] = [Idle EXCEPT !.pc = "done", !.token = t, !.code = 200]]
  /\ UNCHANGED <<accounts, now, given, history>>

(* ---- refresh ---------------------------------------------------------------- *)

\* The cookie is missing or its signature too old; else the look-up is sent.
RefreshArrive(r) ==
  /\ At(r, "idle") /\ RowsLeft
  /\ \E t \in given \cup {Null} :
       IF t = Null \/ (t # Null /\ Expired(t))
         THEN Answer(r, 401)
         ELSE req' = [req EXCEPT ![r].pc = "refresh.find", ![r].token = t]
  /\ UNCHANGED <<accounts, stored, serial, now, given, history>>

\* Mutant: the look-up does not ask whether the row is revoked.
AcceptedAnyway(row, late) == ~late

Accepted(row, late) == ~row.revoked /\ ~late

\* expiresAt has milliseconds: in the second of exp the row may or may not
\* be late.  A row that is missing, revoked or late is taken for reuse.
RefreshFind(r) ==
  /\ At(r, "refresh.find")
  /\ LET t == req[r].token IN
       \/ /\ \/ ~Taken(t)
             \/ \E row \in stored, late \in {now > t.iat + Life, Expired(t)} :
                  row.token = t /\ ~Accepted(row, late)
          /\ Goto(r, "refresh.revoke")
       \/ \E row \in stored, late \in {now > t.iat + Life, Expired(t)} :
            /\ row.token = t /\ Accepted(row, late)
            /\ req' = [req EXCEPT ![r].pc = "refresh.user", ![r].row = row]
  /\ UNCHANGED <<accounts, stored, serial, now, given, history>>

\* Mutant: only the rows of the submitted token are revoked.
BreachedRowsOfToken(t) == {row \in stored : row.token = t}

\* where: { userId: decoded.id }
BreachedRows(t) == RowsOf(t.user)

RefreshRevoke(r) ==
  /\ At(r, "refresh.revoke")
  /\ LET u   == req[r].token.user
         all == {row.session : row \in RowsOf(u)} \cup Renewing(u)
     IN /\ breached' = breached \cup all
        /\ spared' = (spared \ all) \cup Renewing(u)
  /\ stored' = Revoke(BreachedRows(req[r].token))
  /\ Answer(r, 401)
  /\ UNCHANGED <<accounts, serial, now, given>>

RefreshUser(r) ==
  /\ At(r, "refresh.user")
  /\ IF req[r].row.token.user \in accounts THEN Goto(r, "refresh.delete") ELSE Answer(r, 401)
  /\ UNCHANGED <<accounts, stored, serial, now, given, history>>

\* Mutant: deleteMany, which does not fail when the row is gone.
DeletesAnyway(row) == TRUE

\* delete({ where: { id } }) fails with P2025 when the row is gone.
Deletes(row) == row.id \in RowIds

RefreshDelete(r) ==
  /\ At(r, "refresh.delete")
  /\ LET old == req[r].row IN
       \/ /\ ~Deletes(old) /\ Answer(r, 500)
          /\ UNCHANGED stored
       \/ /\ Deletes(old)
          /\ stored' = {row \in stored : row.id # old.id}
          /\ req' = [req EXCEPT ![r].pc = "refresh.create", ![r].token = Signed(old.token.user)]
  /\ UNCHANGED <<accounts, serial, now, given, history>>

(* ---- logout ----------------------------------------------------------------- *)

\* authenticate answers 401 when the access token is invalid or its account
\* gone; without a cookie there is nothing to revoke.
LogoutArrive(r) ==
  /\ At(r, "idle")
  /\ \/ Answer(r, 401) \/ Answer(r, 200)
     \/ \E t \in given : req' = [req EXCEPT ![r].pc = "logout.write", ![r].token = t]
  /\ UNCHANGED <<accounts, stored, serial, now, given, history>>

LogoutWrite(r) ==
  /\ At(r, "logout.write")
  /\ stored' = Revoke({row \in stored : row.token = req[r].token})
  /\ Answer(r, 200)
  /\ UNCHANGED <<accounts, serial, now, given, history>>

(* ---- the rest of the world -------------------------------------------------- *)

\* The answer, with the cookie when a token was issued.
SessionReply(r) ==
  /\ At(r, "done")
  /\ given' = given \cup ({req[r].token} \ {Null})
  /\ req' = [req EXCEPT ![r] = Idle]
  /\ UNCHANGED <<accounts, stored, serial, now, history>>

\* deleteUser of the users service; RefreshToken_userId_fkey cascades.
DeleteAccount(u) ==
  /\ u \in accounts
  /\ accounts' = accounts \ {u}
  /\ stored' = stored \ RowsOf(u)
  /\ UNCHANGED <<serial, now, given, req, history>>

SessionCrash ==
  /\ \E r \in Slots : ~At(r, "idle")
  /\ req' = [r \in Slots |-> Idle]
  /\ UNCHANGED <<accounts, stored, serial, now, given, history>>

Tick ==
  /\ now < MaxNow
  /\ now' = now + 1
  /\ UNCHANGED <<accounts, stored, serial, given, req, history>>

SessionsInit ==
  /\ accounts = Users /\ stored = {} /\ serial = 0 /\ now = 0 /\ given = {}
  /\ req = [r \in Slots |-> Idle] /\ breached = {} /\ spared = {}

SessionStep(r) ==
  \/ LoginArrive(r) \/ LoginFind(r) \/ LoginCompare(r) \/ CreateToken(r)
  \/ RefreshArrive(r) \/ RefreshFind(r) \/ RefreshRevoke(r) \/ RefreshUser(r)
  \/ RefreshDelete(r) \/ LogoutArrive(r) \/ LogoutWrite(r) \/ SessionReply(r)

SessionsNext ==
  \/ \E r \in Slots : SessionStep(r)
  \/ \E u \in Users : DeleteAccount(u)
  \/ SessionCrash \/ Tick

SessionsSpec == SessionsInit /\ [][SessionsNext]_sessionVars

(* ---- properties ------------------------------------------------------------- *)

\* Types.
SessionsTypeOK ==
  /\ accounts \subseteq Users /\ stored \subseteq TokenRow
  /\ serial \in Nat /\ now \in Nat /\ given \subseteq Token
  /\ req \in [Slots -> Locals] /\ breached \subseteq Nat /\ spared \subseteq Nat

\* One login is at any time one session: a token submitted by two requests at
\* once, the copy of a thief among them, is never rotated into two.
SessionsDoNotFork ==
  /\ \A row, other \in stored : row.session = other.session => row = other
  /\ \A r \in Slots : At(r, "refresh.create") =>
       /\ \A row \in stored : row.session # req[r].row.session
       /\ \A q \in Slots : At(q, "refresh.create")
                             /\ req[q].row.session = req[r].row.session => q = r

\* A breach revocation ends every session of the user but the ones a refresh
\* had accepted at that moment, and each stays ended.
BreachReachesAll ==
  \A row \in stored : row.session \in breached /\ ~row.revoked => row.session \in spared

\* README.md:57, "all sessions for that user are revoked": none is spared.
BreachSparesNone ==
  \A row \in stored : row.session \in breached => row.revoked

\* A refresh that has accepted a row and can still replace it.
Renewal(r) ==
  \/ req[r].pc \in {"refresh.user", "refresh.delete"} /\ req[r].row.id \in RowIds
  \/ At(r, "refresh.create") /\ req[r].row.token.user \in accounts

\* The sessions that can still be renewed: by a row that is not revoked, or by
\* such a refresh.
Carried == {row \in stored : ~row.revoked} \cup {req[r].row : r \in {q \in Slots : Renewal(q)}}
OpenSessions == {[session |-> row.session, user |-> row.token.user] : row \in Carried}

Board == INSTANCE SessionBoard WITH open <- OpenSessions, next <- serial

\* Whatever requests overlap and wherever the process dies, only a login opens
\* a session, one that can no longer be renewed never can again, and an account
\* takes its sessions with it.  A logout or a revocation does not end the
\* renewal of a refresh that is past its look-up: until that is over the session
\* is open, and after it too, although the routes say "log out the user"
\* (auth.routes.js:213).  For a revocation this is BreachSparesNone.
SessionBoardSpec == Board!Spec
=============================================================================
