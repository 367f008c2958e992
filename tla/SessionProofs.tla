--------------------------- MODULE SessionProofs ---------------------------
(***************************************************************************)
(* Proofs about Sessions, for every number of users, requests and rows:    *)
(* types, one row per session, breach revocation, and that the sessions    *)
(* implement SessionBoard.                                                 *)
(***************************************************************************)
EXTENDS Sessions, TLAPS

Renews(q) == q.pc \in {"refresh.user", "refresh.delete", "refresh.create"}

\* What a suspended handler holds.
HoldsOK(q) ==
  /\ q.pc \in {"login.find", "login.compare"} => q.user \in Users
  /\ q.pc \in {"login.create", "logout.write"} \cup RefreshPCs => q.token \in Token
  /\ Renews(q) => q.row \in TokenRow
  /\ q.pc = "refresh.create" => q.token.user = q.row.token.user

TypeInv == SessionsTypeOK /\ \A r \in Slots : HoldsOK(req[r])

(* ---- types ------------------------------------------------------------------ *)

LEMMA SignedIsToken ==
  ASSUME SessionsTypeOK, NEW u \in Users
  PROVE  Signed(u) \in Token /\ Signed(u).user = u
BY DEF SessionsTypeOK, Signed, Token

LEMMA IdleIsLocal == Idle \in Locals /\ HoldsOK(Idle)
BY DEF Idle, Locals, HoldsOK, Renews, RefreshPCs

\* What a row keeps when it is revoked.
LEMMA RevokedRow ==
  ASSUME NEW row \in TokenRow
  PROVE  LET new == [row EXCEPT !.revoked = TRUE] IN
         /\ new \in TokenRow /\ new.id = row.id /\ new.token = row.token
         /\ new.session = row.session /\ new.revoked
BY DEF TokenRow

LEMMA RevokeTypes ==
  ASSUME stored \subseteq TokenRow, NEW rows \in SUBSET stored
  PROVE  Revoke(rows) \subseteq TokenRow
BY RevokedRow DEF Revoke

LEMMA NewRowType ==
  ASSUME NEW t \in Token, NEW s \in Nat, serial \in Nat
  PROVE  /\ NewRow(t, s) \in TokenRow /\ NewRow(t, s).id = serial
         /\ NewRow(t, s).session = s /\ NewRow(t, s).token = t
         /\ ~NewRow(t, s).revoked
BY DEF NewRow, TokenRow

\* An answer is idle or done: it holds nothing.
LEMMA AnswerTypes ==
  ASSUME TypeInv, NEW r \in Slots, NEW code \in Nat, Answer(r, code)
  PROVE  /\ req' \in [Slots -> Locals] /\ req'[r].pc = "done"
         /\ \A q \in Slots \ {r} : req'[q] = req[q]
         /\ HoldsOK(req'[r])
<1> DEFINE new == [Idle EXCEPT !.pc = "done", !.code = code]
<1>1. new \in Locals /\ new.pc = "done"
  BY DEF Idle, Locals
<1>2. req' = [req EXCEPT ![r] = new] /\ req \in [Slots -> Locals]
  BY DEF Answer, TypeInv, SessionsTypeOK
<1>3. HoldsOK(new)
  BY <1>1 DEF HoldsOK, Renews, RefreshPCs
<1> HIDE DEF new
<1> QED BY <1>1, <1>2, <1>3

LEMMA GotoTypes ==
  ASSUME TypeInv, NEW r \in Slots, NEW pc \in SessionPCs, Goto(r, pc)
  PROVE  /\ req' \in [Slots -> Locals] /\ req'[r].pc = pc
         /\ req'[r].user = req[r].user /\ req'[r].token = req[r].token
         /\ req'[r].row = req[r].row
         /\ \A q \in Slots \ {r} : req'[q] = req[q]
BY DEF Goto, TypeInv, SessionsTypeOK, Locals

LEMMA TypeInit == SessionsInit => TypeInv
BY SessionsAssumption, IdleIsLocal
   DEF SessionsInit, TypeInv, SessionsTypeOK, TokenRow

\* A step that only answers, or only moves a handler on, keeps the types.
LEMMA SlotTypes ==
  ASSUME TypeInv, NEW r \in Slots, req' \in [Slots -> Locals], HoldsOK(req'[r]),
         \A q \in Slots \ {r} : req'[q] = req[q],
         stored' \subseteq TokenRow, serial' \in Nat, UNCHANGED <<accounts, now>>,
         given' \subseteq Token, breached' \subseteq Nat, spared' \subseteq Nat
  PROVE  TypeInv'
<1>1. SessionsTypeOK'
  BY DEF SessionsTypeOK, TypeInv
<1>2. \A q \in Slots : HoldsOK(req'[q])
  BY DEF TypeInv
<1> QED BY <1>1, <1>2 DEF TypeInv

LEMMA LoginTypes ==
  ASSUME TypeInv, NEW r \in Slots, LoginArrive(r) \/ LoginFind(r) \/ LoginCompare(r)
  PROVE  TypeInv'
<1> USE SessionsAssumption
<1>0. req \in [Slots -> Locals] /\ HoldsOK(req[r])
  BY DEF TypeInv, SessionsTypeOK
<1>1. CASE LoginArrive(r)
  <2>1. PICK u \in Users : req' = [req EXCEPT ![r].pc = "login.find", ![r].user = u]
    BY <1>1 DEF LoginArrive
  <2>2. /\ req' \in [Slots -> Locals] /\ req'[r].pc = "login.find" /\ req'[r].user \in Users
        /\ \A q \in Slots \ {r} : req'[q] = req[q]
    BY <2>1, <1>0 DEF Locals, SessionPCs
  <2>3. HoldsOK(req'[r])
    BY <2>2 DEF HoldsOK, Renews, RefreshPCs
  <2> QED BY <1>1, <2>2, <2>3, SlotTypes DEF LoginArrive, TypeInv, SessionsTypeOK, history
<1>2. CASE LoginFind(r)
  <2>1. /\ req' \in [Slots -> Locals] /\ HoldsOK(req'[r])
        /\ \A q \in Slots \ {r} : req'[q] = req[q]
    <3>1. CASE Goto(r, "login.compare")
      BY <3>1, <1>0, <1>2, GotoTypes DEF HoldsOK, Renews, RefreshPCs, SessionPCs, LoginFind, At
    <3>2. CASE Answer(r, 401)
      BY <3>2, AnswerTypes
    <3> QED BY <3>1, <3>2, <1>2 DEF LoginFind
  <2> QED BY <1>2, <2>1, SlotTypes DEF LoginFind, TypeInv, SessionsTypeOK, history
<1>3. CASE LoginCompare(r)
  <2>1. req[r].user \in Users
    BY <1>0, <1>3 DEF LoginCompare, At, HoldsOK
  <2>2. /\ req' \in [Slots -> Locals] /\ HoldsOK(req'[r])
        /\ \A q \in Slots \ {r} : req'[q] = req[q]
    <3>1. CASE Answer(r, 401)
      BY <3>1, AnswerTypes
    <3>2. CASE req' = [req EXCEPT ![r].pc = "login.create", ![r].token = Signed(req[r].user)]
      <4>1. Signed(req[r].user) \in Token
        BY <2>1, SignedIsToken DEF TypeInv
      <4>2. /\ req' \in [Slots -> Locals] /\ req'[r].pc = "login.create" /\ req'[r].token \in Token
            /\ \A q \in Slots \ {r} : req'[q] = req[q]
        BY <4>1, <3>2, <1>0 DEF Locals, SessionPCs
      <4> QED BY <4>2 DEF HoldsOK, Renews, RefreshPCs
    <3> QED BY <3>1, <3>2, <1>3 DEF LoginCompare
  <2> QED BY <1>3, <2>2, SlotTypes DEF LoginCompare, TypeInv, SessionsTypeOK, history
<1> QED BY <1>1, <1>2, <1>3

\* The session a CreateToken step files its row under.
CreatedIn(r) == IF At(r, "login.create") THEN serial ELSE req[r].row.session

LEMMA CreateTypes ==
  ASSUME TypeInv, NEW r \in Slots, CreateToken(r)
  PROVE  TypeInv'
<1>0. /\ req \in [Slots -> Locals] /\ HoldsOK(req[r])
      /\ serial \in Nat /\ stored \subseteq TokenRow
  BY DEF TypeInv, SessionsTypeOK
<1>1. req[r].token \in Token /\ CreatedIn(r) \in Nat
  BY <1>0 DEF CreateToken, HoldsOK, RefreshPCs, CreatedIn, At, Renews, TokenRow
<1>2. CASE Answer(r, 500) /\ UNCHANGED <<stored, serial>>
  BY <1>2, AnswerTypes, SlotTypes DEF CreateToken, TypeInv, SessionsTypeOK, history
<1>3. CASE /\ stored' = stored \cup {NewRow(req[r].token, CreatedIn(r))} /\ serial' = serial + 1
           /\ req' = [req EXCEPT ![r] = [Idle EXCEPT !.pc = "done", !.token = req[r].token, !.code = 200]]
  <2>1. stored' \subseteq TokenRow /\ serial' \in Nat
    BY <1>0, <1>1, <1>3, NewRowType
  <2> DEFINE new == [Idle EXCEPT !.pc = "done", !.token = req[r].token, !.code = 200]
  <2>2. new \in Locals /\ new.pc = "done"
    BY <1>1, SessionsAssumption DEF Idle, Locals
  <2>3. HoldsOK(new)
    BY <2>2 DEF HoldsOK, Renews, RefreshPCs
  <2>4. req' = [req EXCEPT ![r] = new]
    BY <1>3
  <2> HIDE DEF new
  <2>5. req' \in [Slots -> Locals] /\ req'[r] = new /\ \A q \in Slots \ {r} : req'[q] = req[q]
    BY <1>0, <2>2, <2>4
  <2> QED BY <2>1, <2>3, <2>5, SlotTypes DEF CreateToken, TypeInv, SessionsTypeOK, history
<1> QED BY <1>2, <1>3 DEF CreateToken, CreatedIn

LEMMA RefreshStartTypes ==
  ASSUME TypeInv, NEW r \in Slots, RefreshArrive(r) \/ RefreshFind(r)
  PROVE  TypeInv'
<1>0. req \in [Slots -> Locals] /\ HoldsOK(req[r]) /\ given \subseteq Token /\ stored \subseteq TokenRow
  BY DEF TypeInv, SessionsTypeOK
<1>1. CASE RefreshArrive(r)
  <2>1. /\ req' \in [Slots -> Locals] /\ HoldsOK(req'[r])
        /\ \A q \in Slots \ {r} : req'[q] = req[q]
    <3>1. PICK t \in given \cup {Null} :
            IF t = Null \/ (t # Null /\ Expired(t)) THEN Answer(r, 401)
            ELSE req' = [req EXCEPT ![r].pc = "refresh.find", ![r].token = t]
      BY <1>1 DEF RefreshArrive
    <3>2. CASE Answer(r, 401)
      BY <3>2, AnswerTypes
    <3>3. CASE t \in Token /\ req' = [req EXCEPT ![r].pc = "refresh.find", ![r].token = t]
      <4>1. /\ req' \in [Slots -> Locals] /\ req'[r].pc = "refresh.find" /\ req'[r].token \in Token
            /\ \A q \in Slots \ {r} : req'[q] = req[q]
        BY <3>3, <1>0 DEF Locals, SessionPCs, RefreshPCs
      <4> QED BY <4>1 DEF HoldsOK, Renews, RefreshPCs
    <3> QED BY <3>1, <3>2, <3>3, <1>0
  <2> QED BY <1>1, <2>1, SlotTypes DEF RefreshArrive, TypeInv, SessionsTypeOK, history
<1>2. CASE RefreshFind(r)
  <2>0. req[r].token \in Token
    BY <1>0, <1>2 DEF RefreshFind, At, HoldsOK, RefreshPCs
  <2>1. /\ req' \in [Slots -> Locals] /\ HoldsOK(req'[r])
        /\ \A q \in Slots \ {r} : req'[q] = req[q]
    <3>1. CASE Goto(r, "refresh.revoke")
      BY <3>1, <2>0, GotoTypes DEF HoldsOK, Renews, RefreshPCs, SessionPCs
    <3>2. CASE \E row \in stored :
                 req' = [req EXCEPT ![r].pc = "refresh.user", ![r].row = row]
      <4>1. PICK row \in stored : req' = [req EXCEPT ![r].pc = "refresh.user", ![r].row = row]
        BY <3>2
      <4>2. /\ req' \in [Slots -> Locals] /\ req'[r].pc = "refresh.user"
            /\ req'[r].row \in TokenRow /\ req'[r].token = req[r].token
            /\ \A q \in Slots \ {r} : req'[q] = req[q]
        BY <4>1, <1>0 DEF Locals, SessionPCs, RefreshPCs
      <4> QED BY <4>2, <2>0 DEF HoldsOK
    <3> QED BY <3>1, <3>2, <1>2 DEF RefreshFind
  <2> QED BY <1>2, <2>1, SlotTypes DEF RefreshFind, TypeInv, SessionsTypeOK, history
<1> QED BY <1>1, <1>2

LEMMA RefreshEndTypes ==
  ASSUME TypeInv, NEW r \in Slots, RefreshRevoke(r) \/ RefreshUser(r) \/ RefreshDelete(r)
  PROVE  TypeInv'
<1>0. /\ req \in [Slots -> Locals] /\ stored \subseteq TokenRow
      /\ \A q \in Slots : HoldsOK(req[q])
  BY DEF TypeInv, SessionsTypeOK
<1>1. CASE RefreshRevoke(r)
  <2> DEFINE u == req[r].token.user
             all == {row.session : row \in RowsOf(u)} \cup Renewing(u)
  <2>1. all \subseteq Nat /\ Renewing(u) \subseteq Nat
    <3>1. \A row \in RowsOf(u) : row.session \in Nat
      BY <1>0 DEF RowsOf, TokenRow
    <3>2. Renewing(u) \subseteq Nat
      BY <1>0 DEF Renewing, HoldsOK, Renews, TokenRow
    <3> QED BY <3>1, <3>2
  <2>2. breached' = breached \cup all /\ spared' = (spared \ all) \cup Renewing(u)
    BY <1>1 DEF RefreshRevoke
  <2> HIDE DEF u, all
  <2>3. breached' \subseteq Nat /\ spared' \subseteq Nat
    BY <2>1, <2>2 DEF TypeInv, SessionsTypeOK
  <2>4. stored' \subseteq TokenRow
    BY <1>0, <1>1, RevokeTypes DEF RefreshRevoke, BreachedRows, RowsOf
  <2> QED BY <1>1, <2>3, <2>4, AnswerTypes, SlotTypes DEF RefreshRevoke, TypeInv, SessionsTypeOK
<1>2. CASE RefreshUser(r)
  <2>1. /\ req' \in [Slots -> Locals] /\ HoldsOK(req'[r])
        /\ \A q \in Slots \ {r} : req'[q] = req[q]
    <3>1. CASE Goto(r, "refresh.delete")
      <4>1. /\ req' \in [Slots -> Locals] /\ req'[r].pc = "refresh.delete"
            /\ req'[r].token = req[r].token /\ req'[r].row = req[r].row
            /\ \A q \in Slots \ {r} : req'[q] = req[q]
        BY <3>1, GotoTypes DEF SessionPCs, RefreshPCs
      <4> QED BY <1>0, <1>2, <4>1 DEF HoldsOK, Renews, RefreshPCs, RefreshUser, At
    <3>2. CASE Answer(r, 401)
      BY <3>2, AnswerTypes
    <3> QED BY <3>1, <3>2, <1>2 DEF RefreshUser
  <2> QED BY <1>2, <2>1, SlotTypes DEF RefreshUser, TypeInv, SessionsTypeOK, history
<1>3. CASE RefreshDelete(r)
  <2>0. req[r].row \in TokenRow /\ req[r].row.token.user \in Users
    BY <1>0, <1>3 DEF RefreshDelete, At, HoldsOK, Renews, TokenRow, Token
  <2>1. /\ req' \in [Slots -> Locals] /\ HoldsOK(req'[r])
        /\ \A q \in Slots \ {r} : req'[q] = req[q]
    <3>1. CASE req' = [req EXCEPT ![r].pc = "refresh.create",
                                  ![r].token = Signed(req[r].row.token.user)]
      <4>1. /\ Signed(req[r].row.token.user) \in Token
            /\ Signed(req[r].row.token.user).user = req[r].row.token.user
        BY <2>0, SignedIsToken DEF TypeInv
      <4>2. /\ req' \in [Slots -> Locals] /\ req'[r].pc = "refresh.create"
            /\ req'[r].token = Signed(req[r].row.token.user) /\ req'[r].row = req[r].row
            /\ \A q \in Slots \ {r} : req'[q] = req[q]
        BY <3>1, <4>1, <1>0 DEF Locals, SessionPCs, RefreshPCs
      <4> QED BY <2>0, <4>1, <4>2 DEF HoldsOK
    <3>2. CASE Answer(r, 500)
      BY <3>2, AnswerTypes
    <3> QED BY <3>1, <3>2, <1>3 DEF RefreshDelete
  <2>2. stored' \subseteq TokenRow
    BY <1>0, <1>3 DEF RefreshDelete
  <2> QED BY <1>3, <2>1, <2>2, SlotTypes DEF RefreshDelete, TypeInv, SessionsTypeOK, history
<1> QED BY <1>1, <1>2, <1>3

LEMMA OtherTypes ==
  ASSUME TypeInv, NEW r \in Slots, LogoutArrive(r) \/ LogoutWrite(r) \/ SessionReply(r)
  PROVE  TypeInv'
<1>0. /\ req \in [Slots -> Locals] /\ stored \subseteq TokenRow /\ given \subseteq Token
      /\ HoldsOK(req[r])
  BY DEF TypeInv, SessionsTypeOK
<1>1. CASE LogoutArrive(r)
  <2>1. /\ req' \in [Slots -> Locals] /\ HoldsOK(req'[r])
        /\ \A q \in Slots \ {r} : req'[q] = req[q]
    <3>1. CASE Answer(r, 401) \/ Answer(r, 200)
      BY <3>1, AnswerTypes
    <3>2. CASE \E t \in given : req' = [req EXCEPT ![r].pc = "logout.write", ![r].token = t]
      <4>1. PICK t \in given : req' = [req EXCEPT ![r].pc = "logout.write", ![r].token = t]
        BY <3>2
      <4>2. /\ req' \in [Slots -> Locals] /\ req'[r].pc = "logout.write" /\ req'[r].token \in Token
            /\ \A q \in Slots \ {r} : req'[q] = req[q]
        BY <4>1, <1>0 DEF Locals, SessionPCs
      <4> QED BY <4>2 DEF HoldsOK, Renews, RefreshPCs
    <3> QED BY <3>1, <3>2, <1>1 DEF LogoutArrive
  <2> QED BY <1>1, <2>1, SlotTypes DEF LogoutArrive, TypeInv, SessionsTypeOK, history
<1>2. CASE LogoutWrite(r)
  <2>1. stored' \subseteq TokenRow
    BY <1>0, <1>2, RevokeTypes DEF LogoutWrite
  <2> QED BY <1>2, <2>1, AnswerTypes, SlotTypes DEF LogoutWrite, TypeInv, SessionsTypeOK, history
<1>3. CASE SessionReply(r)
  <2>1. /\ req' \in [Slots -> Locals] /\ HoldsOK(req'[r])
        /\ \A q \in Slots \ {r} : req'[q] = req[q]
    BY <1>0, <1>3, IdleIsLocal DEF SessionReply
  <2>2. given' \subseteq Token
    BY <1>0, <1>3 DEF SessionReply, Locals
  <2> QED BY <1>3, <2>1, <2>2, SlotTypes DEF SessionReply, TypeInv, SessionsTypeOK, history
<1> QED BY <1>1, <1>2, <1>3

LEMMA TypeStep == TypeInv /\ [SessionsNext]_sessionVars => TypeInv'
<1> SUFFICES ASSUME TypeInv, [SessionsNext]_sessionVars
             PROVE  TypeInv'
  OBVIOUS
<1>1. CASE \E r \in Slots : SessionStep(r)
  BY <1>1, LoginTypes, CreateTypes, RefreshStartTypes, RefreshEndTypes, OtherTypes DEF SessionStep
<1>2. CASE \E u \in Users : DeleteAccount(u)
  BY <1>2 DEF DeleteAccount, TypeInv, SessionsTypeOK, history
<1>3. CASE SessionCrash
  BY <1>3, IdleIsLocal DEF SessionCrash, TypeInv, SessionsTypeOK, history
<1>4. CASE Tick
  BY <1>4 DEF Tick, TypeInv, SessionsTypeOK, history
<1>5. CASE UNCHANGED sessionVars
  BY <1>5 DEF sessionVars, TypeInv, SessionsTypeOK
<1> QED BY <1>1, <1>2, <1>3, <1>4, <1>5 DEF SessionsNext

\* The accounts, the rows, the tokens given out and every handler's locals
\* keep their types.
THEOREM SessionTypesHold == SessionsSpec => []SessionsTypeOK
<1>1. TypeInv => SessionsTypeOK
  BY DEF TypeInv
<1> QED BY <1>1, TypeInit, TypeStep, PTL DEF SessionsSpec

(* ---- what a step of a handler does to rows ----------------------------------- *)

Others(r) == /\ \A q \in Slots \ {r} : req'[q] = req[q]
             /\ UNCHANGED accounts

\* The handler holds no row any more; some rows may have been revoked.
Ends(r) ==
  /\ Others(r) /\ ~Renews(req'[r])
  /\ \E rows \in SUBSET stored : stored' = Revoke(rows)
  /\ UNCHANGED <<serial, breached, spared>>

Breaches(r) ==
  /\ Others(r) /\ ~Renews(req'[r])
  /\ LET u   == req[r].token.user
         all == {row.session : row \in RowsOf(u)} \cup Renewing(u)
     IN /\ stored' = Revoke(RowsOf(u))
        /\ breached' = breached \cup all
        /\ spared' = (spared \ all) \cup Renewing(u)
  /\ UNCHANGED serial

Accepts(r) ==
  /\ Others(r) /\ req'[r].pc = "refresh.user"
  /\ req'[r].row \in stored /\ ~req'[r].row.revoked
  /\ UNCHANGED <<stored, serial, breached, spared>>

Checks(r) ==
  /\ Others(r) /\ req[r].pc = "refresh.user" /\ req'[r].pc = "refresh.delete"
  /\ req'[r].row = req[r].row
  /\ UNCHANGED <<stored, serial, breached, spared>>

Swaps(r) ==
  /\ Others(r) /\ req[r].pc = "refresh.delete" /\ req'[r].pc = "refresh.create"
  /\ req'[r].row = req[r].row /\ req[r].row.id \in RowIds
  /\ stored' = {row \in stored : row.id # req[r].row.id}
  /\ UNCHANGED <<serial, breached, spared>>

Creates(r) ==
  /\ Others(r) /\ req[r].pc \in {"login.create", "refresh.create"} /\ ~Renews(req'[r])
  /\ req[r].token.user \in accounts
  /\ stored' = stored \cup {NewRow(req[r].token, CreatedIn(r))} /\ serial' = serial + 1
  /\ UNCHANGED <<breached, spared>>

Kinds(r) == Ends(r) \/ Breaches(r) \/ Accepts(r) \/ Checks(r) \/ Swaps(r) \/ Creates(r)

LEMMA RevokeNone == Revoke({}) = stored
BY DEF Revoke

LEMMA QuietEnds ==
  ASSUME NEW r \in Slots, Others(r), ~Renews(req'[r]),
         UNCHANGED <<stored, serial, breached, spared>>
  PROVE  Ends(r)
<1>1. stored' = Revoke({}) /\ {} \in SUBSET stored
  BY RevokeNone
<1> QED BY <1>1 DEF Ends

LEMMA AnswerEnds ==
  ASSUME TypeInv, NEW r \in Slots, NEW code \in Nat, Answer(r, code), UNCHANGED accounts
  PROVE  Others(r) /\ ~Renews(req'[r])
BY AnswerTypes DEF Others, Renews

LEMMA GotoOthers ==
  ASSUME TypeInv, NEW r \in Slots, NEW pc \in SessionPCs, Goto(r, pc), UNCHANGED accounts
  PROVE  Others(r) /\ req'[r].pc = pc /\ req'[r].row = req[r].row
BY GotoTypes DEF Others

LEMMA LoginKinds ==
  ASSUME TypeInv, NEW r \in Slots, LoginArrive(r) \/ LoginFind(r) \/ LoginCompare(r)
  PROVE  Kinds(r)
<1>0. req \in [Slots -> Locals]
  BY DEF TypeInv, SessionsTypeOK
<1>1. UNCHANGED <<accounts, stored, serial, breached, spared>>
  BY DEF LoginArrive, LoginFind, LoginCompare, history
<1>2. Others(r) /\ ~Renews(req'[r])
  <2>1. CASE LoginArrive(r)
    BY <2>1, <1>0, <1>1 DEF LoginArrive, Others, Renews, Locals
  <2>2. CASE LoginFind(r)
    BY <2>2, <1>1, GotoOthers, AnswerEnds DEF LoginFind, Renews, SessionPCs
  <2>3. CASE LoginCompare(r)
    <3>1. CASE Answer(r, 401)
      BY <3>1, <1>1, AnswerEnds
    <3>2. CASE req' = [req EXCEPT ![r].pc = "login.create", ![r].token = Signed(req[r].user)]
      BY <3>2, <1>0, <1>1 DEF Others, Renews, Locals
    <3> QED BY <2>3, <3>1, <3>2 DEF LoginCompare
  <2> QED BY <2>1, <2>2, <2>3
<1> QED BY <1>1, <1>2, QuietEnds DEF Kinds

LEMMA CreateKinds ==
  ASSUME TypeInv, NEW r \in Slots, CreateToken(r)
  PROVE  Kinds(r)
<1>0. req \in [Slots -> Locals] /\ UNCHANGED <<accounts, breached, spared>>
  BY DEF TypeInv, SessionsTypeOK, CreateToken, history
<1>1. CASE Answer(r, 500) /\ UNCHANGED <<stored, serial>>
  BY <1>0, <1>1, AnswerEnds, QuietEnds DEF Kinds
<1>2. CASE /\ req[r].token.user \in accounts
           /\ stored' = stored \cup {NewRow(req[r].token, CreatedIn(r))} /\ serial' = serial + 1
           /\ req' = [req EXCEPT ![r] = [Idle EXCEPT !.pc = "done", !.token = req[r].token, !.code = 200]]
  <2> DEFINE new == [Idle EXCEPT !.pc = "done", !.token = req[r].token, !.code = 200]
  <2>1. new.pc = "done"
    BY DEF Idle
  <2>2. req' = [req EXCEPT ![r] = new]
    BY <1>2
  <2> HIDE DEF new
  <2>3. Others(r) /\ ~Renews(req'[r])
    BY <1>0, <2>1, <2>2 DEF Others, Renews
  <2>4. req[r].pc \in {"login.create", "refresh.create"}
    BY DEF CreateToken
  <2> QED BY <1>0, <1>2, <2>3, <2>4 DEF Creates, Kinds
<1> QED BY <1>1, <1>2 DEF CreateToken, CreatedIn

LEMMA RefreshKinds ==
  ASSUME TypeInv, NEW r \in Slots,
         RefreshArrive(r) \/ RefreshFind(r) \/ RefreshRevoke(r) \/ RefreshUser(r) \/ RefreshDelete(r)
  PROVE  Kinds(r)
<1>0. req \in [Slots -> Locals] /\ UNCHANGED <<accounts, serial>>
  BY DEF TypeInv, SessionsTypeOK, RefreshArrive, RefreshFind, RefreshRevoke, RefreshUser, RefreshDelete
<1>1. CASE RefreshArrive(r)
  <2>1. UNCHANGED <<stored, breached, spared>>
    BY <1>1 DEF RefreshArrive, history
  <2>2. PICK t \in given \cup {Null} :
          Answer(r, 401) \/ req' = [req EXCEPT ![r].pc = "refresh.find", ![r].token = t]
    BY <1>1 DEF RefreshArrive
  <2>3. Others(r) /\ ~Renews(req'[r])
    <3>1. CASE Answer(r, 401)
      BY <3>1, <1>0, AnswerEnds
    <3>2. CASE req' = [req EXCEPT ![r].pc = "refresh.find", ![r].token = t]
      BY <3>2, <1>0 DEF Others, Renews, Locals
    <3> QED BY <2>2, <3>1, <3>2
  <2> QED BY <1>0, <2>1, <2>3, QuietEnds DEF Kinds
<1>2. CASE RefreshFind(r)
  <2>1. UNCHANGED <<stored, breached, spared>>
    BY <1>2 DEF RefreshFind, history
  <2>2. CASE Goto(r, "refresh.revoke")
    <3>1. Others(r) /\ ~Renews(req'[r])
      BY <2>2, <1>0, GotoOthers DEF SessionPCs, RefreshPCs, Renews
    <3> QED BY <1>0, <2>1, <3>1, QuietEnds DEF Kinds
  <2>3. CASE \E row \in stored :
               ~row.revoked /\ req' = [req EXCEPT ![r].pc = "refresh.user", ![r].row = row]
    BY <2>1, <2>3, <1>0 DEF Accepts, Kinds, Others, Locals
  <2> QED BY <1>2, <2>2, <2>3 DEF RefreshFind, Accepted
<1>3. CASE RefreshRevoke(r)
  <2>1. Others(r) /\ ~Renews(req'[r])
    BY <1>0, <1>3, AnswerEnds DEF RefreshRevoke
  <2> QED BY <2>1, <1>0, <1>3 DEF RefreshRevoke, BreachedRows, Breaches, Kinds
<1>4. CASE RefreshUser(r)
  <2>1. UNCHANGED <<stored, breached, spared>> /\ req[r].pc = "refresh.user"
    BY <1>4 DEF RefreshUser, history, At
  <2>2. CASE Goto(r, "refresh.delete")
    <3>1. Others(r) /\ req'[r].pc = "refresh.delete" /\ req'[r].row = req[r].row
      BY <2>2, <1>0, GotoOthers DEF SessionPCs, RefreshPCs
    <3> QED BY <1>0, <2>1, <3>1 DEF Checks, Kinds
  <2>3. CASE Answer(r, 401)
    BY <1>0, <2>1, <2>3, AnswerEnds, QuietEnds DEF Kinds
  <2> QED BY <1>4, <2>2, <2>3 DEF RefreshUser
<1>5. CASE RefreshDelete(r)
  <2>1. UNCHANGED <<breached, spared>> /\ req[r].pc = "refresh.delete"
    BY <1>5 DEF RefreshDelete, history, At
  <2>2. CASE Answer(r, 500) /\ UNCHANGED stored
    BY <1>0, <2>1, <2>2, AnswerEnds, QuietEnds DEF Kinds
  <2>3. CASE /\ Deletes(req[r].row)
             /\ stored' = {row \in stored : row.id # req[r].row.id}
             /\ req' = [req EXCEPT ![r].pc = "refresh.create",
                                   ![r].token = Signed(req[r].row.token.user)]
    <3>1. Others(r) /\ req'[r].pc = "refresh.create" /\ req'[r].row = req[r].row
      BY <2>3, <1>0 DEF Others, Locals
    <3> QED BY <1>0, <2>1, <2>3, <3>1 DEF Swaps, Kinds, Deletes
  <2> QED BY <1>5, <2>2, <2>3 DEF RefreshDelete
<1> QED BY <1>1, <1>2, <1>3, <1>4, <1>5

LEMMA OtherKinds ==
  ASSUME TypeInv, NEW r \in Slots, LogoutArrive(r) \/ LogoutWrite(r) \/ SessionReply(r)
  PROVE  Kinds(r)
<1>0. req \in [Slots -> Locals] /\ UNCHANGED <<accounts, serial, breached, spared>>
  BY DEF TypeInv, SessionsTypeOK, LogoutArrive, LogoutWrite, SessionReply, history
<1>1. CASE LogoutArrive(r)
  <2>1. Others(r) /\ ~Renews(req'[r])
    <3>1. CASE Answer(r, 401) \/ Answer(r, 200)
      BY <3>1, <1>0, AnswerEnds
    <3>2. CASE \E t \in given : req' = [req EXCEPT ![r].pc = "logout.write", ![r].token = t]
      BY <3>2, <1>0 DEF Others, Renews, Locals
    <3> QED BY <1>1, <3>1, <3>2 DEF LogoutArrive
  <2> QED BY <1>0, <1>1, <2>1, QuietEnds DEF LogoutArrive, Kinds
<1>2. CASE LogoutWrite(r)
  <2>1. Others(r) /\ ~Renews(req'[r])
    BY <1>0, <1>2, AnswerEnds DEF LogoutWrite
  <2>2. \E rows \in SUBSET stored : stored' = Revoke(rows)
    BY <1>2 DEF LogoutWrite
  <2> QED BY <1>0, <2>1, <2>2 DEF Ends, Kinds
<1>3. CASE SessionReply(r)
  <2>1. Others(r) /\ ~Renews(req'[r])
    BY <1>0, <1>3 DEF SessionReply, Others, Renews, Idle
  <2> QED BY <1>0, <1>3, <2>1, QuietEnds DEF SessionReply, Kinds
<1> QED BY <1>1, <1>2, <1>3

LEMMA StepKinds ==
  ASSUME TypeInv, NEW r \in Slots, SessionStep(r)
  PROVE  Kinds(r)
BY LoginKinds, CreateKinds, RefreshKinds, OtherKinds DEF SessionStep

(* ---- rows, ids and sessions -------------------------------------------------- *)

Held == {req[r].row : r \in {q \in Slots : Renews(req[q])}}
Rows == stored \cup Held

\* One row and a copy of it, which differ at most in `revoked'.
Alike(a, b) == a.id = b.id /\ a.session = b.session /\ a.token = b.token

\* Ids and sessions were given out; a copy held is of the row with its id; a
\* session has one user; a stored row's user has an account.
RowInv ==
  /\ \A a \in Rows : a.id < serial /\ a.session < serial
  /\ \A a, b \in Rows : a.id = b.id => Alike(a, b)
  /\ \A a, b \in Rows : a.session = b.session => a.token.user = b.token.user
  /\ \A a \in stored : a.token.user \in accounts

LEMMA RowsTyped == TypeInv => Rows \subseteq TokenRow
BY DEF TypeInv, SessionsTypeOK, HoldsOK, Rows, Held

LEMMA HeldAfter ==
  ASSUME NEW r \in Slots, Others(r), NEW X, Renews(req'[r]) => req'[r].row \in X
  PROVE  Held' \subseteq Held \cup X
BY DEF Held, Others

LEMMA RevokedAlike ==
  ASSUME TypeInv, NEW rows \in SUBSET stored
  PROVE  \A a \in Revoke(rows) : \E b \in stored : Alike(a, b) /\ (~a.revoked => a = b /\ b \notin rows)
<1> TAKE a \in Revoke(rows)
<1>1. CASE a \in stored \ rows
  BY <1>1 DEF Alike
<1>2. CASE \E row \in rows : a = [row EXCEPT !.revoked = TRUE]
  <2>1. PICK row \in rows : a = [row EXCEPT !.revoked = TRUE]
    BY <1>2
  <2>2. row \in TokenRow
    BY DEF TypeInv, SessionsTypeOK
  <2>3. Alike(a, row) /\ a.revoked
    BY <2>1, <2>2, RevokedRow DEF Alike
  <2> QED BY <2>3
<1> QED BY <1>1, <1>2 DEF Revoke

\* A step that makes no row keeps what is known of the rows.
LEMMA NoNewRow ==
  ASSUME TypeInv, RowInv, UNCHANGED serial,
         \A a \in Rows' : \E b \in Rows : Alike(a, b),
         \A a \in stored' : \E b \in stored : Alike(a, b) /\ b.token.user \in accounts'
  PROVE  RowInv'
<1>1. \A a \in Rows' : a.id < serial' /\ a.session < serial'
  BY DEF RowInv, Alike
<1>2. ASSUME NEW a \in Rows', NEW b \in Rows'
      PROVE  (a.id = b.id => Alike(a, b)) /\ (a.session = b.session => a.token.user = b.token.user)
  <2>1. PICK x \in Rows : Alike(a, x)
    OBVIOUS
  <2>2. PICK y \in Rows : Alike(b, y)
    OBVIOUS
  <2> QED BY <2>1, <2>2 DEF RowInv, Alike
<1>3. \A a \in stored' : a.token.user \in accounts'
  BY DEF Alike
<1> QED BY <1>1, <1>2, <1>3 DEF RowInv

\* The row that CreateToken makes, next to the others.
LEMMA RowCreated ==
  ASSUME TypeInv, RowInv, NEW r \in Slots, Creates(r)
  PROVE  LET new == NewRow(req[r].token, CreatedIn(r)) IN
         /\ new \in TokenRow /\ new.id = serial /\ new.session = CreatedIn(r)
         /\ new.token = req[r].token /\ ~new.revoked
         /\ \A a \in Rows : a.session = new.session => a.token.user = new.token.user
         /\ CreatedIn(r) \in Nat /\ CreatedIn(r) <= serial
         /\ req[r].pc = "refresh.create" =>
              req[r].row \in Held /\ CreatedIn(r) = req[r].row.session
                /\ req[r].row.token.user = req[r].token.user
         /\ req[r].pc = "login.create" => CreatedIn(r) = serial
<1>1. /\ req[r].token \in Token /\ serial \in Nat
      /\ req[r].pc = "refresh.create" =>
           /\ req[r].row \in TokenRow /\ req[r].row \in Held
           /\ req[r].row.token.user = req[r].token.user
  BY DEF Creates, TypeInv, SessionsTypeOK, HoldsOK, Renews, RefreshPCs, Held
<1>2. CASE req[r].pc = "refresh.create"
  <2>1. CreatedIn(r) = req[r].row.session /\ CreatedIn(r) \in Nat /\ req[r].row.session < serial
    BY <1>1, <1>2 DEF CreatedIn, At, TokenRow, RowInv, Rows
  <2>2. \A a \in Rows : a.session = req[r].row.session => a.token.user = req[r].row.token.user
    BY <1>1, <1>2 DEF RowInv, Rows
  <2> QED BY <1>1, <1>2, <2>1, <2>2, NewRowType
<1>3. CASE req[r].pc = "login.create"
  <2>1. CreatedIn(r) = serial
    BY <1>3 DEF CreatedIn, At
  <2>2. \A a \in Rows : a.session # serial
    BY <1>1, RowsTyped DEF RowInv, TokenRow
  <2> QED BY <1>1, <1>3, <2>1, <2>2, NewRowType
<1> QED BY <1>2, <1>3 DEF Creates

LEMMA CreatesHolds ==
  ASSUME NEW r \in Slots, Creates(r)
  PROVE  /\ Held' \subseteq Held
         /\ Rows' \subseteq Rows \cup {NewRow(req[r].token, CreatedIn(r))}
<1>1. Held' \subseteq Held \cup {}
  BY HeldAfter DEF Creates
<1> QED BY <1>1 DEF Rows, Creates

LEMMA RowCreate ==
  ASSUME TypeInv, RowInv, NEW r \in Slots, Creates(r)
  PROVE  RowInv'
<1> DEFINE new == NewRow(req[r].token, CreatedIn(r))
<1>1. /\ new.id = serial /\ new.session <= serial /\ new.session \in Nat
      /\ new.token = req[r].token
      /\ \A a \in Rows : a.session = new.session => a.token.user = new.token.user
  BY RowCreated
<1>2. Rows' \subseteq Rows \cup {new} /\ stored' = stored \cup {new} /\ serial' = serial + 1
      /\ serial \in Nat /\ accounts' = accounts /\ new.token.user \in accounts
  BY <1>1, CreatesHolds DEF Creates, Others, TypeInv, SessionsTypeOK
<1> HIDE DEF new
<1>3. \A a \in Rows : a.id \in Nat /\ a.session \in Nat /\ a.id < serial /\ a.session < serial
  BY RowsTyped DEF RowInv, TokenRow
<1>4. \A a \in Rows' : a.id < serial' /\ a.session < serial'
  BY <1>1, <1>2, <1>3
<1>5. ASSUME NEW a \in Rows', NEW b \in Rows', a.id = b.id
      PROVE  Alike(a, b)
  <2>1. (a \in Rows /\ b \in Rows) \/ (a = new /\ b = new)
    BY <1>1, <1>2, <1>3, <1>5
  <2> QED BY <2>1, <1>5 DEF RowInv, Alike
<1>6. ASSUME NEW a \in Rows', NEW b \in Rows', a.session = b.session
      PROVE  a.token.user = b.token.user
  BY <1>1, <1>2, <1>6 DEF RowInv
<1>7. \A a \in stored' : a.token.user \in accounts'
  BY <1>2 DEF RowInv
<1> QED BY <1>4, <1>5, <1>6, <1>7 DEF RowInv

LEMMA RowInit == SessionsInit => RowInv
BY DEF SessionsInit, RowInv, Rows, Held, Renews, Idle

\* Where the rows of the next state come from, when none is made.
LEMMA Descent ==
  ASSUME TypeInv, NEW r \in Slots, Kinds(r), ~Creates(r)
  PROVE  /\ UNCHANGED <<serial, accounts>>
         /\ \A a \in stored' : \E b \in stored : Alike(a, b) /\ (~a.revoked => a = b)
         /\ Held' \subseteq Held \cup {row \in stored : ~row.revoked}
<1>1. CASE Ends(r)
  <2>1. PICK rows \in SUBSET stored : stored' = Revoke(rows)
    BY <1>1 DEF Ends
  <2>2. Held' \subseteq Held \cup {}
    BY <1>1, HeldAfter DEF Ends
  <2> QED BY <1>1, <2>1, <2>2, RevokedAlike DEF Ends, Others
<1>2. CASE Breaches(r)
  <2>1. RowsOf(req[r].token.user) \in SUBSET stored
    BY DEF RowsOf
  <2>2. Held' \subseteq Held \cup {}
    BY <1>2, HeldAfter DEF Breaches
  <2> QED BY <1>2, <2>1, <2>2, RevokedAlike DEF Breaches, Others
<1>3. CASE Accepts(r)
  <2>1. Held' \subseteq Held \cup {row \in stored : ~row.revoked}
    BY <1>3, HeldAfter DEF Accepts
  <2> QED BY <1>3, <2>1 DEF Accepts, Others, Alike
<1>4. CASE Checks(r) \/ Swaps(r)
  <2>1. req'[r].row \in Held
    BY <1>4 DEF Checks, Swaps, Held, Renews
  <2>2. Held' \subseteq Held \cup Held
    BY <1>4, <2>1, HeldAfter DEF Checks, Swaps
  <2>3. stored' \subseteq stored /\ UNCHANGED <<serial, accounts>>
    BY <1>4 DEF Checks, Swaps, Others
  <2> QED BY <2>2, <2>3 DEF Alike
<1> QED BY <1>1, <1>2, <1>3, <1>4 DEF Kinds

LEMMA RowStep == TypeInv /\ RowInv /\ [SessionsNext]_sessionVars => RowInv'
<1> SUFFICES ASSUME TypeInv, RowInv, [SessionsNext]_sessionVars
             PROVE  RowInv'
  OBVIOUS
<1>1. ASSUME NEW r \in Slots, SessionStep(r) PROVE RowInv'
  <2>1. CASE Creates(r)
    BY <2>1, RowCreate
  <2>2. CASE ~Creates(r)
    <3>1. /\ UNCHANGED <<serial, accounts>>
          /\ \A a \in stored' : \E b \in stored : Alike(a, b)
          /\ Held' \subseteq Held \cup stored
      BY <1>1, <2>2, StepKinds, Descent
    <3>2. \A a \in Rows' : \E b \in Rows : Alike(a, b)
      BY <3>1 DEF Rows, Alike
    <3> QED BY <3>1, <3>2, NoNewRow DEF RowInv
  <2> QED BY <2>1, <2>2
<1>2. ASSUME NEW u \in Users, DeleteAccount(u) PROVE RowInv'
  <2>1. UNCHANGED serial /\ Held' = Held /\ stored' = stored \ RowsOf(u) /\ accounts' = accounts \ {u}
    BY <1>2 DEF DeleteAccount, Held
  <2>2. \A a \in stored' : a \in stored /\ Alike(a, a) /\ a.token.user \in accounts'
    BY <2>1 DEF RowsOf, RowInv, Alike
  <2>3. \A a \in Rows' : a \in Rows /\ Alike(a, a)
    BY <2>1 DEF Rows, Alike
  <2> QED BY <2>1, <2>2, <2>3, NoNewRow
<1>3. CASE SessionCrash
  <2>1. UNCHANGED <<serial, stored, accounts>> /\ Held' = {}
    BY <1>3 DEF SessionCrash, Held, Renews, Idle
  <2> QED BY <2>1 DEF RowInv, Rows
<1>4. CASE Tick \/ UNCHANGED sessionVars
  <2>1. UNCHANGED <<serial, stored, accounts, req>>
    BY <1>4 DEF Tick, sessionVars
  <2> QED BY <2>1 DEF RowInv, Rows, Held
<1> QED BY <1>1, <1>2, <1>3, <1>4 DEF SessionsNext

(* ---- a login is one session --------------------------------------------------- *)

LEMMA RevokeUnique ==
  ASSUME TypeInv, SessionsDoNotFork, NEW rows \in SUBSET stored
  PROVE  \A a, b \in Revoke(rows) : a.session = b.session => a = b
<1> DEFINE Copy(x) == [x EXCEPT !.revoked = TRUE]
<1>1. \A x \in stored : Copy(x).session = x.session
  BY RevokedRow DEF TypeInv, SessionsTypeOK
<1>2. \A a \in Revoke(rows) : a \in stored \ rows \/ \E x \in rows : a = Copy(x)
  BY DEF Revoke
<1> HIDE DEF Copy
<1> TAKE a, b \in Revoke(rows)
<1>3. CASE a \in stored \ rows /\ b \in stored \ rows
  BY <1>3 DEF SessionsDoNotFork
<1>4. CASE a \in stored \ rows /\ \E x \in rows : b = Copy(x)
  BY <1>1, <1>4 DEF SessionsDoNotFork
<1>5. CASE b \in stored \ rows /\ \E x \in rows : a = Copy(x)
  BY <1>1, <1>5 DEF SessionsDoNotFork
<1>6. CASE (\E x \in rows : a = Copy(x)) /\ (\E x \in rows : b = Copy(x))
  BY <1>1, <1>6 DEF SessionsDoNotFork
<1> QED BY <1>2, <1>3, <1>4, <1>5, <1>6

\* No session is added, and no handler comes to its insert.
LEMMA ForkKept ==
  ASSUME SessionsDoNotFork,
         \A a, b \in stored' : a.session = b.session => a = b,
         \A a \in stored' : \E b \in stored : a.session = b.session,
         \A q \in Slots : req'[q].pc = "refresh.create" =>
           req[q].pc = "refresh.create" /\ req'[q].row = req[q].row
  PROVE  SessionsDoNotFork'
BY DEF SessionsDoNotFork, At

LEMMA ForkKinds ==
  ASSUME TypeInv, RowInv, SessionsDoNotFork, NEW r \in Slots, Kinds(r)
  PROVE  SessionsDoNotFork'
<1>1. CASE Ends(r) \/ Breaches(r)
  <2>1. PICK rows \in SUBSET stored : stored' = Revoke(rows)
    <3>1. RowsOf(req[r].token.user) \in SUBSET stored
      BY DEF RowsOf
    <3> QED BY <1>1, <3>1 DEF Ends, Breaches
  <2>2. \A q \in Slots : req'[q].pc = "refresh.create" =>
          req[q].pc = "refresh.create" /\ req'[q].row = req[q].row
    BY <1>1 DEF Ends, Breaches, Others, Renews
  <2>3. \A a \in stored' : \E b \in stored : a.session = b.session
    BY <2>1, RevokedAlike DEF Alike
  <2>4. \A a, b \in stored' : a.session = b.session => a = b
    BY <2>1, RevokeUnique
  <2> QED BY <2>2, <2>3, <2>4, ForkKept
<1>2. CASE Accepts(r) \/ Checks(r)
  <2>1. \A q \in Slots : req'[q].pc = "refresh.create" =>
          req[q].pc = "refresh.create" /\ req'[q].row = req[q].row
    BY <1>2 DEF Accepts, Checks, Others
  <2>2. stored' = stored
    BY <1>2 DEF Accepts, Checks
  <2> QED BY <2>1, <2>2, ForkKept DEF SessionsDoNotFork
<1>3. CASE Swaps(r)
  <2> DEFINE old == req[r].row
  <2>1. old \in Held
    BY <1>3 DEF Swaps, Held, Renews
  <2>2. PICK x \in stored : x.id = old.id
    BY <1>3 DEF Swaps, RowIds
  <2>3. x.session = old.session
    BY <2>1, <2>2 DEF RowInv, Rows, Alike
  <2>4. \A a \in stored' : a \in stored /\ a.session # old.session
    BY <1>3, <2>2, <2>3 DEF Swaps, SessionsDoNotFork
  <2>5. \A q \in Slots \ {r} : req'[q].pc = "refresh.create" =>
          /\ req[q].pc = "refresh.create" /\ req'[q].row = req[q].row
          /\ req[q].row.session # old.session
    BY <1>3, <2>2, <2>3 DEF Swaps, Others, SessionsDoNotFork, At
  <2>6. req'[r].row = old
    BY <1>3 DEF Swaps
  <2> HIDE DEF old
  <2>7. \A a, b \in stored' : a.session = b.session => a = b
    BY <2>4 DEF SessionsDoNotFork
  <2>8. ASSUME NEW p \in Slots, req'[p].pc = "refresh.create"
        PROVE  /\ \A a \in stored' : a.session # req'[p].row.session
               /\ \A q \in Slots : req'[q].pc = "refresh.create"
                                     /\ req'[q].row.session = req'[p].row.session => q = p
    <3>1. CASE p = r
      BY <3>1, <2>4, <2>5, <2>6
    <3>2. CASE p # r
      BY <3>2, <2>4, <2>5, <2>6, <2>8 DEF SessionsDoNotFork, At
    <3> QED BY <3>1, <3>2
  <2> QED BY <2>7, <2>8 DEF SessionsDoNotFork, At
<1>4. CASE Creates(r)
  <2> DEFINE new == NewRow(req[r].token, CreatedIn(r))
  <2>1. stored' = stored \cup {new} /\ new.session = CreatedIn(r)
    BY <1>4, RowCreated DEF Creates
  <2>2. \A q \in Slots : req'[q].pc = "refresh.create" =>
          q # r /\ req[q].pc = "refresh.create" /\ req'[q].row = req[q].row
    BY <1>4 DEF Creates, Others, Renews
  <2>3. /\ \A a \in stored : a.session # CreatedIn(r)
        /\ \A q \in Slots : q # r /\ req[q].pc = "refresh.create" => req[q].row.session # CreatedIn(r)
    <3>1. CASE req[r].pc = "refresh.create"
      BY <1>4, <3>1, RowCreated DEF SessionsDoNotFork, At
    <3>2. CASE req[r].pc = "login.create"
      <4>1. CreatedIn(r) = serial /\ serial \in Nat
        BY <1>4, <3>2, RowCreated DEF TypeInv, SessionsTypeOK
      <4>2. \A a \in Rows : a.session # serial
        BY <4>1, RowsTyped DEF RowInv, TokenRow
      <4> QED BY <4>1, <4>2 DEF Rows, Held, Renews
    <3> QED BY <1>4, <3>1, <3>2 DEF Creates
  <2> HIDE DEF new
  <2>4. \A a, b \in stored' : a.session = b.session => a = b
    BY <2>1, <2>3 DEF SessionsDoNotFork
  <2>5. ASSUME NEW p \in Slots, req'[p].pc = "refresh.create"
        PROVE  /\ \A a \in stored' : a.session # req'[p].row.session
               /\ \A q \in Slots : req'[q].pc = "refresh.create"
                                     /\ req'[q].row.session = req'[p].row.session => q = p
    BY <2>1, <2>2, <2>3, <2>5 DEF SessionsDoNotFork, At
  <2> QED BY <2>4, <2>5 DEF SessionsDoNotFork, At
<1> QED BY <1>1, <1>2, <1>3, <1>4 DEF Kinds

LEMMA ForkStep ==
  TypeInv /\ RowInv /\ SessionsDoNotFork /\ [SessionsNext]_sessionVars => SessionsDoNotFork'
<1> SUFFICES ASSUME TypeInv, RowInv, SessionsDoNotFork, [SessionsNext]_sessionVars
             PROVE  SessionsDoNotFork'
  OBVIOUS
<1>1. CASE \E r \in Slots : SessionStep(r)
  BY <1>1, StepKinds, ForkKinds
<1>2. CASE (\E u \in Users : DeleteAccount(u)) \/ Tick \/ UNCHANGED sessionVars
  <2>1. stored' \subseteq stored /\ req' = req
    BY <1>2 DEF DeleteAccount, Tick, sessionVars
  <2> QED BY <2>1, ForkKept DEF SessionsDoNotFork
<1>3. CASE SessionCrash
  <2>1. stored' = stored /\ \A q \in Slots : req'[q].pc # "refresh.create"
    BY <1>3 DEF SessionCrash, Idle
  <2> QED BY <2>1, ForkKept DEF SessionsDoNotFork
<1> QED BY <1>1, <1>2, <1>3 DEF SessionsNext

\* For any number of users and requests, with crashes and deletions at any
\* point: one login never becomes two sessions.
THEOREM SessionsStaySingle == SessionsSpec => []SessionsDoNotFork
<1>1. SessionsInit => TypeInv /\ RowInv /\ SessionsDoNotFork
  BY TypeInit, RowInit DEF SessionsInit, SessionsDoNotFork, At, Idle
<1>2. TypeInv /\ RowInv /\ SessionsDoNotFork /\ [SessionsNext]_sessionVars
        => (TypeInv /\ RowInv /\ SessionsDoNotFork)'
  BY TypeStep, RowStep, ForkStep
<1> QED BY <1>1, <1>2, PTL DEF SessionsSpec

(* ---- breach revocation --------------------------------------------------------- *)

\* Rows that are not revoked, and those of refreshes that accepted them.
Live == {row \in stored : ~row.revoked} \cup Held

BreachInv ==
  /\ \A a \in Live : a.session \in breached => a.session \in spared
  /\ \A n \in breached : n < serial

LEMMA LiveDescends ==
  ASSUME TypeInv, NEW r \in Slots, Kinds(r), ~Creates(r)
  PROVE  Live' \subseteq Live
BY Descent DEF Live

LEMMA BreachKinds ==
  ASSUME TypeInv, RowInv, BreachInv, NEW r \in Slots, Kinds(r)
  PROVE  BreachInv'
<1>1. CASE Breaches(r)
  <2> DEFINE u   == req[r].token.user
             all == {row.session : row \in RowsOf(u)} \cup Renewing(u)
  <2>1. /\ stored' = Revoke(RowsOf(u)) /\ breached' = breached \cup all
        /\ spared' = (spared \ all) \cup Renewing(u) /\ serial' = serial
    BY <1>1 DEF Breaches
  <2>2. Held' \subseteq Held \cup {}
    BY <1>1, HeldAfter DEF Breaches
  <2>3. \A s \in all : \E a \in Rows : a.session = s /\ a.token.user = u
    BY DEF Rows, Held, Renews, RowsOf, Renewing
  <2>4. \A a \in Held : a.token.user = u => a.session \in Renewing(u)
    BY DEF Held, Renews, Renewing
  <2>5. \A a \in Rows : a.token.user # u => a.session \notin all
    BY <2>3 DEF RowInv
  <2>6. \A a \in stored' : ~a.revoked => a \in Live /\ a \in Rows /\ a.token.user # u
    <3>1. RowsOf(u) \in SUBSET stored
      BY DEF RowsOf
    <3> QED BY <2>1, <3>1, RevokedAlike DEF Live, Rows, RowsOf
  <2>7. \A s \in all : s < serial
    BY <2>3 DEF RowInv
  <2> HIDE DEF u, all
  <2>8. ASSUME NEW a \in Live', a.session \in breached'
        PROVE  a.session \in spared'
    <3>1. a \in Live /\ a \in Rows /\ (a.token.user = u => a.session \in Renewing(u))
      BY <2>2, <2>4, <2>6 DEF Live, Rows
    <3>2. CASE a.token.user = u
      BY <3>1, <3>2, <2>1
    <3>3. CASE a.token.user # u
      BY <3>1, <3>3, <2>1, <2>5, <2>8 DEF BreachInv
    <3> QED BY <3>2, <3>3
  <2> QED BY <2>1, <2>7, <2>8 DEF BreachInv
<1>2. CASE Creates(r)
  <2> DEFINE new == NewRow(req[r].token, CreatedIn(r))
  <2>1. Live' \subseteq Live \cup {new}
    BY <1>2, CreatesHolds DEF Live, Creates
  <2>2. new.session \in breached => new.session \in spared
    <3>1. CASE req[r].pc = "refresh.create"
      BY <1>2, <3>1, RowCreated DEF BreachInv, Live
    <3>2. CASE req[r].pc = "login.create"
      BY <1>2, <3>2, RowCreated DEF BreachInv, TypeInv, SessionsTypeOK
    <3> QED BY <1>2, <3>1, <3>2 DEF Creates
  <2>3. serial' = serial + 1 /\ serial \in Nat /\ UNCHANGED <<breached, spared>> /\ breached \subseteq Nat
    BY <1>2 DEF Creates, TypeInv, SessionsTypeOK
  <2> HIDE DEF new
  <2>4. \A n \in breached' : n < serial'
    BY <2>3 DEF BreachInv
  <2> QED BY <2>1, <2>2, <2>3, <2>4 DEF BreachInv
<1>3. CASE ~Breaches(r) /\ ~Creates(r)
  <2>1. UNCHANGED <<breached, spared, serial>>
    BY <1>3 DEF Kinds, Ends, Accepts, Checks, Swaps
  <2> QED BY <1>3, <2>1, LiveDescends DEF BreachInv
<1> QED BY <1>1, <1>2, <1>3

LEMMA BreachStep ==
  TypeInv /\ RowInv /\ BreachInv /\ [SessionsNext]_sessionVars => BreachInv'
<1> SUFFICES ASSUME TypeInv, RowInv, BreachInv, [SessionsNext]_sessionVars
             PROVE  BreachInv'
  OBVIOUS
<1>1. CASE \E r \in Slots : SessionStep(r)
  BY <1>1, StepKinds, BreachKinds
<1>2. CASE (\E u \in Users : DeleteAccount(u)) \/ Tick \/ UNCHANGED sessionVars
  <2>1. stored' \subseteq stored /\ UNCHANGED <<req, serial, breached, spared>>
    BY <1>2 DEF DeleteAccount, Tick, sessionVars, history
  <2> QED BY <2>1 DEF BreachInv, Live, Held
<1>3. CASE SessionCrash
  <2>1. UNCHANGED <<stored, serial, breached, spared>> /\ Held' = {}
    BY <1>3 DEF SessionCrash, Held, Renews, Idle, history
  <2> QED BY <2>1 DEF BreachInv, Live
<1> QED BY <1>1, <1>2, <1>3 DEF SessionsNext

\* A reuse that is noticed ends every session of the user but those being
\* renewed at that moment, and no later step brings one of them back.
THEOREM BreachesReach == SessionsSpec => []BreachReachesAll
<1>1. SessionsInit => TypeInv /\ RowInv /\ BreachInv
  BY TypeInit, RowInit DEF SessionsInit, BreachInv
<1>2. TypeInv /\ RowInv /\ BreachInv /\ [SessionsNext]_sessionVars
        => (TypeInv /\ RowInv /\ BreachInv)'
  BY TypeStep, RowStep, BreachStep
<1>3. BreachInv => BreachReachesAll
  BY DEF BreachInv, BreachReachesAll, Live
<1> QED BY <1>1, <1>2, <1>3, PTL DEF SessionsSpec

(* ---- the sessions implement SessionBoard ---------------------------------------- *)

LEMMA CarriedKept ==
  ASSUME Carried' \subseteq Carried
  PROVE  OpenSessions' \subseteq OpenSessions
BY DEF OpenSessions

\* No step but CreateToken opens a session.
LEMMA CarriedKinds ==
  ASSUME TypeInv, RowInv, NEW r \in Slots, Kinds(r), ~Creates(r)
  PROVE  Carried' \subseteq Carried
<1>1. /\ UNCHANGED accounts
      /\ \A a \in stored' : \E b \in stored : a.id = b.id /\ (~a.revoked => a = b)
  BY Descent DEF Alike
<1>2. RowIds' \subseteq RowIds /\ {row \in stored' : ~row.revoked} \subseteq {row \in stored : ~row.revoked}
  BY <1>1 DEF RowIds
<1>3. \A q \in Slots : req'[q] = req[q] /\ Renewal(q)' => Renewal(q)
  BY <1>1, <1>2 DEF Renewal, At
<1>4. Others(r)
  BY DEF Kinds, Ends, Breaches, Accepts, Checks, Swaps, Creates
<1>5. ASSUME Renewal(r)'
      PROVE  req'[r].row \in Carried
  <2>1. Renews(req'[r])
    BY <1>5 DEF Renewal, Renews, At
  <2>2. CASE Accepts(r)
    BY <2>2 DEF Accepts, Carried
  <2>3. CASE Checks(r)
    <3>1. Renewal(r)
      BY <1>2, <1>5, <2>3 DEF Checks, Renewal, At
    <3> QED BY <2>3, <3>1 DEF Checks, Carried
  <2>4. CASE Swaps(r)
    <3>1. Renewal(r)
      BY <2>4 DEF Swaps, Renewal
    <3> QED BY <2>4, <3>1 DEF Swaps, Carried
  <2> QED BY <2>1, <2>2, <2>3, <2>4 DEF Kinds, Ends, Breaches
<1>6. \A q \in Slots : Renewal(q)' => req'[q].row \in Carried
  BY <1>3, <1>4, <1>5 DEF Others, Carried
<1> QED BY <1>2, <1>6 DEF Carried

\* A row made by a login opens its session; one made by a refresh keeps the
\* session open that the refresh carried.
LEMMA CarriedCreates ==
  ASSUME TypeInv, RowInv, NEW r \in Slots, Creates(r)
  PROVE  Board!LogIn \/ Board!EndSome
<1> DEFINE new == NewRow(req[r].token, CreatedIn(r))
           open == [session |-> new.session, user |-> new.token.user]
<1>0. /\ new.id = serial /\ new.token.user \in accounts /\ ~new.revoked
      /\ stored' = stored \cup {new} /\ serial' = serial + 1 /\ serial \in Nat
      /\ UNCHANGED accounts
  BY RowCreated DEF Creates, Others, TypeInv, SessionsTypeOK
<1>1. RowIds' = RowIds \cup {serial}
  BY <1>0 DEF RowIds
<1>2. \A q \in Slots \ {r} : Renewal(q)' <=> Renewal(q)
  <2> TAKE q \in Slots \ {r}
  <2>1. req'[q] = req[q]
    BY DEF Creates, Others
  <2>2. Renews(req[q]) => req[q].row.id # serial
    <3>1. Renews(req[q]) => req[q].row \in Rows
      BY DEF Rows, Held
    <3> QED BY <3>1, <1>0, RowsTyped DEF RowInv, TokenRow
  <2> QED BY <1>0, <1>1, <2>1, <2>2 DEF Renewal, Renews, At
<1>3. ~Renewal(r)'
  BY DEF Creates, Renews, Renewal, At
<1>4. \A q \in Slots \ {r} : req'[q] = req[q]
  BY DEF Creates, Others
<1>5. CASE req[r].pc = "login.create"
  <2>1. ~Renewal(r)
    BY <1>5 DEF Renewal, At
  <2>2. Carried' = Carried \cup {new}
    BY <1>0, <1>2, <1>3, <1>4, <2>1 DEF Carried
  <2>3. OpenSessions' = OpenSessions \cup {open}
    BY <2>2 DEF OpenSessions
  <2>4. open.session = serial /\ open.user \in accounts
    BY <1>0, <1>5, RowCreated
  <2> HIDE DEF open
  <2>5. open \in OpenSessions'
    BY <2>3
  <2> QED BY <1>0, <2>3, <2>4, <2>5 DEF Board!LogIn
<1>6. CASE req[r].pc = "refresh.create"
  <2>1. /\ new.session = req[r].row.session /\ new.token.user = req[r].row.token.user
    BY <1>6, RowCreated
  <2>2. req[r].row \in Carried
    BY <1>0, <1>6, <2>1 DEF Renewal, At, Carried
  <2>3. Carried' \subseteq Carried \cup {new}
    BY <1>0, <1>2, <1>3, <1>4 DEF Carried
  <2>4. open \in OpenSessions
    BY <2>1, <2>2 DEF OpenSessions
  <2>5. OpenSessions' \subseteq OpenSessions \cup {open}
    BY <2>3 DEF OpenSessions
  <2> HIDE DEF open
  <2>6. OpenSessions' \subseteq OpenSessions /\ serial <= serial'
    BY <1>0, <2>4, <2>5
  <2> QED BY <1>0, <2>6 DEF Board!EndSome
<1> QED BY <1>5, <1>6 DEF Creates

LEMMA CarriedDeletes ==
  ASSUME TypeInv, RowInv, NEW u \in Users, DeleteAccount(u)
  PROVE  Board!RemoveAccounts
<1>1. /\ accounts' = accounts \ {u} /\ stored' = {row \in stored : row.token.user # u}
      /\ UNCHANGED <<serial, req>>
  BY DEF DeleteAccount, RowsOf
<1>2. \A row \in Carried : row.token.user \in accounts
  <2>1. ASSUME NEW q \in Slots, Renewal(q)
        PROVE  req[q].row.token.user \in accounts
    <3>1. CASE At(q, "refresh.create")
      BY <2>1, <3>1 DEF Renewal, At
    <3>2. CASE req[q].row.id \in RowIds /\ Renews(req[q])
      <4>1. PICK x \in stored : x.id = req[q].row.id
        BY <3>2 DEF RowIds
      <4>2. req[q].row \in Rows /\ x \in Rows
        BY <3>2 DEF Rows, Held
      <4> QED BY <4>1, <4>2 DEF RowInv, Alike
    <3> QED BY <2>1, <3>1, <3>2 DEF Renewal, Renews
  <2> QED BY <2>1 DEF Carried, RowInv
<1>3. ASSUME NEW q \in Slots
      PROVE  Renewal(q)' <=> Renewal(q) /\ req[q].row.token.user # u
  <2>1. CASE req[q].pc \in {"refresh.user", "refresh.delete"}
    <3>1. req[q].row \in Rows
      BY <2>1 DEF Rows, Held, Renews
    <3>2. \A x \in stored : x.id = req[q].row.id => x.token = req[q].row.token
      BY <3>1 DEF RowInv, Rows, Alike
    <3>3. req[q].row.id \in RowIds' <=> req[q].row.id \in RowIds /\ req[q].row.token.user # u
      BY <1>1, <3>2 DEF RowIds
    <3> QED BY <1>1, <2>1, <3>3 DEF Renewal, At
  <2>2. CASE req[q].pc \notin {"refresh.user", "refresh.delete"}
    BY <1>1, <2>2 DEF Renewal, At
  <2> QED BY <2>1, <2>2
<1>4. Carried' = {row \in Carried : row.token.user # u}
  BY <1>1, <1>3 DEF Carried
<1>5. \A row \in Carried : row.token.user \in accounts' <=> row.token.user # u
  BY <1>1, <1>2
<1>6. OpenSessions' = {x \in OpenSessions : x.user \in accounts'}
  <2>1. ASSUME NEW row \in Carried
        PROVE  [session |-> row.session, user |-> row.token.user].user = row.token.user
    OBVIOUS
  <2> QED BY <1>4, <1>5, <2>1 DEF OpenSessions
<1> QED BY <1>1, <1>6 DEF Board!RemoveAccounts

LEMMA BoardStep ==
  ASSUME TypeInv, RowInv, [SessionsNext]_sessionVars
  PROVE  [Board!LogIn \/ Board!EndSome \/ Board!RemoveAccounts]_(Board!board)
<1>0. serial \in Nat
  BY DEF TypeInv, SessionsTypeOK
<1>1. ASSUME NEW r \in Slots, SessionStep(r)
      PROVE  Board!LogIn \/ Board!EndSome
  <2>1. CASE Creates(r)
    BY <2>1, CarriedCreates
  <2>2. CASE ~Creates(r)
    <3>1. Carried' \subseteq Carried /\ UNCHANGED <<serial, accounts>>
      BY <1>1, <2>2, StepKinds, CarriedKinds, Descent
    <3> QED BY <1>0, <3>1, CarriedKept DEF Board!EndSome
  <2> QED BY <2>1, <2>2
<1>2. ASSUME NEW u \in Users, DeleteAccount(u)
      PROVE  Board!RemoveAccounts
  BY <1>2, CarriedDeletes
<1>3. CASE SessionCrash
  <2>1. UNCHANGED <<stored, serial, accounts>> /\ \A q \in Slots : ~Renewal(q)'
    BY <1>3 DEF SessionCrash, Idle, Renewal, At
  <2>2. Carried' \subseteq Carried
    BY <2>1 DEF Carried
  <2> QED BY <1>0, <2>1, <2>2, CarriedKept DEF Board!EndSome
<1>4. CASE Tick \/ UNCHANGED sessionVars
  <2>1. UNCHANGED <<stored, serial, accounts, req>>
    BY <1>4 DEF Tick, sessionVars
  <2>2. OpenSessions' = OpenSessions
    BY <2>1 DEF OpenSessions, Carried, Renewal, RowIds, At
  <2> QED BY <2>1, <2>2 DEF Board!board
<1> QED BY <1>1, <1>2, <1>3, <1>4 DEF SessionsNext

\* Logins, refreshes, revocations, deletions and crashes, however they
\* overlap, implement the abstract sessions: an ended one never comes back.
THEOREM SessionsImplementBoard == SessionsSpec => SessionBoardSpec
<1>1. SessionsInit => TypeInv /\ RowInv /\ Board!BoardInit
  <2>1. SessionsInit => OpenSessions = {} /\ serial = 0
    BY DEF SessionsInit, OpenSessions, Carried, Renewal, At, Idle
  <2> QED BY <2>1, TypeInit, RowInit DEF Board!BoardInit
<1>2. TypeInv /\ RowInv /\ [SessionsNext]_sessionVars => (TypeInv /\ RowInv)'
  BY TypeStep, RowStep
<1>3. TypeInv /\ RowInv /\ [SessionsNext]_sessionVars
        => [Board!LogIn \/ Board!EndSome \/ Board!RemoveAccounts]_(Board!board)
  BY BoardStep
<1> QED BY <1>1, <1>2, <1>3, PTL DEF SessionsSpec, SessionBoardSpec, Board!Spec
=============================================================================
