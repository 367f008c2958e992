---------------------------- MODULE SessionBoard ----------------------------
(***************************************************************************)
(* What the sessions of auth.service.js promise, tokens and requests left  *)
(* out: a session begins with a login of an existing account, one that can *)
(* no longer be renewed never can again, and an account takes its sessions *)
(* with it.  When a session ends is left open: a logout may be overtaken   *)
(* by a renewal that it does not stop.                                     *)
(***************************************************************************)
EXTENDS Naturals

VARIABLES
  accounts,  \* users that exist
  open,      \* the sessions that can still be renewed: [session, user]
  next       \* every session so far has a smaller number

board == <<accounts, open, next>>

BoardInit == open = {} /\ next = 0

LogIn ==
  /\ \E x \in open' : /\ x.user \in accounts
                      /\ next <= x.session /\ x.session < next'
                      /\ open' = open \cup {x}
  /\ UNCHANGED accounts

\* Logout or breach revocation, while no renewal is under way; a renewal that
\* fails or is lost; or one that succeeds, which takes a number and leaves the
\* set as it is.
EndSome ==
  /\ open' \subseteq open /\ next <= next'
  /\ UNCHANGED accounts

RemoveAccounts ==
  /\ accounts' \subseteq accounts
  /\ open' = {x \in open : x.user \in accounts'}
  /\ UNCHANGED next

Spec == BoardInit /\ [][LogIn \/ EndSome \/ RemoveAccounts]_board
=============================================================================
