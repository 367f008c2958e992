------------------------------- MODULE MCBoot -------------------------------
(***************************************************************************)
(* An instance of Boot for TLC: a new volume, or one with an organization  *)
(* whose ADMIN and MEMBER have demo addresses and whose project is empty.  *)
(***************************************************************************)
EXTENDS Boot

CONSTANTS o1, u1, u2, p1   \* what the used volume holds

MCUsers ==
  [u \in Users |->
    IF u = u1 THEN [org |-> o1, role |-> "ADMIN", email |-> "ADMIN"]
    ELSE IF u = u2 THEN [org |-> o1, role |-> "MEMBER", email |-> "MEMBER"] ELSE Null]
MCProjects ==
  [p \in Projects |-> IF p = p1 THEN [org |-> o1, name |-> DemoProject] ELSE Null]
MCTasks == [t \in Tasks |-> Null]
MCNames == {DemoProject, "Renamed"}
=============================================================================
