----------------------------- MODULE MCSessions -----------------------------
(***************************************************************************)
(* Instances of Sessions for TLC.                                          *)
(***************************************************************************)
EXTENDS Sessions, TLC

\* Request slots are interchangeable.
SlotSymmetry == Permutations(Slots)
=============================================================================
