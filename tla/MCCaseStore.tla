---------------------------- MODULE MCCaseStore ----------------------------
(* Instances of CaseStore for TLC. *)
EXTENDS CaseStore, TLC

CONSTANTS c1, m1

ReplyFromOneCase == {<<c1, m1>>}

(* The case with the draft may not be exchanged with another. *)
Symmetry == Permutations(Notifications) \cup Permutations(Cases \ {c1})
=============================================================================
