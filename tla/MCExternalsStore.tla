-------------------------- MODULE MCExternalsStore ---------------------------
(* A type and its method, one source file, rules of one kind, and an old   *)
(* project.db with one mark and one rule.                                  *)
EXTENDS ExternalsStore
MCLegacy == [marks |-> <<[usr |-> 2, external |-> FALSE]>>,
             rules |-> [k \in RuleKind |-> <<[id |-> 1, pattern |-> "old"]>>],
             files |-> <<>>]
MCNoLegacy == NoData
=============================================================================
