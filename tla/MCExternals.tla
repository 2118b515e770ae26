----------------------------- MODULE MCExternals -----------------------------
(* The file under the requests of one writer and its crashes, or the list  *)
(* that this amounts to under a listing that reads it in parts: which of   *)
(* the two a behaviour is about is settled at its start.                   *)
EXTENDS MCExternalsStore, ExternalListing

VARIABLE which

\* A class with a method, which is called; with the second analysis the
\* class is gone and the method is an undefined function.
Class == [usr |-> 1, space |-> <<>>, name |-> "A", file |-> 1]
Function(owner, defined) ==
  [usr |-> 2, space |-> <<>>, name |-> "m", file |-> 1, owner |-> owner, defined |-> defined]
Before == [types |-> {Class}, functions |-> {Function(1, TRUE)}, calls |-> {2, 3}]
After == [types |-> {}, functions |-> {Function(0, FALSE)}, calls |-> {2}]

MCCatalogs == {Before, After}
MCNameMatches == {<<"new", <<"A">>>>, <<"new", <<"A", "m">>>>}
MCPathMatches == {<<"new", 1>>}

MCInit ==
  /\ Init /\ ListInit
  /\ which \in {"file", "list"}
  /\ which = "file" => catalog = Before
  /\ which = "list" => ~legacy

MCNext ==
  \/ which = "file" /\ Next /\ UNCHANGED <<which, listVars>>
  \/ which = "list" /\ ListNext /\ UNCHANGED <<which, vars>>

MCSpec == MCInit /\ [][MCNext]_<<which, vars, listVars>>
=============================================================================
