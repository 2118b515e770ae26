------------------------------ MODULE Overloads ------------------------------
(***************************************************************************)
(* The Dart names of functions and methods (crates/server/src/             *)
(* function_catalog.rs, apply_overload_renames and                         *)
(* apply_reserved_word_renames; mapping.rs, overload_options_for).  Dart   *)
(* has no overloading: functions that share an owner and a C++ name are    *)
(* told apart by suffixes made of their parameters' types, and what these  *)
(* cannot tell apart by a number, in the order of the usrs.                *)
(*                                                                         *)
(* A name is a sequence of words.  The group of a declaration is the list  *)
(* of its overloads in the order of the merged catalog.                    *)
(***************************************************************************)
EXTENDS Naturals, Sequences, FiniteSets, SequencesExt, TLC, Vectors

CONSTANTS
  UsrOrder,      \* the usrs in the order their strings sort
  TypeSuffix,    \* the words a C++ type adds to a Dart name
  ReservedWords, \* names Dart keeps to itself
  Numeral        \* what to_string makes of 1, 2, ...

ASSUME NamingAssumption ==
  /\ UsrOrder \in Seq(ToSet(UsrOrder)) /\ Numeral \in Seq(ToSet(Numeral))
  /\ \A i, j \in DOMAIN Numeral : Numeral[i] = Numeral[j] => i = j
  /\ "_" \notin ToSet(Numeral)

\* With how many parameters a C++ operator is one of Dart's, and the name
\* of the method that stands in for it otherwise.
DirectArities == ("operator==" :> {1}) @@ ("operator-" :> {0, 1}) @@ ("operator()" :> {})

BridgeName(op, arity) ==
  CASE op = "operator==" -> <<"equals">>
    [] op = "operator-" -> IF arity = 0 THEN <<"negate">> ELSE <<"subtract">>
    [] op = "operator()" -> <<"call">>

IsOperator(name) == Head(name) \in DOMAIN DirectArities

OverloadsOf(decls, d) ==
  Keep(decls, {e \in ToSet(decls) : e.kind \in {"fn", "method"} /\ e.owner = d.owner /\ e.name = d.name})

Suffix(params) == FlattenSeq([i \in DOMAIN params |-> TypeSuffix[params[i]]])

-----------------------------------------------------------------------------
\* A static and an instance member may not share a name.
MixesStatic(group) ==
  \E i, j \in DOMAIN group : group[i].static /\ ~group[j].static

\* Two that differ in const alone are left to the number.
ConstPair(group) ==
  /\ Len(group) = 2
  /\ group[1].params = group[2].params
  /\ group[1].const # group[2].const

\* At most one method of a class keeps the operator itself: the one that
\* takes the class, or else the first.
KeepsOperator(group, record, d) ==
  LET bucket == Keep(group, {e \in ToSet(group) : Len(e.params) = Len(d.params)})
      takesOwner(e) ==
        e.params # <<>> /\ TypeSuffix[e.params[1]] \in {record.name, <<"Nullable">> \o record.name}
      native == SelectInSeq(bucket, takesOwner)
  IN /\ Len(d.params) \in DirectArities[Head(d.name)]
     /\ d.usr = bucket[IF native = 0 THEN 1 ELSE native].usr

OperatorRename(group, records, d) ==
  IF \E r \in ToSet(records) : r.usr = d.owner /\ KeepsOperator(group, r, d) THEN d.name
  ELSE BridgeName(Head(d.name), Len(d.params)) \o Suffix(d.params)

\* The name an overload gets from its own declaration.
Renamed(group, records, d) ==
  CASE Len(group) <= 1 -> d.name
    [] Len(group) > 1 /\ IsOperator(d.name) -> OperatorRename(group, records, d)
    [] Len(group) > 1 /\ ~IsOperator(d.name) /\ MixesStatic(group) ->
         IF d.static THEN Append(d.name, "Static") ELSE d.name
    [] Len(group) > 1 /\ ~IsOperator(d.name) /\ ~MixesStatic(group) /\ ConstPair(group) -> d.name
    [] OTHER -> d.name \o Suffix(d.params) \o (IF d.const THEN <<"Const">> ELSE <<>>)

\* All the names that its declaration may give an overload.
NamesFor(d) ==
  IF IsOperator(d.name) THEN {d.name, BridgeName(Head(d.name), Len(d.params)) \o Suffix(d.params)}
  ELSE {d.name, Append(d.name, "Static")} \cup {d.name \o Suffix(d.params) \o s : s \in {<<>>, <<"Const">>}}

\* Slip: numbered in the order the declarations were merged.
NumberedAsVisited(group, records, d) ==
  LET name == Renamed(group, records, d)
      same == Keep(group, {e \in ToSet(group) : Renamed(group, records, e) = name})
      place == SelectInSeq(same, LAMBDA e : e.usr = d.usr)
  IN IF place = 1 THEN name ELSE Append(name, Numeral[place])

\* The last defence: overloads that still share a name are numbered in the
\* order of their usrs, never in the order they were visited.
Numbered(group, records, d) ==
  LET name == Renamed(group, records, d)
      rank(e) == SelectInSeq(UsrOrder, LAMBDA u : u = e.usr)
      upTo == {e \in ToSet(group) : Renamed(group, records, e) = name /\ rank(e) <= rank(d)}
  IN IF Cardinality(upTo) <= 1 THEN name ELSE Append(name, Numeral[Cardinality(upTo)])

SafeName(name) == IF name \in ReservedWords THEN Append(name, "_") ELSE name

\* The new name of every cataloged function and method.
RenamesOf(decls, records) ==
  LET named == {d \in ToSet(decls) : d.kind \in {"fn", "method"}}
      new(d) == SafeName(Numbered(OverloadsOf(decls, d), records, d))
  IN [u \in {d.usr : d \in named} |-> new(CHOOSE d \in named : d.usr = u)]

\* Slip: the declaration is renamed, the calls in bodies are not.
RenameDeclaration(renames, f) ==
  [f EXCEPT !.name = IF f.usr \in DOMAIN renames THEN renames[f.usr] ELSE @]

\* A declaration and the calls in its body are renamed from one table.
Rename(renames, f) ==
  LET nameOf(k) == IF k.usr \in DOMAIN renames THEN renames[k.usr] ELSE k.name
  IN [f EXCEPT !.name = nameOf(f), !.calls = {[k EXCEPT !.name = nameOf(k)] : k \in @}]
=============================================================================
