----------------------------- MODULE ExternalSet -----------------------------
(***************************************************************************)
(* Which declarations of a project are external                            *)
(* (crates/server/src/externals.rs): computed anew for each listing from   *)
(* the catalogs and from the lists of externals.txt, and never stored.     *)
(*                                                                         *)
(* A catalog has types (usr, space, name, file), functions (those and      *)
(* owner, a usr or NoOwner, and defined) and calls, the usrs of the        *)
(* callees that were resolved.  Space is the namespace, as a sequence of   *)
(* none or one; a qualified name is a sequence of segments.                *)
(***************************************************************************)
EXTENDS ExternalsData

CONSTANTS
  NameMatches,   \* which pattern matches which qualified name
  PathMatches,   \* which pattern matches which file
  NoOwner        \* the owner of a free function

Declarations(types, functions) == types \cup functions

QualifiedTypeName(t) == Append(t.space, t.name)

\* The owner is looked up among the types read with the function.
QualifiedFunctionName(f, types) ==
  LET owners == {t \in types : t.usr = f.owner}
  IN f.space \o (IF owners = {} THEN <<>> ELSE <<(CHOOSE t \in owners : TRUE).name>>) \o <<f.name>>

QualifiedName(d, types) ==
  IF d \in types THEN QualifiedTypeName(d) ELSE QualifiedFunctionName(d, types)

\* Called by the project and defined nowhere in it.
AutoUndefined(functions, calls) == calls \ {f.usr : f \in {g \in functions : g.defined}}

-----------------------------------------------------------------------------
(* effective_external_set, over what the seven reads of a listing found.   *)

Row(u, r) == {d \in Declarations(r.types, r.functions) : d.usr = u}
Patterns(rules) == {rule.pattern : rule \in ToSet(rules)}

\* The sources that are not manual: rules by pattern, file marks by file.
NameSources(u, r) ==
  {[kind |-> "name", by |-> p] : p \in
     {p \in Patterns(r.names) : \E d \in Row(u, r) : <<p, QualifiedName(d, r.types)>> \in NameMatches}}

PathSources(u, r) ==
  {[kind |-> "path", by |-> p] : p \in
     {p \in Patterns(r.paths) : \E d \in Row(u, r) : <<p, d.file>> \in PathMatches}}

FileSources(u, r) ==
  {[kind |-> "file", by |-> m.file] : m \in
     {m \in ToSet(r.files) : \E d \in Row(u, r) : d.file = m.file}}

UndefinedSource(u, r) ==
  IF u \in AutoUndefined(r.functions, r.calls) THEN {[kind |-> "undefined", by |-> u]} ELSE {}

Automatic(u, r) ==
  NameSources(u, r) \cup PathSources(u, r) \cup FileSources(u, r) \cup UndefinedSource(u, r)

Manual(u, r) == {m \in ToSet(r.marks) : m.usr = u}

\* Slip: an exclusion only cancels an inclusion.
EffectiveUnlessUnsourced(u, r) ==
  \/ \E m \in Manual(u, r) : m.external
  \/ Automatic(u, r) # {}

\* A manual decision has the last word in both directions.
Effective(u, r) ==
  IF Manual(u, r) # {} THEN \E m \in Manual(u, r) : m.external
                       ELSE Automatic(u, r) # {}

\* A usr without any source is not listed at all.
Statuses(r) ==
  LET mentioned == {d.usr : d \in Declarations(r.types, r.functions)} \cup r.calls
                     \cup {m.usr : m \in ToSet(r.marks)}
  IN {[usr |-> u, effective |-> Effective(u, r), sources |-> Automatic(u, r)] :
        u \in {x \in mentioned : Automatic(x, r) # {} \/ Manual(x, r) # {}}}
=============================================================================
