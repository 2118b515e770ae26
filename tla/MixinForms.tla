------------------------------ MODULE MixinForms ------------------------------
(***************************************************************************)
(* Which C++ classes become Dart mixins, and the with clause of those that *)
(* do not (crates/server/src/emit/dart.rs, function_catalog.rs).  A class  *)
(* with one base extends it, one with several is composed of mixins, and   *)
(* whatever is reached from a mixin is a mixin too.  The decision is taken *)
(* once when the catalogs are merged, which rewrites the records by it,    *)
(* and again, on the rewritten records, by everyone who prints or checks.  *)
(*                                                                         *)
(* Records are numbered so that a base is smaller than what derives from   *)
(* it: C++ has no cycles.  A base the module does not know is printed by   *)
(* name and has no bases of its own.                                       *)
(***************************************************************************)
EXTENDS Integers, Sequences

CONSTANTS
  RecordCount,   \* the records of a module are 1 .. RecordCount
  Modules        \* lowered modules to consider

Usr == 1 .. RecordCount
Names == 1 .. 2 * RecordCount
Impl(u) == RecordCount + u   \* the private sibling `_{Name}Impl` of u
None == 0

Elems(list) == {list[k] : k \in DOMAIN list}

\* known: the records of the module; bases: as written, in order;
\* initialised: those with a constructor that has written initialisers;
\* constructed: those some function body constructs.
IsModule(m) ==
  /\ m.known \subseteq Usr /\ m.initialised \subseteq Usr /\ m.constructed \subseteq Usr
  /\ m.bases \in [Usr -> Seq(Usr)]
  /\ \A u \in Usr : \A k \in DOMAIN m.bases[u] : m.bases[u][k] < u

ASSUME MixinAssumption == RecordCount \in Nat \ {0} /\ \A m \in Modules : IsModule(m)

VARIABLES
  module,     \* the module lowered
  phase,      \* "merge" (apply_mixin_forms) or "emit" (emit_record and the rest)
  records,    \* the records there are: the module's and the siblings added
  baseClass,  \* Record::base_class, or None
  mixins,     \* Record::mixins
  agenda,     \* mixin_usrs: the stack
  decided,    \* mixin_usrs: the result
  merged,     \* what mixin_usrs answered apply_mixin_forms
  next,       \* expand_mixin_chain: the record expanded now
  path,       \* its visits that have not returned, the innermost last
  taken,      \* how many bases each of them has been through
  seen,       \* the bases visited
  chain,      \* the bases pushed so far
  chains      \* the finished expansion of each record

mixinVars == <<module, phase, records, baseClass, mixins, agenda, decided, merged,
               next, path, taken, seen, chain, chains>>

-----------------------------------------------------------------------------
Chained(base, more) == IF base = None THEN more ELSE <<base>> \o more

\* The bases of u in the order of base_class.iter().chain(mixins).
Edges(u) == IF u \in records THEN Chained(baseClass[u], mixins[u]) ELSE <<>>

Seeds == UNION {Elems(mixins[u]) : u \in records}

(* lower_record: exactly one base is extended, several are mixed in. *)
MixinInit ==
  /\ module \in Modules
  /\ phase = "merge"
  /\ records = module.known
  /\ baseClass = [u \in Names |-> IF u \in records /\ Len(module.bases[u]) = 1 THEN module.bases[u][1] ELSE None]
  /\ mixins = [u \in Names |-> IF u \in records /\ Len(module.bases[u]) # 1 THEN module.bases[u] ELSE <<>>]
  /\ agenda = Seeds
  /\ decided = {} /\ merged = {}
  /\ next = 1 /\ path = <<>> /\ taken = [u \in Names |-> 0] /\ seen = {} /\ chain = <<>>
  /\ chains = [u \in Names |-> <<>>]

walk == <<next, path, taken, seen, chain, chains>>

(* One turn of the loop of mixin_usrs.  Which entry of the stack is on top *)
(* depends on the order of the records, so any may be.                     *)
Decide ==
  \E u \in agenda :
    /\ decided' = decided \cup {u}
    /\ agenda' = (agenda \ {u}) \cup (IF u \in decided THEN {} ELSE Elems(Edges(u)))
    /\ UNCHANGED <<module, phase, records, baseClass, mixins, merged, walk>>

\* Slip: the base is taken out of `extends` and forgotten.
BaseDropped(u) == mixins[u]

\* A base that was decided moves from `extends` to the mixins.
Migrated(u) ==
  IF baseClass[u] \in decided THEN <<baseClass[u]>> \o mixins[u] ELSE mixins[u]

(* apply_mixin_forms: a record whose base turned into a mixin mixes it in, *)
(* and a mixin that something constructs gets a sibling class to construct *)
(* instead.  With nothing decided all of this is the identity, and the     *)
(* code returns early.                                                     *)
ApplyForms ==
  /\ phase = "merge" /\ agenda = {}
  /\ LET built == decided \cap module.known \cap module.constructed
     IN /\ records' = records \cup {Impl(u) : u \in built}
        /\ baseClass' = [u \in Names |-> IF baseClass[u] \in decided THEN None ELSE baseClass[u]]
        /\ mixins' = [u \in Names |-> IF u - RecordCount \in built THEN <<u - RecordCount>> ELSE Migrated(u)]
  /\ merged' = decided
  /\ phase' = "emit" /\ decided' = {} /\ agenda' = Seeds'
  /\ UNCHANGED <<module, walk>>

-----------------------------------------------------------------------------
(* expand_mixin_chain of every record in turn.                             *)

Top == path[Len(path)]
Walked(u) == IF u = next THEN mixins[u] ELSE Edges(u)   \* what the loop of this visit runs over
Decisions == <<module, phase, records, baseClass, mixins, agenda, decided, merged>>

ExpandRecord ==
  /\ phase = "emit" /\ agenda = {} /\ path = <<>> /\ next \in records
  /\ path' = <<next>> /\ taken' = [taken EXCEPT ![next] = 0] /\ seen' = {} /\ chain' = <<>>
  /\ UNCHANGED <<Decisions, next, chains>>

NoRecord ==
  /\ phase = "emit" /\ agenda = {} /\ path = <<>> /\ next \in Names \ records
  /\ next' = next + 1
  /\ UNCHANGED <<Decisions, path, taken, seen, chain, chains>>

\* A base already visited is passed over.
VisitBase ==
  /\ path # <<>> /\ taken[Top] < Len(Walked(Top))
  /\ LET base == Walked(Top)[taken[Top] + 1]
         on == [taken EXCEPT ![Top] = @ + 1]
     IN IF base \in seen
        THEN taken' = on /\ UNCHANGED <<path, seen>>
        ELSE /\ seen' = seen \cup {base}
             /\ path' = Append(path, base)
             /\ taken' = [on EXCEPT ![base] = 0]
  /\ UNCHANGED <<Decisions, next, chain, chains>>

\* A base is pushed only after its own bases.
PushBase ==
  /\ Len(path) > 1 /\ taken[Top] = Len(Walked(Top))
  /\ path' = SubSeq(path, 1, Len(path) - 1)
  /\ chain' = Append(chain, Top)
  /\ UNCHANGED <<Decisions, next, taken, seen, chains>>

RecordExpanded ==
  /\ Len(path) = 1 /\ taken[Top] = Len(Walked(Top))
  /\ chains' = [chains EXCEPT ![next] = chain]
  /\ path' = <<>> /\ next' = next + 1
  /\ UNCHANGED <<Decisions, taken, seen, chain>>

MixinNext == Decide \/ ApplyForms \/ ExpandRecord \/ NoRecord \/ VisitBase \/ PushBase \/ RecordExpanded

MixinSpec == MixinInit /\ [][MixinNext]_mixinVars

-----------------------------------------------------------------------------
(* emit_record: a mixin with a written initialiser falls back to a class,  *)
(* since only a class may have constructors.                               *)
IsMixin(u) == u \in decided /\ u \notin module.initialised

Deciding == phase = "merge" \/ agenda # {}
Expanded(u) == u \in records /\ u < next

MixinTypeOK ==
  /\ module \in Modules /\ phase \in {"merge", "emit"}
  /\ records \subseteq Names
  /\ baseClass \in [Names -> Usr \cup {None}] /\ mixins \in [Names -> Seq(Usr)]
  /\ agenda \subseteq Usr /\ decided \subseteq Usr /\ merged \subseteq Usr
  /\ next \in 1 .. 2 * RecordCount + 1 /\ path \in Seq(Names) /\ taken \in [Names -> Nat]
  /\ seen \subseteq Usr /\ chain \in Seq(Names) /\ chains \in [Names -> Seq(Names)]

(* Whoever asks again after the records were rewritten, the printer or the *)
(* validator, gets the answer they were rewritten by: the two decisions    *)
(* cannot disagree about the mixin keyword.                                *)
OneDecision == ~Deciding => decided = merged

(* Dart extends a class only: a record that was decided to be a mixin is   *)
(* nobody's `extends`.                                                     *)
ClassesExtendClasses == ~Deciding => \A u \in records : baseClass[u] \notin decided

(* Every name of a with clause is a record decided to be a mixin, stands   *)
(* there once, and comes after every base its own `on` clause asks for.    *)
InOrder(list) ==
  \A k \in DOMAIN list : \A b \in Elems(Edges(list[k])) : \E j \in 1 .. k - 1 : list[j] = b
Once(list) == \A j, k \in DOMAIN list : list[j] = list[k] => j = k
MixinsApply ==
  \A u \in Names : Expanded(u) =>
    Elems(chains[u]) \subseteq decided /\ InOrder(chains[u]) /\ Once(chains[u])

(* Rewriting loses no base: what a class derives from in C++ it extends or *)
(* mixes in.                                                               *)
NoBaseLost ==
  \A u \in module.known : Expanded(u) =>
    Elems(module.bases[u]) \subseteq {baseClass[u]} \cup Elems(chains[u])

(* The forms of a module are such as Dart accepts, and derive from what    *)
(* the C++ classes derive from.                                            *)
FormsAreLegal == OneDecision /\ ClassesExtendClasses /\ MixinsApply /\ NoBaseLost
=============================================================================
