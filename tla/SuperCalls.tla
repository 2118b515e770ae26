------------------------------ MODULE SuperCalls ------------------------------
(***************************************************************************)
(* Which method a call reaches once classes have become mixins             *)
(* (function_catalog.rs, emit/dart.rs).  C++ names the base of a qualified *)
(* call, Dart only says `super.` and looks along its own linearization; a  *)
(* C++ copy copies every base, the Dart copy constructor what it lists.    *)
(* All of this is read off a module whose forms are settled.               *)
(***************************************************************************)
EXTENDS MixinForms, FiniteSets

Printed == ~Deciding /\ next > 2 * RecordCount
IsClass(u) == u \in records /\ ~IsMixin(u)

\* The last name of a list that is in the set, or None.
LastIn(list, set) ==
  LET at == {k \in DOMAIN list : list[k] \in set}
  IN IF at = {} THEN None ELSE list[CHOOSE k \in at : \A j \in at : j <= k]

\* The base classes of u, nearest first, as far as the module knows them.
ExtendsChain(u) ==
  LET climb[v \in Names] ==
        IF baseClass[v] = None THEN <<>>
        ELSE <<baseClass[v]>> \o (IF baseClass[v] \in records THEN climb[baseClass[v]] ELSE <<>>)
  IN climb[u]

-----------------------------------------------------------------------------
(* resolve_qualified_base_calls: the base `super.method()` in the text of  *)
(* u is taken to reach, when `declarers` declare the method.               *)
Nearest(list, set) == LastIn([k \in DOMAIN list |-> list[Len(list) + 1 - k]], set)
\* Slip: the mixins are asked in the order they are written.
FirstMixin(u, declarers) ==
  LET mixed == Nearest(chains[u], declarers)
  IN IF mixed # None THEN mixed ELSE Nearest(ExtendsChain(u), declarers)
SuperTarget(u, declarers) ==
  LET mixed == LastIn(chains[u], declarers)
  IN IF mixed # None THEN mixed ELSE Nearest(ExtendsChain(u), declarers)

\* A qualified call is kept as a super call only when that is the base it names.
KeptAsSuper(u, named, declarers) == SuperTarget(u, declarers) = named

(* Dart: the classes and mixins a class is stacked from, Object first.     *)
Linearization ==
  [u \in Names |->
    LET stack[v \in Names] ==
          (IF baseClass[v] = None THEN <<>>
           ELSE IF baseClass[v] \in records THEN stack[baseClass[v]] ELSE <<baseClass[v]>>)
          \o chains[v] \o <<v>>
    IN stack[u]]

\* What `super.method()` in the text of u reaches in an object of class c.
DartSuper(c, u, declarers) ==
  LET line == Linearization[c]
      at == CHOOSE k \in DOMAIN line : line[k] = u
  IN LastIn(SubSeq(line, 1, at - 1), declarers)

-----------------------------------------------------------------------------
(* record_copy_blocker: why u declares no copy constructor.                *)
WithOnly(u) == Elems(chains[u]) \ Elems(ExtendsChain(u))   \* copied here, not by super

Copyable(privates) ==
  LET copyable[u \in Names] ==
        /\ IsClass(u)
        /\ baseClass[u] # None => baseClass[u] \in records /\ copyable[baseClass[u]]
        /\ \A m \in WithOnly(u) : m \in records /\ m \notin privates
  IN {u \in Names : copyable[u]}

(* emit_copy_constructor: the records whose fields a copy carries over.    *)
Copied ==
  [u \in Names |->
    LET copied[v \in Names] ==
          {v} \cup (WithOnly(v) \cap records)
          \cup (IF baseClass[v] = None \/ baseClass[v] \notin records THEN {} ELSE copied[baseClass[v]])
    IN copied[u]]

-----------------------------------------------------------------------------
\* C++: u and everything it derives from.
Ancestors ==
  [u \in Usr |->
    LET above[v \in Usr] ==
          {v} \cup (IF v \in module.known THEN UNION {above[b] : b \in Elems(module.bases[v])} ELSE {})
    IN above[u]]

\* The one class all other declarers among the ancestors of u are bases of.
Overriders(u, declarers) ==
  {f \in Ancestors[u] \cap declarers : Ancestors[u] \cap declarers \subseteq Ancestors[f]}

(* Where C++ has one final overrider, the method an object of a class runs *)
(* in Dart is that one, although the bases are stacked in a line.          *)
OverridersAgree ==
  Printed =>
    LET line == Linearization
    IN \A declarers \in SUBSET module.known, u \in module.known :
         IsClass(u) => \A f \in Overriders(u, declarers) : LastIn(line[u], declarers) = f

(* A qualified base call in a class that is kept as a super call reaches   *)
(* the base it names: Dart's line and the walk of super_target agree.      *)
ClassSupersAgree ==
  Printed =>
    \A declarers \in SUBSET records, u \in records : IsClass(u) =>
      \A named \in declarers : KeptAsSuper(u, named, declarers) => DartSuper(u, u, declarers) = named

(* A class that has a copy constructor copies the fields of all that it    *)
(* derives from in C++, whichever of them the printer gave to super.       *)
CopiesAreWhole ==
  Printed =>
    LET line == Linearization
        copied == Copied
    IN \A privates \in SUBSET module.known : \A u \in Copyable(privates) :
         /\ Elems(line[u]) \subseteq copied[u]
         /\ u \in Usr => Ancestors[u] \subseteq copied[u]

(* What an object does is what the C++ object does.                        *)
ObjectsAgree == OverridersAgree /\ ClassSupersAgree /\ CopiesAreWhole

(* "so this can never disagree with what `super.` actually reaches at      *)
(* runtime": whatever class the text of u ends up in.                      *)
SuperReachesTheNamedBase ==
  Printed =>
    \A declarers \in SUBSET module.known, c \in records : IsClass(c) =>
      \A u \in Elems(Linearization[c]) \cap records, named \in declarers :
        KeptAsSuper(u, named, declarers) => DartSuper(c, u, declarers) = named
=============================================================================
