----------------------------- MODULE MCMixinForms -----------------------------
(***************************************************************************)
(* Every way four records can derive from each other, with every record or *)
(* all but one of them known to the module.                                *)
(***************************************************************************)
EXTENDS SuperCalls

Sublists(set) ==
  {list \in UNION {[1 .. n -> set] : n \in 0 .. Cardinality(set)} : \A j, k \in DOMAIN list : list[j] = list[k] => j = k}
BaseLists(u) == Sublists(1 .. u - 1)
Inheritance == {<<a, b, c, d>> : a \in BaseLists(1), b \in BaseLists(2), c \in BaseLists(3), d \in BaseLists(4)}

LoweredModules ==
  {m \in [known : {1 .. 4} \cup {1 .. 4 \ {u} : u \in 1 .. 3}, bases : Inheritance,
          initialised : {{}, {2}, {3}}, constructed : {{}, 1 .. 4}] :
     \A u \in 1 .. 4 \ m.known : m.bases[u] = <<>>}

\* Two classes derive from one and a third from both: the diamond.
Diamonds ==
  {[known |-> 1 .. 4, bases |-> <<<<>>, <<1>>, <<1>>, <<2, 3>>>>, initialised |-> {}, constructed |-> {4}],
   [known |-> 1 .. 4, bases |-> <<<<>>, <<>>, <<1, 2>>, <<3>>>>, initialised |-> {}, constructed |-> {}]}

\* Nothing derives from anything yet: another part of the run has the floor.
MixinIdle ==
  /\ module = [known |-> {}] /\ phase = "idle" /\ records = {}
  /\ baseClass = <<>> /\ mixins = <<>> /\ agenda = {} /\ decided = {} /\ merged = {}
  /\ next = 1 /\ path = <<>> /\ taken = <<>> /\ seen = {} /\ chain = <<>> /\ chains = <<>>
=============================================================================
