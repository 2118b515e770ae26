--------------------------- MODULE MixinForms_proofs ---------------------------
(***************************************************************************)
(* Proofs about the mixin forms and the super calls printed in them, for   *)
(* any number of records and whatever they derive from.  The decision is   *)
(* the least set that holds the seeds and is closed under bases; rewriting *)
(* keeps every record's bases and so keeps that set.  The depth-first walk *)
(* then only meets decided records, and since bases are smaller, whatever  *)
(* is still on the path of a walk is not a base of the record on top of    *)
(* it.  What a class lists is closed under bases too, so the line of an    *)
(* object has every base below what derives from it, once, and a name is   *)
(* found in the same record by the object and by a walk up the text.       *)
(***************************************************************************)
EXTENDS SuperCalls, TLAPS

USE DEF Usr, Names, None

LEMMA Prepended ==
  ASSUME NEW S, NEW b \in S, NEW s \in Seq(S)
  PROVE  /\ <<b>> \o s \in Seq(S)
         /\ Len(<<b>> \o s) = Len(s) + 1
         /\ Elems(<<b>> \o s) = {b} \cup Elems(s)
<1>1. <<b>> \o s \in Seq(S) /\ Len(<<b>> \o s) = Len(s) + 1
  OBVIOUS
<1>2. (<<b>> \o s)[1] = b /\ \A k \in DOMAIN s : (<<b>> \o s)[k + 1] = s[k]
  OBVIOUS
<1>3. DOMAIN (<<b>> \o s) = 1 .. Len(s) + 1 /\ DOMAIN s = 1 .. Len(s) /\ Len(s) \in Nat
  OBVIOUS
<1>4. \A k \in 1 .. Len(s) + 1 : k = 1 \/ k - 1 \in 1 .. Len(s)
  BY <1>3
<1>5. Elems(<<b>> \o s) \subseteq {b} \cup Elems(s)
  <2> SUFFICES ASSUME NEW k \in 1 .. Len(s) + 1
               PROVE  (<<b>> \o s)[k] \in {b} \cup Elems(s)
    BY <1>3 DEF Elems
  <2>1. CASE k = 1
    BY <2>1, <1>2
  <2>2. CASE k - 1 \in DOMAIN s
    <3>1. (<<b>> \o s)[(k - 1) + 1] = s[k - 1]
      BY <1>2, <2>2
    <3>2. (k - 1) + 1 = k
      BY <1>3
    <3> QED BY <3>1, <3>2, <2>2 DEF Elems
  <2> QED BY <2>1, <2>2, <1>3, <1>4
<1>6. {b} \cup Elems(s) \subseteq Elems(<<b>> \o s)
  <2>1. b \in Elems(<<b>> \o s)
    <3>1. 1 \in DOMAIN (<<b>> \o s)
      BY <1>3
    <3> QED BY <3>1, <1>2 DEF Elems
  <2>2. ASSUME NEW k \in DOMAIN s
        PROVE  s[k] \in Elems(<<b>> \o s)
    <3>1. k + 1 \in DOMAIN (<<b>> \o s)
      BY <1>3
    <3> QED BY <3>1, <1>2 DEF Elems
  <2> QED BY <2>1, <2>2 DEF Elems
<1> QED BY <1>1, <1>5, <1>6

LEMMA ElemsFacts ==
  ASSUME NEW S, NEW s \in Seq(S)
  PROVE  /\ Len(s) \in Nat /\ DOMAIN s = 1 .. Len(s) /\ Elems(s) \subseteq S
         /\ \A k \in DOMAIN s : s[k] \in S /\ s[k] \in Elems(s)
         /\ Len(s) = 1 => s[1] \in S /\ Elems(s) = {s[1]}
<1>1. Len(s) \in Nat /\ DOMAIN s = 1 .. Len(s) /\ \A k \in 1 .. Len(s) : s[k] \in S
  OBVIOUS
<1>2. CASE Len(s) = 1
  <2>1. DOMAIN s = {1}
    BY <1>1, <1>2
  <2> QED BY <2>1, <1>1, <1>2 DEF Elems
<1> QED BY <1>1, <1>2 DEF Elems

LEMMA NoElems ==
  ASSUME NEW S, NEW s, s = <<>>
  PROVE  s \in Seq(S) /\ Len(s) = 0 /\ Elems(s) = {} /\ \A k \in DOMAIN s : FALSE
BY DEF Elems

(* What happens at the end of a path. *)
LEMMA LastOf ==
  ASSUME NEW S, NEW s \in Seq(S), s # <<>>
  PROVE  Len(s) \in Nat /\ Len(s) >= 1 /\ DOMAIN s = 1 .. Len(s) /\ s[Len(s)] \in S
OBVIOUS

LEMMA Pushed ==
  ASSUME NEW S, NEW s \in Seq(S), NEW e \in S
  PROVE  /\ Append(s, e) \in Seq(S) /\ Append(s, e) # <<>> /\ Len(s) \in Nat
         /\ Len(Append(s, e)) = Len(s) + 1
         /\ \A k \in 1 .. Len(s) : Append(s, e)[k] = s[k]
         /\ Append(s, e)[Len(s) + 1] = e
<1>1. Append(s, e) \in Seq(S) /\ Len(s) \in Nat /\ Len(Append(s, e)) = Len(s) + 1
  OBVIOUS
<1>2. \A k \in 1 .. Len(s) : Append(s, e)[k] = s[k]
  OBVIOUS
<1>3. Append(s, e)[Len(s) + 1] = e
  BY <1>1
<1>4. Append(s, e) # <<>>
  BY <1>1
<1> QED BY <1>1, <1>2, <1>3, <1>4

Shorter(s) == SubSeq(s, 1, Len(s) - 1)
LEMMA Popped ==
  ASSUME NEW S, NEW s \in Seq(S), Len(s) > 1
  PROVE  /\ Shorter(s) \in Seq(S) /\ Shorter(s) # <<>> /\ Len(Shorter(s)) = Len(s) - 1 /\ Len(s) \in Nat
         /\ Shorter(s)[1] = s[1]
         /\ \A k \in 1 .. Len(s) - 1 : Shorter(s)[k] = s[k]
<1>1. Len(s) \in Nat /\ Len(s) - 1 \in Nat /\ Len(s) - 1 >= 1
  OBVIOUS
<1>2. Shorter(s) \in Seq(S) /\ Len(Shorter(s)) = Len(s) - 1 /\ \A k \in 1 .. Len(s) - 1 : Shorter(s)[k] = s[k]
  BY <1>1 DEF Shorter
<1>3. Shorter(s) # <<>> /\ Shorter(s)[1] = s[1]
  BY <1>1, <1>2
<1> QED BY <1>1, <1>2, <1>3

-----------------------------------------------------------------------------
(* A base is smaller than what derives from it. *)
Downward ==
  \A u \in Names : baseClass[u] < u /\ \A k \in DOMAIN mixins[u] : mixins[u][k] < u

LEMMA ChainedFacts ==
  ASSUME NEW S, None \notin S, NEW b \in S \cup {None}, NEW s \in Seq(S)
  PROVE  Chained(b, s) \in Seq(S) /\ Elems(Chained(b, s)) = ({b} \ {None}) \cup Elems(s)
<1>1. CASE b = None
  <2>1. Chained(b, s) = s
    BY <1>1 DEF Chained
  <2> QED BY <2>1, <1>1
<1>2. CASE b # None
  <2>1. b \in S /\ Chained(b, s) = <<b>> \o s
    BY <1>2 DEF Chained
  <2> QED BY <2>1, <1>2, Prepended
<1> QED BY <1>1, <1>2

LEMMA EdgesFacts ==
  ASSUME MixinTypeOK, Downward, NEW u \in Names
  PROVE  /\ Edges(u) \in Seq(Usr)
         /\ \A b \in Elems(Edges(u)) : b \in Usr /\ b < u
         /\ u \in records => Elems(Edges(u)) = ({baseClass[u]} \ {None}) \cup Elems(mixins[u])
<1>1. mixins[u] \in Seq(Usr) /\ baseClass[u] \in Usr \cup {None}
  BY DEF MixinTypeOK
<1>2. CASE u \notin records
  <2>1. Edges(u) = <<>>
    BY <1>2 DEF Edges
  <2> QED BY <2>1, <1>2 DEF Elems
<1>3. CASE u \in records
  <2>1. Edges(u) = Chained(baseClass[u], mixins[u])
    BY <1>3 DEF Edges
  <2>2. Edges(u) \in Seq(Usr) /\ Elems(Edges(u)) = ({baseClass[u]} \ {None}) \cup Elems(mixins[u])
    <3>1. None \notin Usr
      OBVIOUS
    <3> HIDE DEF Usr, None
    <3> QED BY <2>1, <1>1, <3>1, ChainedFacts
  <2>3. baseClass[u] < u /\ \A b \in Elems(mixins[u]) : b < u
    BY DEF Downward, Elems
  <2>4. Elems(Edges(u)) \subseteq Usr
    BY <2>2, ElemsFacts
  <2>5. \A b \in Elems(Edges(u)) : b < u
    BY <2>2, <2>3
  <2> QED BY <2>2, <2>4, <2>5
<1> QED BY <1>2, <1>3

-----------------------------------------------------------------------------
(* What is there before anything is rewritten, and what stays true of the  *)
(* bases however they are kept.                                            *)
Untouched ==
  /\ phase = "merge" => /\ records = module.known /\ next = 1 /\ path = <<>>
                        /\ \A u \in Names \ Usr : baseClass[u] = None /\ mixins[u] = <<>>
  /\ next > 1 \/ path # <<>> => ~Deciding
  /\ path # <<>> => path[1] = next /\ next \in records

BasesKept ==
  /\ module.known \subseteq records
  /\ \A u \in module.known : Elems(Edges(u)) = Elems(module.bases[u])

Shape == MixinTypeOK /\ Downward /\ Untouched /\ BasesKept

LEMMA LastFacts ==
  /\ RecordCount \in Nat /\ RecordCount >= 1
  /\ \A u \in Names : u \in Nat /\ u >= 1 /\ u <= 2 * RecordCount
  /\ \A u \in Usr : u \in Names /\ Impl(u) \in Names /\ Impl(u) \notin Usr /\ Impl(u) - RecordCount = u /\ u - RecordCount \notin Usr
BY MixinAssumption DEF Impl

LEMMA ModuleFacts ==
  ASSUME module \in Modules
  PROVE  /\ module.known \subseteq Usr /\ module.known \subseteq Names
         /\ module.bases \in [Usr -> Seq(Usr)]
         /\ \A u \in Usr : \A k \in DOMAIN module.bases[u] : module.bases[u][k] < u
<1>1. IsModule(module)
  BY MixinAssumption
<1> QED BY <1>1, LastFacts DEF IsModule

LEMMA ShapeInit == MixinInit => Shape
<1> SUFFICES ASSUME MixinInit
             PROVE  Shape
  OBVIOUS
<1> USE DEF MixinInit
<1>1. /\ module \in Modules /\ records = module.known
      /\ module.known \subseteq Usr /\ module.known \subseteq Names
      /\ \A u \in Usr : module.bases[u] \in Seq(Usr)
      /\ \A u \in Usr : \A k \in DOMAIN module.bases[u] : module.bases[u][k] < u
  BY ModuleFacts
<1>2. \A u \in Names : /\ baseClass[u] = IF u \in records /\ Len(module.bases[u]) = 1 THEN module.bases[u][1] ELSE None
                       /\ mixins[u] = IF u \in records /\ Len(module.bases[u]) # 1 THEN module.bases[u] ELSE <<>>
  OBVIOUS
<1>3. ASSUME NEW u \in records
      PROVE  /\ u \in Usr /\ module.bases[u] \in Seq(Usr)
             /\ Len(module.bases[u]) = 1 => module.bases[u][1] \in Usr /\ module.bases[u][1] < u
  <2>1. u \in Usr /\ module.bases[u] \in Seq(Usr)
    BY <1>1
  <2>2. CASE Len(module.bases[u]) = 1
    <3>1. module.bases[u][1] \in Usr /\ DOMAIN module.bases[u] = 1 .. 1
      BY <2>1, <2>2, ElemsFacts
    <3>2. 1 \in DOMAIN module.bases[u]
      BY <3>1
    <3> QED BY <2>1, <3>1, <3>2, <1>1
  <2> QED BY <2>1, <2>2
<1>4. ASSUME NEW u \in Names
      PROVE  /\ baseClass[u] \in Usr \cup {None} /\ baseClass[u] < u
             /\ mixins[u] \in Seq(Usr) /\ \A k \in DOMAIN mixins[u] : mixins[u][k] < u
  <2>0. u > 0
    BY LastFacts
  <2>1. CASE u \notin records
    <3>1. baseClass[u] = 0 /\ mixins[u] = <<>>
      BY <2>1, <1>2
    <3>2. mixins[u] \in Seq(Usr) /\ \A k \in DOMAIN mixins[u] : FALSE
      BY <3>1, NoElems
    <3> QED BY <3>1, <3>2, <2>0
  <2>2. CASE u \in records /\ Len(module.bases[u]) = 1
    <3>1. baseClass[u] = module.bases[u][1] /\ mixins[u] = <<>>
      BY <2>2, <1>2
    <3>2. mixins[u] \in Seq(Usr) /\ \A k \in DOMAIN mixins[u] : FALSE
      BY <3>1, NoElems
    <3> QED BY <3>1, <3>2, <2>2, <1>3
  <2>3. CASE u \in records /\ Len(module.bases[u]) # 1
    <3>1. baseClass[u] = 0 /\ mixins[u] = module.bases[u]
      BY <2>3, <1>2
    <3>2. \A k \in DOMAIN module.bases[u] : module.bases[u][k] < u
      BY <2>3, <1>1, <1>3
    <3> QED BY <3>1, <3>2, <2>3, <2>0, <1>3
  <2> QED BY <2>1, <2>2, <2>3
<1>5. Downward
  BY <1>4 DEF Downward
<1>6. Seeds \subseteq Usr
  <2>1. ASSUME NEW u \in records
        PROVE  Elems(mixins[u]) \subseteq Usr
    <3>1. u \in Names
      BY <1>1
    <3>2. mixins[u] \in Seq(Usr)
      BY <3>1, <1>4
    <3> HIDE DEF MixinInit
    <3> QED BY <3>2, ElemsFacts
  <2> QED BY <2>1 DEF Seeds
<1>7. MixinTypeOK
  <2>1. baseClass \in [Names -> Usr \cup {None}] /\ mixins \in [Names -> Seq(Usr)]
    BY <1>4
  <2>2. next \in 1 .. 2 * RecordCount + 1
    BY LastFacts
  <2> QED BY <1>1, <1>6, <2>1, <2>2 DEF MixinTypeOK
<1>8. Untouched
  <2>1. \A u \in Names \ Usr : u \notin records
    BY <1>1
  <2> QED BY <1>2, <2>1 DEF Untouched, Deciding
<1>9. ASSUME NEW u \in records
      PROVE  Elems(Edges(u)) = Elems(module.bases[u])
  <2>1. Elems(Edges(u)) = ({baseClass[u]} \ {None}) \cup Elems(mixins[u])
    BY <1>1, <1>5, <1>7, EdgesFacts
  <2>2. CASE Len(module.bases[u]) = 1
    <3>1. baseClass[u] = module.bases[u][1] /\ mixins[u] = <<>> /\ baseClass[u] # None
      <4>1. module.bases[u][1] \in Usr /\ u \in Names
        BY <2>2, <1>1, <1>3
      <4> QED BY <4>1, <2>2, <1>2
    <3>2. Elems(module.bases[u]) = {module.bases[u][1]}
      BY <2>2, <1>3, ElemsFacts
    <3>3. Elems(mixins[u]) = {}
      BY <3>1, NoElems
    <3> QED BY <2>1, <3>1, <3>2, <3>3
  <2>3. CASE Len(module.bases[u]) # 1
    <3>1. baseClass[u] = None /\ mixins[u] = module.bases[u]
      BY <2>3, <1>1, <1>2
    <3> QED BY <2>1, <3>1
  <2> QED BY <2>2, <2>3
<1> QED BY <1>1, <1>5, <1>7, <1>8, <1>9 DEF Shape, BasesKept

-----------------------------------------------------------------------------
(* The step that rewrites the records. *)

\* Migrating a base changes where it is kept and nothing else.
LEMMA MigratedFacts ==
  ASSUME Shape, NEW u \in Names
  PROVE  /\ Migrated(u) \in Seq(Usr)
         /\ \A b \in Elems(Migrated(u)) : b < u
         /\ Elems(Migrated(u)) = Elems(mixins[u]) \cup ({baseClass[u]} \cap decided)
<1>1. mixins[u] \in Seq(Usr) /\ baseClass[u] \in Usr \cup {None} /\ decided \subseteq Usr
  BY DEF Shape, MixinTypeOK
<1>2. baseClass[u] < u /\ \A b \in Elems(mixins[u]) : b < u
  BY DEF Shape, Downward, Elems
<1>3. CASE baseClass[u] \in decided
  <2> DEFINE b == baseClass[u]
             s == mixins[u]
  <2>1. b \in Usr /\ s \in Seq(Usr)
    BY <1>1, <1>3
  <2>2. <<b>> \o s \in Seq(Usr) /\ Elems(<<b>> \o s) = {b} \cup Elems(s)
    <3> HIDE DEF b, s
    <3> QED BY <2>1, Prepended
  <2>3. Migrated(u) = <<b>> \o s
    BY <1>3 DEF Migrated
  <2> QED BY <2>2, <2>3, <1>2, <1>3
<1>4. CASE baseClass[u] \notin decided
  <2>1. Migrated(u) = mixins[u]
    BY <1>4 DEF Migrated
  <2> QED BY <2>1, <1>1, <1>2, <1>4
<1> QED BY <1>3, <1>4

LEMMA Rewritten ==
  ASSUME Shape, ApplyForms
  PROVE  /\ MixinTypeOK' /\ Downward' /\ Untouched'
         /\ \A u \in Names : baseClass'[u] \notin decided
         /\ \A u \in Usr : Elems(Edges(u))' = Elems(Edges(u))
         /\ \A u \in records : Elems(mixins[u]) \subseteq Elems(mixins'[u])
         /\ Seeds \subseteq decided => Seeds' \subseteq decided
<1> DEFINE built == decided \cap module.known \cap module.constructed
<1>1. /\ phase = "merge" /\ records = module.known /\ next = 1 /\ path = <<>>
      /\ \A u \in Names \ Usr : baseClass[u] = None /\ mixins[u] = <<>>
  BY DEF Shape, Untouched, ApplyForms
<1>2. records \subseteq Usr /\ built \subseteq records /\ built \subseteq decided /\ decided \subseteq Usr /\ None \notin decided
  BY <1>1, ModuleFacts DEF Shape, MixinTypeOK
<1>3. records' = records \cup {Impl(u) : u \in built} /\ records' \subseteq Names
  <2>1. records' = records \cup {Impl(u) : u \in built}
    BY DEF ApplyForms
  <2> QED BY <2>1, <1>2, LastFacts
<1>4. ASSUME NEW u \in Names
      PROVE  /\ baseClass'[u] = IF baseClass[u] \in decided THEN None ELSE baseClass[u]
             /\ mixins'[u] = IF u - RecordCount \in built THEN <<u - RecordCount>> ELSE Migrated(u)
  BY DEF ApplyForms
<1> HIDE DEF built
<1>5. ASSUME NEW u \in Names, u - RecordCount \in built
      PROVE  /\ u \notin Usr /\ baseClass'[u] = None /\ mixins'[u] = <<u - RecordCount>> /\ mixins'[u] \in Seq(Usr)
             /\ Elems(mixins'[u]) = {u - RecordCount} /\ u - RecordCount < u /\ u - RecordCount \in decided
  <2>1. u - RecordCount \in Usr /\ u \notin Usr /\ u - RecordCount < u
    <3>1. u - RecordCount \in Usr
      BY <1>2, <1>5
    <3> QED BY <3>1, LastFacts
  <2>2. <<u - RecordCount>> \in Seq(Usr) /\ Elems(<<u - RecordCount>>) = {u - RecordCount}
    BY <2>1 DEF Elems
  <2> QED BY <2>1, <2>2, <1>1, <1>2, <1>4, <1>5
<1>6. ASSUME NEW u \in Names, u - RecordCount \notin built
      PROVE  mixins'[u] = Migrated(u)
  BY <1>4, <1>6
<1>7. ASSUME NEW u \in Names
      PROVE  mixins'[u] \in Seq(Usr) /\ \A b \in Elems(mixins'[u]) : b < u
  <2>1. CASE u - RecordCount \in built
    <3>1. mixins'[u] \in Seq(Usr) /\ Elems(mixins'[u]) = {u - RecordCount} /\ u - RecordCount < u
      BY <2>1, <1>5
    <3> QED BY <3>1
  <2>2. CASE u - RecordCount \notin built
    <3>1. mixins'[u] = Migrated(u)
      BY <2>2, <1>6
    <3>2. Migrated(u) \in Seq(Usr) /\ \A b \in Elems(Migrated(u)) : b < u
      BY MigratedFacts
    <3> QED BY <3>1, <3>2
  <2> QED BY <2>1, <2>2
<1>8. ASSUME NEW u \in Names
      PROVE  baseClass'[u] \in Usr \cup {None} /\ baseClass'[u] < u /\ baseClass'[u] \notin decided
  <2>1. baseClass[u] \in Usr \cup {None}
    BY DEF Shape, MixinTypeOK
  <2>2. baseClass[u] < u /\ u > 0
    BY LastFacts DEF Shape, Downward
  <2> QED BY <2>1, <2>2, <1>2, <1>4
<1>9. Downward'
  <2>1. ASSUME NEW u \in Names, NEW k \in DOMAIN mixins'[u]
        PROVE  mixins'[u][k] < u
    BY <1>7 DEF Elems
  <2> QED BY <1>8, <2>1 DEF Downward
<1>10. ASSUME NEW u \in records
       PROVE  /\ u \in Usr /\ u \in Names /\ u - RecordCount \notin built
              /\ Elems(mixins'[u]) = Elems(mixins[u]) \cup ({baseClass[u]} \cap decided)
  <2>1. u \in Usr /\ u \in Names /\ u - RecordCount \notin built
    BY <1>2, LastFacts
  <2> QED BY <2>1, <1>6, MigratedFacts
<1>11. Seeds' \subseteq Usr
  <2>1. ASSUME NEW u \in records'
        PROVE  Elems(mixins'[u]) \subseteq Usr
    BY <1>3, <1>7, ElemsFacts
  <2> QED BY <2>1 DEF Seeds
<1>12. MixinTypeOK'
  <2>1. baseClass' \in [Names -> Usr \cup {None}]
    <3>1. baseClass' = [u \in Names |-> IF baseClass[u] \in decided THEN None ELSE baseClass[u]]
      BY DEF ApplyForms
    <3> QED BY <3>1, <1>8
  <2>2. mixins' \in [Names -> Seq(Usr)]
    <3>1. mixins' = [u \in Names |-> IF u - RecordCount \in built THEN <<u - RecordCount>> ELSE Migrated(u)]
      BY DEF ApplyForms, built
    <3> QED BY <3>1, <1>7
  <2>3. agenda' = Seeds' /\ decided' = {} /\ merged' = decided /\ phase' = "emit" /\ UNCHANGED <<module, walk>>
    BY DEF ApplyForms
  <2> QED BY <2>1, <2>2, <2>3, <1>3, <1>11 DEF Shape, MixinTypeOK, walk
<1>13. Untouched'
  BY <1>1 DEF ApplyForms, Untouched, walk
<1>14. ASSUME NEW u \in Usr
       PROVE  Elems(Edges(u))' = Elems(Edges(u))
  <2>1. u \in records' <=> u \in records
    BY <1>3, LastFacts, <1>2
  <2>2. CASE u \in records
    <3>1. Elems(Edges(u)) = ({baseClass[u]} \ {None}) \cup Elems(mixins[u])
      BY <2>2, <1>10, EdgesFacts DEF Shape
    <3>2. Elems(Edges(u))' = ({baseClass'[u]} \ {None}) \cup Elems(mixins'[u])
      <4>1. Edges(u)' = Chained(baseClass'[u], mixins'[u])
        BY <2>1, <2>2 DEF Edges, Chained
      <4>2. None \notin Usr /\ baseClass'[u] \in Usr \cup {None} /\ mixins'[u] \in Seq(Usr)
        BY <2>2, <1>7, <1>8, <1>10
      <4>3. Elems(Edges(u)') = ({baseClass'[u]} \ {None}) \cup Elems(mixins'[u])
        <5> HIDE DEF Usr, None
        <5> QED BY <4>1, <4>2, ChainedFacts
      <4> QED BY <4>3 DEF Elems
    <3> QED BY <3>1, <3>2, <2>2, <1>2, <1>4, <1>10
  <2>3. CASE u \notin records
    <3>1. Edges(u) = <<>> /\ Edges(u)' = <<>>
      BY <2>1, <2>3 DEF Edges
    <3> QED BY <3>1 DEF Elems
  <2> QED BY <2>2, <2>3
<1>15. ASSUME Seeds \subseteq decided
       PROVE  Seeds' \subseteq decided
  <2>1. ASSUME NEW u \in records
        PROVE  Elems(mixins'[u]) \subseteq decided
    <3>1. Elems(mixins[u]) \subseteq Seeds
      BY DEF Seeds
    <3> QED BY <3>1, <1>10, <1>15
  <2>2. ASSUME NEW u \in built
        PROVE  Elems(mixins'[Impl(u)]) \subseteq decided
    <3>1. Impl(u) \in Names /\ Impl(u) - RecordCount = u
      BY <1>2, LastFacts
    <3> QED BY <3>1, <1>5
  <2>3. \A u \in records' : Elems(mixins'[u]) \subseteq decided
    BY <2>1, <2>2, <1>3
  <2> QED BY <2>3 DEF Seeds
<1> QED BY <1>8, <1>9, <1>10, <1>12, <1>13, <1>14, <1>15

-----------------------------------------------------------------------------
LEMMA ShapeStep == Shape /\ [MixinNext]_mixinVars => Shape'
<1> SUFFICES ASSUME Shape, [MixinNext]_mixinVars
             PROVE  Shape'
  OBVIOUS
<1>0. MixinTypeOK /\ Downward /\ Untouched /\ BasesKept
  BY DEF Shape
<1>1. CASE ApplyForms
  <2>1. MixinTypeOK' /\ Downward' /\ Untouched' /\ \A u \in Usr : Elems(Edges(u))' = Elems(Edges(u))
    BY <1>1, Rewritten
  <2>2. module' = module /\ records \subseteq records' /\ module.known \subseteq Usr
    BY <1>1, <1>0, ModuleFacts DEF ApplyForms, MixinTypeOK
  <2>3. \A u \in module.known : Elems(Edges(u))' = Elems(module'.bases[u])
    BY <2>1, <2>2, <1>0 DEF BasesKept
  <2>4. BasesKept'
    BY <2>2, <2>3, <1>0 DEF BasesKept, Elems
  <2> QED BY <2>1, <2>4 DEF Shape
<1>2. ASSUME UNCHANGED <<module, phase, records, baseClass, mixins, merged>>, MixinTypeOK', Untouched'
      PROVE  Shape'
  <2>1. Downward'
    BY <1>0, <1>2 DEF Downward
  <2>2. \A u : Edges(u)' = Edges(u)
    BY <1>2 DEF Edges, Chained
  <2>3. BasesKept'
    BY <1>0, <1>2, <2>2 DEF BasesKept, Elems
  <2> QED BY <1>2, <2>1, <2>3 DEF Shape
<1>3. CASE Decide
  <2>1. PICK u \in agenda : /\ decided' = decided \cup {u}
                            /\ agenda' = (agenda \ {u}) \cup (IF u \in decided THEN {} ELSE Elems(Edges(u)))
                            /\ UNCHANGED <<module, phase, records, baseClass, mixins, merged, walk>>
    BY <1>3 DEF Decide
  <2>2. u \in Usr /\ u \in Names /\ Elems(Edges(u)) \subseteq Usr
    <3>1. u \in Usr /\ u \in Names
      BY <1>0, LastFacts DEF MixinTypeOK
    <3> QED BY <3>1, <1>0, EdgesFacts
  <2>3. MixinTypeOK'
    BY <2>1, <2>2, <1>0 DEF MixinTypeOK, walk
  <2>4. Untouched'
    <3>1. next = 1 /\ path = <<>> /\ agenda # {}
      BY <2>1, <1>0 DEF Untouched, Deciding, MixinTypeOK
    <3> QED BY <3>1, <2>1, <1>0 DEF Untouched, walk
  <2> QED BY <2>1, <2>3, <2>4, <1>2
<1>4. CASE ExpandRecord
  <2>1. MixinTypeOK'
    BY <1>4, <1>0 DEF ExpandRecord, MixinTypeOK, Decisions
  <2>2. Untouched'
    BY <1>4, <1>0 DEF ExpandRecord, Untouched, Deciding, Decisions
  <2> QED BY <1>4, <2>1, <2>2, <1>2 DEF ExpandRecord, Decisions
<1>5. CASE NoRecord
  <2>1. MixinTypeOK'
    <3>1. next' \in 1 .. 2 * RecordCount + 1
      BY <1>5, LastFacts DEF NoRecord
    <3> QED BY <3>1, <1>5, <1>0 DEF NoRecord, MixinTypeOK, Decisions
  <2>2. Untouched'
    BY <1>5, <1>0 DEF NoRecord, Untouched, Deciding, Decisions
  <2> QED BY <1>5, <2>1, <2>2, <1>2 DEF NoRecord, Decisions
<1>6. ASSUME path # <<>>
      PROVE  /\ ~Deciding /\ Len(path) \in Nat \ {0} /\ Top \in Names
             /\ Walked(Top) \in Seq(Usr) /\ \A b \in Elems(Walked(Top)) : b < Top
  <2>1. ~Deciding
    BY <1>6, <1>0 DEF Untouched
  <2>2. Len(path) \in Nat \ {0} /\ Top \in Names
    <3>1. path \in Seq(Names)
      BY <1>0 DEF MixinTypeOK
    <3> HIDE DEF Names
    <3> QED BY <3>1, <1>6, LastOf DEF Top
  <2>3. mixins[Top] \in Seq(Usr)
    BY <2>2, <1>0 DEF MixinTypeOK
  <2>4. \A b \in Elems(mixins[Top]) : b < Top
    BY <2>2, <1>0 DEF Downward, Elems
  <2>5. Edges(Top) \in Seq(Usr) /\ \A b \in Elems(Edges(Top)) : b < Top
    BY <2>2, <1>0, EdgesFacts
  <2> QED BY <2>1, <2>2, <2>3, <2>4, <2>5 DEF Walked
<1>7. CASE VisitBase
  <2>1. MixinTypeOK'
    <3>1. Top \in Names /\ Walked(Top) \in Seq(Usr) /\ taken \in [Names -> Nat]
      BY <1>7, <1>6, <1>0 DEF VisitBase, MixinTypeOK
    <3> DEFINE base == Walked(Top)[taken[Top] + 1]
    <3>2. base \in Usr /\ base \in Names
      <4>1. taken[Top] + 1 \in DOMAIN Walked(Top)
        BY <3>1, <1>7 DEF VisitBase
      <4>2. base \in Usr
        <5> DEFINE w == Walked(Top)
                   k == taken[Top] + 1
        <5>1. w \in Seq(Usr) /\ k \in DOMAIN w
          BY <4>1, <3>1
        <5> HIDE DEF w, k, Usr
        <5>2. w[k] \in Usr
          BY <5>1, ElemsFacts
        <5> QED BY <5>2 DEF w, k
      <4> QED BY <4>2, LastFacts
    <3>3. /\ taken' \in [Names -> Nat]
          /\ seen' \subseteq seen \cup {base}
          /\ path' = path \/ path' = Append(path, base)
      BY <3>1, <3>2, <1>7 DEF VisitBase
    <3>4. path' \in Seq(Names)
      <4>1. path \in Seq(Names)
        BY <1>0 DEF MixinTypeOK
      <4> HIDE DEF Names, base
      <4> QED BY <3>2, <3>3, <4>1, Pushed
    <3> QED BY <3>2, <3>3, <3>4, <1>7, <1>0 DEF VisitBase, MixinTypeOK, Decisions
  <2>2. Untouched'
    <3>1. path' # <<>> /\ path'[1] = path[1] /\ path # <<>>
      <4>1. path \in Seq(Names) /\ path # <<>>
        BY <1>7, <1>0 DEF VisitBase, MixinTypeOK
      <4>2. path' = path \/ path' = Append(path, Walked(Top)[taken[Top] + 1])
        BY <1>7 DEF VisitBase
      <4> QED BY <4>1, <4>2
    <3> QED BY <3>1, <1>6, <1>7, <1>0 DEF VisitBase, Untouched, Deciding, Decisions
  <2> QED BY <1>7, <2>1, <2>2, <1>2 DEF VisitBase, Decisions
<1>8. CASE PushBase
  <2>1. path \in Seq(Names) /\ Len(path) \in Nat /\ Len(path) > 1 /\ path # <<>>
    BY <1>8, <1>0 DEF PushBase, MixinTypeOK
  <2>2. path' \in Seq(Names) /\ path' # <<>> /\ path'[1] = path[1]
    <3>1. path' = Shorter(path)
      BY <1>8 DEF PushBase, Shorter
    <3> HIDE DEF Names
    <3> QED BY <2>1, <3>1, Popped
  <2>3. MixinTypeOK'
    <3>1. chain' \in Seq(Names)
      BY <2>1, <1>6, <1>8, <1>0 DEF PushBase, MixinTypeOK
    <3> QED BY <2>2, <3>1, <1>8, <1>0 DEF PushBase, MixinTypeOK, Decisions
  <2>4. Untouched'
    BY <2>1, <2>2, <1>6, <1>8, <1>0 DEF PushBase, Untouched, Deciding, Decisions
  <2> QED BY <1>8, <2>3, <2>4, <1>2 DEF PushBase, Decisions
<1>9. CASE RecordExpanded
  <2>1. path # <<>>
    <3>1. Len(path) = 1
      BY <1>9 DEF RecordExpanded
    <3> QED BY <3>1
  <2>2. next \in Names /\ ~Deciding
    BY <2>1, <1>6, <1>0 DEF Untouched, MixinTypeOK
  <2>3. MixinTypeOK'
    <3>1. next' \in 1 .. 2 * RecordCount + 1 /\ path' \in Seq(Names)
      BY <2>2, <1>9, LastFacts DEF RecordExpanded
    <3>2. chains' \in [Names -> Seq(Names)]
      BY <1>9, <1>0 DEF RecordExpanded, MixinTypeOK
    <3> QED BY <3>1, <3>2, <1>9, <1>0 DEF RecordExpanded, MixinTypeOK, Decisions
  <2>4. Untouched'
    BY <2>2, <1>9, <1>0 DEF RecordExpanded, Untouched, Deciding, Decisions
  <2> QED BY <1>9, <2>3, <2>4, <1>2 DEF RecordExpanded, Decisions
<1>10. CASE UNCHANGED mixinVars
  <2>1. MixinTypeOK' /\ Untouched'
    BY <1>10, <1>0 DEF mixinVars, MixinTypeOK, Untouched, Deciding
  <2> QED BY <1>10, <2>1, <1>2 DEF mixinVars
<1> QED BY <1>1, <1>3, <1>4, <1>5, <1>7, <1>8, <1>9, <1>10 DEF MixinNext

-----------------------------------------------------------------------------
(* The decision: the least closed set that holds the seeds. *)
Closed(set) == \A u \in set : Elems(Edges(u)) \subseteq set
Holds(set) == Seeds \subseteq set /\ Closed(set)

Reached ==
  /\ Seeds \subseteq decided \cup agenda
  /\ \A u \in decided : Elems(Edges(u)) \subseteq decided \cup agenda
  /\ phase = "merge" => \A set \in SUBSET Usr : Holds(set) => decided \cup agenda \subseteq set
Agreed ==
  phase = "emit" =>
    /\ decided \cup agenda \subseteq merged
    /\ Closed(merged)
    /\ \A set \in SUBSET Usr : Holds(set) => merged \subseteq set
    /\ \A u \in Names : baseClass[u] \notin merged

Decision == Shape /\ Reached /\ Agreed

LEMMA DecisionInit == MixinInit => Decision
<1> SUFFICES ASSUME MixinInit
             PROVE  Decision
  OBVIOUS
<1>1. Shape
  BY ShapeInit
<1>2. agenda = Seeds /\ decided = {} /\ phase = "merge"
  BY DEF MixinInit
<1> QED BY <1>1, <1>2 DEF Decision, Reached, Agreed, Holds

LEMMA DecideStep == Decision /\ Decide => Reached' /\ Agreed'
<1> SUFFICES ASSUME Decision, Decide
             PROVE  Reached' /\ Agreed'
  OBVIOUS
<1>0. Shape /\ MixinTypeOK /\ Reached /\ Agreed
  BY DEF Decision, Shape
<1>1. PICK u \in agenda : /\ decided' = decided \cup {u}
                          /\ agenda' = (agenda \ {u}) \cup (IF u \in decided THEN {} ELSE Elems(Edges(u)))
                          /\ UNCHANGED <<module, phase, records, baseClass, mixins, merged, walk>>
  BY DEF Decide
<1>2. Seeds' = Seeds /\ \A v : Elems(Edges(v))' = Elems(Edges(v))
  BY <1>1 DEF Seeds, Elems, Edges, Chained
<1>3. decided' \cup agenda' = decided \cup agenda \cup (IF u \in decided THEN {} ELSE Elems(Edges(u)))
  BY <1>1
<1>4. decided \cup agenda \subseteq decided' \cup agenda'
  BY <1>3
<1>5. ASSUME NEW v \in decided'
      PROVE  Elems(Edges(v)) \subseteq decided' \cup agenda'
  <2>1. CASE v \in decided
    BY <2>1, <1>0, <1>4 DEF Reached
  <2>2. CASE v = u /\ u \notin decided
    BY <2>2, <1>3
  <2> QED BY <2>1, <2>2, <1>1
<1>6. ASSUME NEW set, Closed(set), decided \cup agenda \subseteq set
      PROVE  decided' \cup agenda' \subseteq set
  <2>1. Elems(Edges(u)) \subseteq set
    BY <1>6 DEF Closed
  <2> QED BY <2>1, <1>3, <1>6
<1>7. ASSUME NEW set
      PROVE  (Closed(set)' <=> Closed(set)) /\ (Holds(set)' <=> Holds(set))
  BY <1>2 DEF Closed, Holds
<1>8. Reached'
  <2>1. Seeds' \subseteq decided' \cup agenda'
    BY <1>0, <1>2, <1>4 DEF Reached
  <2>2. ASSUME phase = "merge", NEW set \in SUBSET Usr, Holds(set)
        PROVE  decided' \cup agenda' \subseteq set
    BY <2>2, <1>0, <1>6 DEF Reached, Holds
  <2> QED BY <2>1, <2>2, <1>1, <1>2, <1>5, <1>7 DEF Reached
<1>9. Agreed'
  <2>1. CASE phase = "emit"
    <3>1. decided' \cup agenda' \subseteq merged
      BY <2>1, <1>0, <1>6 DEF Agreed
    <3> QED BY <2>1, <3>1, <1>0, <1>1, <1>7 DEF Agreed
  <2>2. CASE phase # "emit"
    BY <2>2, <1>1 DEF Agreed
  <2> QED BY <2>1, <2>2
<1> QED BY <1>8, <1>9

LEMMA ApplyStep == Decision /\ ApplyForms => Reached' /\ Agreed'
<1> SUFFICES ASSUME Decision, ApplyForms
             PROVE  Reached' /\ Agreed'
  OBVIOUS
<1>0. Shape /\ MixinTypeOK /\ Reached
  BY DEF Decision, Shape
<1>1. phase = "merge" /\ agenda = {} /\ phase' = "emit" /\ decided' = {} /\ agenda' = Seeds' /\ merged' = decided
  BY DEF ApplyForms
<1>2. decided \subseteq Usr
  BY <1>0 DEF MixinTypeOK
<1>3. Seeds \subseteq decided /\ \A u \in decided : Elems(Edges(u)) \subseteq decided
  BY <1>0, <1>1 DEF Reached
<1>4. /\ \A u \in Names : baseClass'[u] \notin decided
      /\ \A u \in Usr : Elems(Edges(u))' = Elems(Edges(u))
      /\ \A u \in records : Elems(mixins[u]) \subseteq Elems(mixins'[u])
      /\ Seeds' \subseteq decided
  BY <1>0, <1>3, Rewritten
<1>5. records \subseteq records'
  BY DEF ApplyForms
<1>6. Seeds \subseteq Seeds'
  BY <1>4, <1>5 DEF Seeds, Elems
<1>7. \A u \in decided : Elems(Edges(u))' \subseteq decided
  BY <1>2, <1>3, <1>4
<1>8. ASSUME NEW set \in SUBSET Usr, Holds(set)'
      PROVE  decided \subseteq set
  <2>1. Seeds \subseteq set
    BY <1>6, <1>8 DEF Holds
  <2>2. Closed(set)
    BY <1>4, <1>8 DEF Holds, Closed
  <2> QED BY <2>1, <2>2, <1>0, <1>1 DEF Reached, Holds
<1>9. Reached'
  BY <1>1 DEF Reached
<1>10. Agreed'
  <2>1. decided' \cup agenda' \subseteq decided
    BY <1>1, <1>4
  <2>2. Closed(merged)'
    BY <1>1, <1>7 DEF Closed
  <2> QED BY <1>1, <1>4, <1>8, <2>1, <2>2 DEF Agreed
<1> QED BY <1>9, <1>10

LEMMA DecisionStep == Decision /\ [MixinNext]_mixinVars => Decision'
<1> SUFFICES ASSUME Decision, [MixinNext]_mixinVars
             PROVE  Decision'
  OBVIOUS
<1>1. Shape'
  BY ShapeStep DEF Decision
<1>2. CASE Decide
  BY <1>1, <1>2, DecideStep DEF Decision
<1>3. CASE ApplyForms
  BY <1>1, <1>3, ApplyStep DEF Decision
<1>4. ASSUME UNCHANGED Decisions
      PROVE  Decision'
  <2>1. Seeds' = Seeds /\ \A v : Elems(Edges(v))' = Elems(Edges(v))
    BY <1>4 DEF Seeds, Elems, Edges, Chained, Decisions
  <2>2. ASSUME NEW set
        PROVE  (Closed(set)' <=> Closed(set)) /\ (Holds(set)' <=> Holds(set))
    BY <2>1 DEF Closed, Holds
  <2>3. Reached'
    BY <1>4, <2>1, <2>2 DEF Decision, Reached, Decisions
  <2>4. Agreed'
    BY <1>4, <2>2 DEF Decision, Agreed, Decisions, Closed
  <2> QED BY <1>1, <2>3, <2>4 DEF Decision
<1>5. CASE UNCHANGED mixinVars
  BY <1>4, <1>5 DEF mixinVars, Decisions
<1>6. CASE ExpandRecord \/ NoRecord \/ VisitBase \/ PushBase \/ RecordExpanded
  BY <1>4, <1>6 DEF ExpandRecord, NoRecord, VisitBase, PushBase, RecordExpanded
<1> QED BY <1>2, <1>3, <1>5, <1>6 DEF MixinNext

(* Whenever nothing is left to decide, the answer holds the seeds, is      *)
(* closed under bases, and is what the records were rewritten by.          *)
LEMMA Settled ==
  ASSUME Decision, ~Deciding
  PROVE  decided = merged /\ Holds(decided) /\ \A u \in Names : baseClass[u] \notin decided
<1>1. phase = "emit" /\ agenda = {} /\ MixinTypeOK
  BY DEF Deciding, Decision, Shape, MixinTypeOK
<1>2. Holds(decided) /\ decided \subseteq Usr
  BY <1>1 DEF Decision, Reached, Holds, Closed, MixinTypeOK
<1> QED BY <1>1, <1>2 DEF Decision, Agreed

-----------------------------------------------------------------------------
(* The walk.  What it has seen is pushed already or still on the path; the *)
(* path descends, so no base of its top is on it, and once the top has     *)
(* been through its bases all of them are pushed.                          *)
Descending == \A i, j \in DOMAIN path : i < j => path[j] < path[i]
Bounded == \A i \in DOMAIN path : taken[path[i]] <= Len(Walked(path[i]))
Through == \A i \in DOMAIN path : \A k \in 1 .. taken[path[i]] : Walked(path[i])[k] \in seen
Accounted ==
  /\ \A i \in DOMAIN path : i > 1 => path[i] \in seen /\ path[i] \notin Elems(chain)
  /\ \A u \in seen : u \in Elems(chain) \/ \E i \in DOMAIN path : i > 1 /\ path[i] = u
  /\ Elems(chain) \subseteq seen /\ seen \subseteq decided

Walking ==
  path # <<>> => Descending /\ Bounded /\ Through /\ Accounted /\ InOrder(chain) /\ Once(chain)
Finished ==
  \A u \in Names : Expanded(u) =>
    /\ Elems(chains[u]) \subseteq decided /\ InOrder(chains[u]) /\ Once(chains[u])
    /\ Elems(mixins[u]) \subseteq Elems(chains[u])

MixinInv == Decision /\ Walking /\ Finished

LEMMA InvInit == MixinInit => MixinInv
<1> SUFFICES ASSUME MixinInit
             PROVE  MixinInv
  OBVIOUS
<1>1. Decision
  BY DecisionInit
<1>2. path = <<>> /\ next = 1
  BY DEF MixinInit
<1>3. \A u \in Names : ~Expanded(u)
  BY <1>2, LastFacts DEF Expanded
<1> QED BY <1>1, <1>2, <1>3 DEF MixinInv, Walking, Finished

LEMMA Appended ==
  ASSUME NEW S, NEW s \in Seq(S), NEW e \in S
  PROVE  Elems(Append(s, e)) = Elems(s) \cup {e}
<1>1. /\ Append(s, e) \in Seq(S) /\ Len(s) \in Nat /\ Len(Append(s, e)) = Len(s) + 1
      /\ \A k \in 1 .. Len(s) : Append(s, e)[k] = s[k]
      /\ Append(s, e)[Len(s) + 1] = e
  BY Pushed
<1>2. DOMAIN s = 1 .. Len(s) /\ DOMAIN Append(s, e) = 1 .. Len(s) + 1
  BY <1>1
<1>3. ASSUME NEW k \in DOMAIN Append(s, e)
      PROVE  Append(s, e)[k] \in Elems(s) \cup {e}
  <2>1. CASE k \in 1 .. Len(s)
    BY <2>1, <1>1, <1>2 DEF Elems
  <2>2. CASE k = Len(s) + 1
    BY <2>2, <1>1
  <2> QED BY <2>1, <2>2, <1>1, <1>2
<1>4. ASSUME NEW k \in DOMAIN s
      PROVE  s[k] \in Elems(Append(s, e))
  <2>1. k \in DOMAIN Append(s, e) /\ Append(s, e)[k] = s[k]
    BY <1>1, <1>2
  <2> QED BY <2>1 DEF Elems
<1>5. e \in Elems(Append(s, e))
  <2>1. Len(s) + 1 \in DOMAIN Append(s, e)
    BY <1>1, <1>2
  <2> QED BY <2>1, <1>1 DEF Elems
<1> QED BY <1>3, <1>4, <1>5 DEF Elems

LEMMA WalkFacts ==
  ASSUME MixinInv, path # <<>>
  PROVE  /\ ~Deciding /\ Holds(decided) /\ decided \subseteq Usr
         /\ path \in Seq(Names) /\ Len(path) \in Nat /\ Len(path) >= 1 /\ DOMAIN path = 1 .. Len(path)
         /\ path[1] = next /\ next \in Names /\ next \in records
         /\ \A i \in DOMAIN path : path[i] \in Names /\ path[i] \in Nat
         /\ Top \in Names /\ Len(path) \in DOMAIN path
         /\ taken \in [Names -> Nat] /\ chain \in Seq(Names)
         /\ \A u \in Names : /\ Walked(u) \in Seq(Usr)
                             /\ \A b \in Elems(Walked(u)) : b \in Usr /\ b \in Names /\ b < u
         /\ \A i \in DOMAIN path : i > 1 => path[i] # next /\ Walked(path[i]) = Edges(path[i])
         /\ Descending /\ Bounded /\ Through /\ Accounted /\ InOrder(chain) /\ Once(chain)
<1>1. Decision /\ MixinTypeOK /\ Downward /\ Untouched
  BY DEF MixinInv, Decision, Shape
<1>2. ~Deciding /\ path[1] = next /\ next \in records /\ next \in Names
  BY <1>1 DEF Untouched, MixinTypeOK
<1>3. Holds(decided) /\ decided \subseteq Usr
  BY <1>1, <1>2, Settled DEF MixinTypeOK
<1>4. path \in Seq(Names) /\ taken \in [Names -> Nat] /\ chain \in Seq(Names)
  BY <1>1 DEF MixinTypeOK
<1>5. Len(path) \in Nat /\ Len(path) >= 1 /\ DOMAIN path = 1 .. Len(path) /\ Len(path) \in DOMAIN path
  <2> HIDE DEF Names
  <2> QED BY <1>4, LastOf
<1>6. \A i \in DOMAIN path : path[i] \in Names
  <2> HIDE DEF Names
  <2> QED BY <1>4
<1>7. \A u \in Names : Walked(u) \in Seq(Usr) /\ \A b \in Elems(Walked(u)) : b \in Usr /\ b \in Names /\ b < u
  <2> SUFFICES ASSUME NEW u \in Names
               PROVE  Walked(u) \in Seq(Usr) /\ \A b \in Elems(Walked(u)) : b \in Usr /\ b \in Names /\ b < u
    OBVIOUS
  <2>1. mixins[u] \in Seq(Usr)
    BY <1>1 DEF MixinTypeOK
  <2>2. \A b \in Elems(mixins[u]) : b < u
    BY <1>1 DEF Downward, Elems
  <2>3. Elems(mixins[u]) \subseteq Usr
    BY <2>1, ElemsFacts
  <2>4. Edges(u) \in Seq(Usr) /\ \A b \in Elems(Edges(u)) : b \in Usr /\ b < u
    BY <1>1, EdgesFacts
  <2>5. Walked(u) = mixins[u] \/ Walked(u) = Edges(u)
    BY DEF Walked
  <2> QED BY <2>1, <2>2, <2>3, <2>4, <2>5, LastFacts
<1>8. Descending /\ Bounded /\ Through /\ Accounted /\ InOrder(chain) /\ Once(chain)
  BY DEF MixinInv, Walking
<1>9. \A i \in DOMAIN path : i > 1 => path[i] # next /\ Walked(path[i]) = Edges(path[i])
  <2> SUFFICES ASSUME NEW i \in DOMAIN path, i > 1
               PROVE  path[i] # next /\ Walked(path[i]) = Edges(path[i])
    OBVIOUS
  <2>1. path[i] < path[1]
    BY <1>5, <1>8 DEF Descending
  <2>2. path[i] # next
    BY <2>1, <1>2, <1>6
  <2> QED BY <2>2 DEF Walked
<1> QED BY <1>1, <1>2, <1>3, <1>4, <1>5, <1>6, <1>7, <1>8, <1>9, LastFacts DEF Top

\* The bases of a decided record, and those the walk starts from, are decided.
LEMMA WalkedDecided ==
  ASSUME MixinInv, path # <<>>, NEW i \in DOMAIN path
  PROVE  Elems(Walked(path[i])) \subseteq decided
<1>1. CASE path[i] = next
  <2>1. Walked(path[i]) = mixins[next] /\ next \in records /\ Seeds \subseteq decided
    BY <1>1, WalkFacts DEF Walked, Holds
  <2> QED BY <2>1 DEF Seeds
<1>2. CASE path[i] # next
  <2>1. i > 1 /\ Walked(path[i]) = Edges(path[i])
    BY <1>2, WalkFacts DEF Walked
  <2>2. path[i] \in decided
    BY <2>1, WalkFacts DEF Accounted
  <2> QED BY <2>1, <2>2, WalkFacts DEF Holds, Closed
<1> QED BY <1>1, <1>2

LEMMA Unmoved ==
  ASSUME UNCHANGED Decisions
  PROVE  /\ \A u : Edges(u)' = Edges(u)
         /\ \A list : InOrder(list)' = InOrder(list)
<1>1. \A u : Edges(u)' = Edges(u)
  BY DEF Edges, Chained, Decisions
<1> QED BY <1>1 DEF InOrder, Elems

LEMMA FinishedKept ==
  ASSUME MixinInv, UNCHANGED <<Decisions, next, chains>>
  PROVE  Finished'
<1>1. \A list : InOrder(list)' = InOrder(list)
  BY Unmoved
<1>2. \A u \in Names : Expanded(u)' = Expanded(u)
  BY DEF Expanded, Decisions
<1>3. decided' = decided /\ chains' = chains /\ mixins' = mixins /\ Names' = Names
  BY DEF Decisions
<1> QED BY <1>1, <1>2, <1>3 DEF MixinInv, Finished

LEMMA ExpandStep == MixinInv /\ ExpandRecord => Walking' /\ Finished'
<1> SUFFICES ASSUME MixinInv, ExpandRecord
             PROVE  Walking' /\ Finished'
  OBVIOUS
<1>1. /\ next \in records /\ path' = <<next>> /\ taken' = [taken EXCEPT ![next] = 0]
      /\ seen' = {} /\ chain' = <<>> /\ UNCHANGED <<Decisions, next, chains>>
  BY DEF ExpandRecord
<1>2. next \in Names /\ taken \in [Names -> Nat] /\ mixins[next] \in Seq(Usr)
  BY <1>1 DEF MixinInv, Decision, Shape, MixinTypeOK
<1>3. taken'[next] = 0 /\ Walked(next)' = mixins[next] /\ Len(mixins[next]) \in Nat
  BY <1>1, <1>2 DEF Walked, Decisions
<1>4. DOMAIN path' = {1} /\ path'[1] = next
  BY <1>1
<1>5. Descending' /\ Bounded' /\ Through'
  <2>1. \A i \in DOMAIN path' : taken'[path'[i]] = 0 /\ 0 <= Len(Walked(path[i]))'
    BY <1>3, <1>4
  <2> QED BY <1>3, <1>4, <2>1 DEF Descending, Bounded, Through, Walked
<1>6. Accounted' /\ InOrder(chain)' /\ Once(chain)'
  <2>1. Elems(chain') = {} /\ \A k \in DOMAIN chain' : FALSE
    BY <1>1, NoElems
  <2> QED BY <1>1, <1>4, <2>1 DEF Accounted, InOrder, Once
<1> QED BY <1>1, <1>5, <1>6, FinishedKept DEF Walking

LEMMA VisitStep == MixinInv /\ VisitBase => Walking' /\ Finished'
<1> SUFFICES ASSUME MixinInv, VisitBase
             PROVE  Walking' /\ Finished'
  OBVIOUS
<1> DEFINE base == Walked(Top)[taken[Top] + 1]
           on == [taken EXCEPT ![Top] = @ + 1]
<1>1. path # <<>> /\ taken[Top] < Len(Walked(Top)) /\ UNCHANGED <<Decisions, next, chain, chains>>
  BY DEF VisitBase
<1>2. /\ path \in Seq(Names) /\ Len(path) \in Nat /\ Len(path) >= 1 /\ DOMAIN path = 1 .. Len(path)
      /\ Top \in Names /\ Top \in Nat /\ taken \in [Names -> Nat] /\ Top = path[Len(path)]
      /\ \A i \in DOMAIN path : path[i] \in Names /\ path[i] \in Nat
      /\ Walked(Top) \in Seq(Usr)
      /\ \A b \in Elems(Walked(Top)) : b \in Usr /\ b \in Names /\ b < Top
      /\ Descending /\ Bounded /\ Through /\ Accounted /\ InOrder(chain) /\ Once(chain)
  BY <1>1, WalkFacts, LastFacts DEF Top
<1>3. taken[Top] \in Nat /\ taken[Top] + 1 \in DOMAIN Walked(Top)
  BY <1>1, <1>2
<1>4. base \in Elems(Walked(Top)) /\ base \in Usr /\ base \in Names /\ base < Top /\ base \in decided
  <2>1. base \in Elems(Walked(Top))
    BY <1>3 DEF Elems
  <2>2. Elems(Walked(Top)) \subseteq decided
    BY <1>1, <1>2, WalkedDecided
  <2> QED BY <2>1, <2>2, <1>2
<1>5. /\ \A u : Walked(u)' = Walked(u) /\ Edges(u)' = Edges(u)
      /\ InOrder(chain)' /\ Once(chain)' /\ decided' = decided
  <2>1. \A u : Edges(u)' = Edges(u)
    BY <1>1, Unmoved
  <2>2. \A u : Walked(u)' = Walked(u)
    BY <2>1, <1>1 DEF Walked, Decisions
  <2>3. InOrder(chain)'
    BY <1>1, <1>2, Unmoved
  <2> QED BY <1>1, <1>2, <2>1, <2>2, <2>3 DEF Once, Decisions
<1>6. on \in [Names -> Nat] /\ on[Top] = taken[Top] + 1 /\ \A u \in Names : u # Top => on[u] = taken[u]
  BY <1>2, <1>3
<1> HIDE DEF base, on
<1>7. CASE base \in seen
  <2>1. taken' = on /\ path' = path /\ seen' = seen
    BY <1>7 DEF VisitBase, base, on
  <2>2. Descending' /\ Accounted'
    BY <2>1, <1>1, <1>2, <1>5 DEF Descending, Accounted
  <2>3. ASSUME NEW i \in DOMAIN path
        PROVE  /\ on[path[i]] <= Len(Walked(path[i]))
               /\ \A k \in 1 .. on[path[i]] : Walked(path[i])[k] \in seen
    <3>1. CASE path[i] = Top
      <4>1. on[path[i]] <= Len(Walked(path[i]))
        BY <3>1, <1>1, <1>2, <1>3, <1>6
      <4>2. ASSUME NEW k \in 1 .. taken[Top] + 1
            PROVE  Walked(Top)[k] \in seen
        <5>1. CASE k = taken[Top] + 1
          BY <5>1, <1>7 DEF base
        <5>2. CASE k \in 1 .. taken[Top]
          BY <5>2, <3>1, <1>2 DEF Through
        <5> QED BY <5>1, <5>2, <1>3
      <4> QED BY <4>1, <4>2, <3>1, <1>6
    <3>2. CASE path[i] # Top
      <4>1. on[path[i]] = taken[path[i]]
        BY <3>2, <1>2, <1>6
      <4> QED BY <4>1, <1>2 DEF Bounded, Through
    <3> QED BY <3>1, <3>2
  <2>4. Bounded' /\ Through'
    BY <2>1, <2>3, <1>5 DEF Bounded, Through
  <2> QED BY <2>2, <2>4, <1>1, <1>5, FinishedKept DEF Walking
<1>8. CASE base \notin seen
  <2>1. taken' = [on EXCEPT ![base] = 0] /\ path' = Append(path, base) /\ seen' = seen \cup {base}
    BY <1>8 DEF VisitBase, base, on
  <2>2. /\ Len(path') = Len(path) + 1 /\ DOMAIN path' = 1 .. Len(path) + 1
        /\ \A i \in DOMAIN path : path'[i] = path[i]
        /\ path'[Len(path) + 1] = base
    <3>1. /\ Append(path, base) \in Seq(Names) /\ Len(Append(path, base)) = Len(path) + 1
          /\ \A i \in 1 .. Len(path) : Append(path, base)[i] = path[i]
          /\ Append(path, base)[Len(path) + 1] = base
      <4> HIDE DEF Names
      <4> QED BY <1>2, <1>4, Pushed
    <3> QED BY <2>1, <3>1, <1>2
  <2>3. \A i \in DOMAIN path : base < path[i]
    <3> SUFFICES ASSUME NEW i \in DOMAIN path
                 PROVE  base < path[i]
      OBVIOUS
    <3>1. path[i] = Top \/ Top < path[i]
      BY <1>2 DEF Descending
    <3>2. base \in Nat /\ path[i] \in Nat /\ Top \in Nat /\ base < Top
      BY <1>2, <1>4
    <3> QED BY <3>1, <3>2
  <2>4. \A i \in DOMAIN path' : (i \in DOMAIN path /\ path'[i] = path[i]) \/ (i = Len(path) + 1 /\ path'[i] = base)
    BY <2>2, <1>2
  <2>5. Descending'
    <3> SUFFICES ASSUME NEW i \in DOMAIN path', NEW j \in DOMAIN path', i < j
                 PROVE  path'[j] < path'[i]
      BY DEF Descending
    <3>1. i \in DOMAIN path /\ path'[i] = path[i]
      BY <2>2, <2>4, <1>2
    <3>2. CASE j \in DOMAIN path /\ path'[j] = path[j]
      BY <3>1, <3>2, <1>2 DEF Descending
    <3>3. CASE j = Len(path) + 1 /\ path'[j] = base
      BY <3>1, <3>3, <2>3
    <3> QED BY <3>2, <3>3, <2>4
  <2>6. taken'[base] = 0 /\ \A i \in DOMAIN path : taken'[path[i]] = on[path[i]]
    <3>1. \A i \in DOMAIN path : path[i] # base /\ path[i] \in Names
      BY <2>3, <1>2, <1>4, LastFacts
    <3> QED BY <2>1, <3>1, <1>4, <1>6
  <2>7. ASSUME NEW i \in DOMAIN path
        PROVE  /\ on[path[i]] <= Len(Walked(path[i]))
               /\ \A k \in 1 .. on[path[i]] : Walked(path[i])[k] \in seen'
    <3>1. CASE path[i] = Top
      <4>1. on[path[i]] <= Len(Walked(path[i]))
        BY <3>1, <1>1, <1>2, <1>3, <1>6
      <4>2. ASSUME NEW k \in 1 .. taken[Top] + 1
            PROVE  Walked(Top)[k] \in seen'
        <5>1. CASE k = taken[Top] + 1
          BY <5>1, <2>1 DEF base
        <5>2. CASE k \in 1 .. taken[Top]
          BY <5>2, <3>1, <2>1, <1>2 DEF Through
        <5> QED BY <5>1, <5>2, <1>3
      <4> QED BY <4>1, <4>2, <3>1, <1>6
    <3>2. CASE path[i] # Top
      <4>1. on[path[i]] = taken[path[i]]
        BY <3>2, <1>2, <1>6
      <4> QED BY <4>1, <2>1, <1>2 DEF Bounded, Through
    <3> QED BY <3>1, <3>2
  <2>8. Bounded' /\ Through'
    <3> SUFFICES ASSUME NEW i \in DOMAIN path'
                 PROVE  /\ taken'[path'[i]] <= Len(Walked(path'[i]))
                        /\ \A k \in 1 .. taken'[path'[i]] : Walked(path'[i])[k] \in seen'
      BY <1>5 DEF Bounded, Through
    <3>1. CASE i \in DOMAIN path /\ path'[i] = path[i]
      BY <3>1, <2>6, <2>7
    <3>2. CASE path'[i] = base
      <4>1. Len(Walked(base)) \in Nat
        BY <1>1, <1>4, WalkFacts
      <4> QED BY <3>2, <4>1, <2>6
    <3> QED BY <3>1, <3>2, <2>4
  <2>9. Accounted'
    <3>1. ASSUME NEW i \in DOMAIN path', i > 1
          PROVE  path'[i] \in seen' /\ path'[i] \notin Elems(chain)
      <4>1. CASE i \in DOMAIN path /\ path'[i] = path[i]
        BY <3>1, <4>1, <2>1, <1>2 DEF Accounted
      <4>2. CASE path'[i] = base
        BY <4>2, <2>1, <1>2, <1>8 DEF Accounted
      <4> QED BY <4>1, <4>2, <2>4
    <3>2. ASSUME NEW u \in seen'
          PROVE  u \in Elems(chain) \/ \E i \in DOMAIN path' : i > 1 /\ path'[i] = u
      <4>1. CASE u = base
        <5>1. Len(path) + 1 \in DOMAIN path' /\ Len(path) + 1 > 1
          BY <2>2, <1>2
        <5> QED BY <4>1, <5>1, <2>2
      <4>2. CASE u \in seen
        <5>1. DOMAIN path \subseteq DOMAIN path'
          BY <2>2, <1>2
        <5> QED BY <4>2, <5>1, <2>2, <1>2 DEF Accounted
      <4> QED BY <4>1, <4>2, <2>1
    <3>3. Elems(chain) \subseteq seen' /\ seen' \subseteq decided
      BY <2>1, <1>2, <1>4 DEF Accounted
    <3> QED BY <3>1, <3>2, <3>3, <1>1, <1>5 DEF Accounted
  <2> QED BY <2>5, <2>8, <2>9, <1>1, <1>5, FinishedKept DEF Walking
<1> QED BY <1>7, <1>8

LEMMA PushStep == MixinInv /\ PushBase => Walking' /\ Finished'
<1> SUFFICES ASSUME MixinInv, PushBase
             PROVE  Walking' /\ Finished'
  OBVIOUS
<1>1. /\ Len(path) > 1 /\ taken[Top] = Len(Walked(Top))
      /\ path' = Shorter(path) /\ chain' = Append(chain, Top)
      /\ UNCHANGED <<Decisions, next, taken, seen, chains>>
  BY DEF PushBase, Shorter
<1>2. path # <<>>
  <2>1. path \in Seq(Names)
    BY DEF MixinInv, Decision, Shape, MixinTypeOK
  <2> QED BY <2>1, <1>1
<1>3. /\ path \in Seq(Names) /\ Len(path) \in Nat /\ DOMAIN path = 1 .. Len(path)
      /\ Top \in Names /\ Top = path[Len(path)] /\ chain \in Seq(Names)
      /\ \A i \in DOMAIN path : path[i] \in Names /\ path[i] \in Nat
      /\ Walked(Top) \in Seq(Usr) /\ Walked(Top) = Edges(Top)
      /\ \A b \in Elems(Walked(Top)) : b \in Usr /\ b < Top
      /\ Descending /\ Bounded /\ Through /\ Accounted /\ InOrder(chain) /\ Once(chain)
  BY <1>1, <1>2, WalkFacts DEF Top
<1>4. /\ \A u : Walked(u)' = Walked(u) /\ Edges(u)' = Edges(u)
      /\ decided' = decided
  <2>1. \A u : Edges(u)' = Edges(u)
    BY <1>1, Unmoved
  <2> QED BY <2>1, <1>1 DEF Walked, Decisions
<1>5. /\ Len(path') = Len(path) - 1 /\ DOMAIN path' = 1 .. Len(path) - 1
      /\ \A i \in 1 .. Len(path) - 1 : path'[i] = path[i]
  <2>1. Shorter(path) \in Seq(Names) /\ Len(Shorter(path)) = Len(path) - 1
        /\ \A i \in 1 .. Len(path) - 1 : Shorter(path)[i] = path[i]
    <3> HIDE DEF Names
    <3> QED BY <1>1, <1>3, Popped
  <2> QED BY <2>1, <1>1
<1>6. \A i \in DOMAIN path' : i \in DOMAIN path /\ i < Len(path) /\ path'[i] = path[i] /\ Top < path[i]
  BY <1>1, <1>3, <1>5 DEF Descending
<1>7. Elems(chain') = Elems(chain) \cup {Top} /\ Top \notin Elems(chain) /\ Top \in seen
  <2>1. Elems(Append(chain, Top)) = Elems(chain) \cup {Top}
    <3> HIDE DEF Names
    <3> QED BY <1>3, Appended
  <2>2. Len(path) \in DOMAIN path
    BY <1>1, <1>3
  <2> QED BY <2>1, <2>2, <1>1, <1>3 DEF Accounted
<1>8. Descending' /\ Bounded' /\ Through'
  <2>1. Descending'
    BY <1>3, <1>6 DEF Descending
  <2>2. Bounded' /\ Through'
    BY <1>1, <1>3, <1>4, <1>6 DEF Bounded, Through
  <2> QED BY <2>1, <2>2
<1>9. Accounted'
  <2>1. ASSUME NEW i \in DOMAIN path', i > 1
        PROVE  path'[i] \in seen /\ path'[i] \notin Elems(chain')
    <3>1. path'[i] = path[i] /\ i \in DOMAIN path /\ path[i] # Top
      BY <1>3, <1>6
    <3> QED BY <2>1, <3>1, <1>3, <1>7 DEF Accounted
  <2>2. ASSUME NEW u \in seen
        PROVE  u \in Elems(chain') \/ \E i \in DOMAIN path' : i > 1 /\ path'[i] = u
    <3>1. CASE u \in Elems(chain) \/ u = Top
      BY <3>1, <1>7
    <3>2. CASE u \notin Elems(chain) /\ u # Top
      <4>1. PICK i \in DOMAIN path : i > 1 /\ path[i] = u
        BY <3>2, <1>3 DEF Accounted
      <4>2. i \in DOMAIN path' /\ path'[i] = u
        BY <4>1, <3>2, <1>3, <1>5
      <4> QED BY <4>1, <4>2
    <3> QED BY <3>1, <3>2
  <2>3. Elems(chain') \subseteq seen /\ seen \subseteq decided
    BY <1>3, <1>7 DEF Accounted
  <2> QED BY <2>1, <2>2, <2>3, <1>1, <1>4 DEF Accounted
<1>10. ASSUME NEW b \in Elems(Edges(Top))
       PROVE  b \in Elems(chain)
  <2>1. b \in Elems(Walked(Top)) /\ b < Top /\ b \in Nat
    BY <1>3
  <2>2. PICK k \in DOMAIN Walked(Top) : Walked(Top)[k] = b
    BY <2>1 DEF Elems
  <2>3. k \in 1 .. taken[Top] /\ Len(path) \in DOMAIN path
    BY <2>2, <1>1, <1>3
  <2>4. b \in seen
    BY <2>2, <2>3, <1>3 DEF Through
  <2>5. \A i \in DOMAIN path : path[i] # b
    <3> SUFFICES ASSUME NEW i \in DOMAIN path
                 PROVE  path[i] # b
      OBVIOUS
    <3>1. path[i] = Top \/ Top < path[i]
      BY <1>3 DEF Descending
    <3>2. path[i] \in Nat /\ Top \in Nat /\ b \in Nat /\ b < Top
      BY <2>1, <1>3
    <3> QED BY <3>1, <3>2
  <2> QED BY <2>4, <2>5, <1>3 DEF Accounted
<1>11. /\ Len(chain) \in Nat /\ DOMAIN chain = 1 .. Len(chain) /\ DOMAIN chain' = 1 .. Len(chain) + 1
       /\ \A k \in DOMAIN chain : chain'[k] = chain[k]
       /\ chain'[Len(chain) + 1] = Top
  <2>1. /\ Append(chain, Top) \in Seq(Names) /\ Len(Append(chain, Top)) = Len(chain) + 1
        /\ \A k \in 1 .. Len(chain) : Append(chain, Top)[k] = chain[k]
        /\ Append(chain, Top)[Len(chain) + 1] = Top /\ Len(chain) \in Nat
    <3> HIDE DEF Names
    <3> QED BY <1>3, Pushed
  <2>2. DOMAIN chain = 1 .. Len(chain) /\ DOMAIN Append(chain, Top) = 1 .. Len(chain) + 1
    BY <2>1, <1>3
  <2> QED BY <2>1, <2>2, <1>1
<1>12. InOrder(chain)'
  <2> SUFFICES ASSUME NEW k \in DOMAIN chain', NEW b \in Elems(Edges(chain'[k]))
               PROVE  \E j \in 1 .. k - 1 : chain'[j] = b
    BY <1>4 DEF InOrder, Elems
  <2>1. CASE k \in DOMAIN chain
    <3>1. PICK j \in 1 .. k - 1 : chain[j] = b
      BY <2>1, <1>3, <1>11 DEF InOrder
    <3>2. j \in DOMAIN chain
      BY <2>1, <1>11
    <3> QED BY <3>1, <3>2, <1>11
  <2>2. CASE k = Len(chain) + 1
    <3>1. b \in Elems(chain)
      BY <2>2, <1>10, <1>11
    <3>2. PICK j \in DOMAIN chain : chain[j] = b
      BY <3>1 DEF Elems
    <3> QED BY <3>2, <2>2, <1>11
  <2> QED BY <2>1, <2>2, <1>11
<1>13. Once(chain)'
  <2> SUFFICES ASSUME NEW j \in DOMAIN chain', NEW k \in DOMAIN chain', chain'[j] = chain'[k]
               PROVE  j = k
    BY DEF Once
  <2>1. \A i \in DOMAIN chain : chain'[i] # Top
    BY <1>7, <1>11 DEF Elems
  <2>2. CASE j \in DOMAIN chain /\ k \in DOMAIN chain
    BY <2>2, <1>3, <1>11 DEF Once
  <2>3. CASE j = Len(chain) + 1 \/ k = Len(chain) + 1
    BY <2>1, <2>3, <1>11
  <2> QED BY <2>2, <2>3, <1>11
<1> QED BY <1>1, <1>8, <1>9, <1>12, <1>13, FinishedKept DEF Walking

LEMMA RecordStep == MixinInv /\ RecordExpanded => Walking' /\ Finished'
<1> SUFFICES ASSUME MixinInv, RecordExpanded
             PROVE  Walking' /\ Finished'
  OBVIOUS
<1>1. /\ Len(path) = 1 /\ taken[Top] = Len(Walked(Top))
      /\ chains' = [chains EXCEPT ![next] = chain] /\ path' = <<>> /\ next' = next + 1
      /\ UNCHANGED Decisions
  BY DEF RecordExpanded
<1>2. path # <<>>
  BY <1>1
<1>3. /\ DOMAIN path = {1} /\ Top = next /\ next \in Names
      /\ Walked(next) \in Seq(Usr) /\ Walked(next) = mixins[next]
      /\ Through /\ Accounted /\ InOrder(chain) /\ Once(chain)
  BY <1>1, <1>2, WalkFacts DEF Top, Walked
<1>4. Elems(chain) \subseteq decided
  BY <1>3 DEF Accounted
<1>5. ASSUME NEW b \in Elems(mixins[next])
      PROVE  b \in Elems(chain)
  <2>1. PICK k \in DOMAIN Walked(next) : Walked(next)[k] = b
    BY <1>3 DEF Elems
  <2>2. k \in 1 .. taken[path[1]] /\ path[1] = next
    <3>1. path[1] = next /\ Len(path) = 1
      BY <1>1, <1>2, WalkFacts
    <3> QED BY <3>1, <2>1, <1>1, <1>3
  <2>3. b \in seen
    BY <2>1, <2>2, <1>3 DEF Through
  <2>4. ~\E i \in DOMAIN path : i > 1 /\ path[i] = b
    BY <1>3
  <2> QED BY <2>3, <2>4, <1>3 DEF Accounted
<1>6. Finished'
  <2>1. \A list : InOrder(list)' = InOrder(list)
    BY <1>1, Unmoved
  <2>2. records' = records /\ mixins' = mixins /\ decided' = decided
    BY <1>1 DEF Decisions
  <2>3. chains'[next] = chain /\ \A u \in Names : u # next => chains'[u] = chains[u]
    BY <1>1, <1>3 DEF MixinInv, Decision, Shape, MixinTypeOK
  <2> SUFFICES ASSUME NEW u \in Names, Expanded(u)'
               PROVE  /\ Elems(chains'[u]) \subseteq decided /\ InOrder(chains'[u]) /\ Once(chains'[u])
                      /\ Elems(mixins[u]) \subseteq Elems(chains'[u])
    <3> HIDE DEF Names
    <3> QED BY <2>1, <2>2 DEF Finished, Once, Elems
  <2>4. CASE u = next
    BY <2>3, <2>4, <1>3, <1>4, <1>5
  <2>5. CASE u # next
    <3>1. Expanded(u)
      BY <2>2, <2>5, <1>1, <1>3, LastFacts DEF Expanded
    <3> QED BY <3>1, <2>3, <2>5 DEF MixinInv, Finished
  <2> QED BY <2>4, <2>5
<1> QED BY <1>1, <1>6 DEF Walking

LEMMA InvStep == MixinInv /\ [MixinNext]_mixinVars => MixinInv'
<1> SUFFICES ASSUME MixinInv, [MixinNext]_mixinVars
             PROVE  MixinInv'
  OBVIOUS
<1>1. Decision' /\ Decision /\ Shape /\ Untouched
  BY DecisionStep DEF MixinInv, Decision, Shape
<1>2. CASE Decide \/ ApplyForms
  <2>1. path' = <<>> /\ next' = 1
    <3>1. path = <<>> /\ next = 1 /\ UNCHANGED walk
      BY <1>1, <1>2 DEF Decide, ApplyForms, Untouched, Deciding, Shape, MixinTypeOK
    <3> QED BY <3>1 DEF walk
  <2>2. Walking'
    BY <2>1 DEF Walking
  <2>3. Finished'
    <3>1. \A u \in Names : ~(Expanded(u)')
      BY <2>1, LastFacts DEF Expanded
    <3> HIDE DEF Names
    <3> QED BY <3>1 DEF Finished
  <2> QED BY <1>1, <2>2, <2>3 DEF MixinInv
<1>3. CASE ExpandRecord
  BY <1>1, <1>3, ExpandStep DEF MixinInv
<1>4. CASE NoRecord
  <2>1. path' = <<>> /\ next \notin records /\ next' = next + 1 /\ UNCHANGED <<Decisions, chains>>
    BY <1>4 DEF NoRecord
  <2>2. \A list : InOrder(list)' = InOrder(list)
    BY <2>1, Unmoved
  <2>3. \A u \in Names : Expanded(u)' => Expanded(u)
    <3>1. records' = records /\ next \in Names
      BY <2>1, <1>4 DEF Decisions, NoRecord
    <3> QED BY <2>1, <3>1, LastFacts DEF Expanded
  <2>4. chains' = chains /\ mixins' = mixins /\ decided' = decided
    BY <2>1 DEF Decisions
  <2>5. Finished'
    <3> HIDE DEF Names
    <3> QED BY <2>2, <2>3, <2>4 DEF MixinInv, Finished
  <2> QED BY <1>1, <2>1, <2>5 DEF MixinInv, Walking
<1>5. CASE VisitBase
  BY <1>1, <1>5, VisitStep DEF MixinInv
<1>6. CASE PushBase
  BY <1>1, <1>6, PushStep DEF MixinInv
<1>7. CASE RecordExpanded
  BY <1>1, <1>7, RecordStep DEF MixinInv
<1>8. CASE UNCHANGED mixinVars
  <2>1. UNCHANGED <<Decisions, next, path, taken, seen, chain, chains>>
    BY <1>8 DEF mixinVars, Decisions
  <2>2. (\A list : InOrder(list)' = InOrder(list)) /\ \A u : Walked(u)' = Walked(u)
    <3>1. \A u : Edges(u)' = Edges(u)
      BY <2>1, Unmoved
    <3> QED BY <2>1, <3>1, Unmoved DEF Walked, Decisions
  <2>3. Walking'
    BY <2>1, <2>2 DEF MixinInv, Walking, Descending, Bounded, Through, Accounted, Once, Elems, Decisions
  <2> QED BY <1>1, <2>1, <2>3, FinishedKept DEF MixinInv
<1> QED BY <1>2, <1>3, <1>4, <1>5, <1>6, <1>7, <1>8 DEF MixinNext

LEMMA Always == MixinSpec => []MixinInv
<1>1. MixinInit => MixinInv
  BY InvInit
<1>2. MixinInv /\ [MixinNext]_mixinVars => MixinInv'
  BY InvStep
<1> QED BY <1>1, <1>2, PTL DEF MixinSpec

-----------------------------------------------------------------------------
(* The variables keep their types, for any number of records.              *)
THEOREM MixinTypes == MixinSpec => []MixinTypeOK
<1>1. MixinInv => MixinTypeOK
  BY DEF MixinInv, Decision, Shape
<1> QED BY <1>1, Always, PTL

(* mixin_usrs answers the printer and the validator what it answered       *)
(* apply_mixin_forms, whatever derives from what.                          *)
THEOREM DecidedOnce == MixinSpec => []OneDecision
<1>1. MixinInv => OneDecision
  BY Settled DEF MixinInv, OneDecision
<1> QED BY <1>1, Always, PTL

(* What is rewritten is what Dart accepts and no base is lost: no class    *)
(* extends a mixin, a with clause names decided records, each once and     *)
(* after the bases it asks for, and every C++ base is among them.          *)
THEOREM LegalForms == MixinSpec => []FormsAreLegal
<1>1. MixinInv => FormsAreLegal
  <2> SUFFICES ASSUME MixinInv
               PROVE  FormsAreLegal
    OBVIOUS
  <2>1. OneDecision
    BY Settled DEF MixinInv, OneDecision
  <2>2. ClassesExtendClasses
    BY Settled DEF MixinInv, ClassesExtendClasses, Decision, Shape, MixinTypeOK
  <2>3. MixinsApply
    BY DEF MixinInv, Finished, MixinsApply
  <2>4. NoBaseLost
    <3> SUFFICES ASSUME NEW u \in module.known, Expanded(u)
                 PROVE  Elems(module.bases[u]) \subseteq {baseClass[u]} \cup Elems(chains[u])
      BY DEF NoBaseLost
    <3>1. MixinTypeOK /\ Downward /\ u \in records /\ u \in Names /\ Elems(Edges(u)) = Elems(module.bases[u])
      BY DEF MixinInv, Decision, Shape, BasesKept, MixinTypeOK
    <3>2. Elems(Edges(u)) = ({baseClass[u]} \ {None}) \cup Elems(mixins[u])
      BY <3>1, EdgesFacts
    <3>3. Elems(mixins[u]) \subseteq Elems(chains[u])
      BY <3>1 DEF MixinInv, Finished
    <3> QED BY <3>1, <3>2, <3>3
  <2> QED BY <2>1, <2>2, <2>3, <2>4 DEF FormsAreLegal
<1> QED BY <1>1, Always, PTL

-----------------------------------------------------------------------------
(* The recursive functions of SuperCalls, by their bodies: all of them ask *)
(* about bases, which are smaller.                                         *)
NoInvariant(c, built, elements) == TRUE

ClimbBody(c, climb, v) ==
  IF baseClass[v] = None THEN <<>>
  ELSE <<baseClass[v]>> \o (IF baseClass[v] \in records THEN climb[baseClass[v]] ELSE <<>>)
Climb == INSTANCE Folding WITH Op <- ClimbBody, Holds <- NoInvariant

StackBody(c, stack, v) ==
  (IF baseClass[v] = None THEN <<>>
   ELSE IF baseClass[v] \in records THEN stack[baseClass[v]] ELSE <<baseClass[v]>>)
  \o chains[v] \o <<v>>
Stack == INSTANCE Folding WITH Op <- StackBody, Holds <- NoInvariant

CopyableBody(privates, copyable, v) ==
  /\ IsClass(v)
  /\ baseClass[v] # None => baseClass[v] \in records /\ copyable[baseClass[v]]
  /\ \A m \in WithOnly(v) : m \in records /\ m \notin privates
Copyables == INSTANCE Folding WITH Op <- CopyableBody, Holds <- NoInvariant

CopiedBody(c, copied, v) ==
  {v} \cup (WithOnly(v) \cap records)
  \cup (IF baseClass[v] = None \/ baseClass[v] \notin records THEN {} ELSE copied[baseClass[v]])
Copies == INSTANCE Folding WITH Op <- CopiedBody, Holds <- NoInvariant

AboveBody(c, above, v) ==
  {v} \cup (IF v \in module.known THEN UNION {above[b] : b \in Elems(module.bases[v])} ELSE {})
Above == INSTANCE Folding WITH Op <- AboveBody, Holds <- NoInvariant

LEMMA BaseBelow ==
  ASSUME Shape, NEW v \in Names
  PROVE  baseClass[v] = None \/ baseClass[v] \in 1 .. v - 1
BY LastFacts DEF Shape, MixinTypeOK, Downward

LEMMA ChainValue ==
  ASSUME Shape, NEW u \in Names
  PROVE  ExtendsChain(u) =
           IF baseClass[u] = None THEN <<>>
           ELSE <<baseClass[u]>> \o (IF baseClass[u] \in records THEN ExtendsChain(baseClass[u]) ELSE <<>>)
<1>1. 2 * RecordCount \in Nat
  BY LastFacts
<1>2. Climb!LooksBelow(0, 2 * RecordCount)
  <2> SUFFICES ASSUME NEW v \in Names, NEW f, NEW g, \A w \in 1 .. v - 1 : f[w] = g[w]
               PROVE  ClimbBody(0, f, v) = ClimbBody(0, g, v)
    BY DEF Climb!LooksBelow
  <2> QED BY BaseBelow DEF ClimbBody
<1> DEFINE climb == Climb!Recursive(0, 2 * RecordCount)
<1>3. climb[u] = ClimbBody(0, climb, u)
  BY <1>1, <1>2, Climb!RecursiveValue
<1>4. \A v : ExtendsChain(v) = climb[v]
  BY DEF ExtendsChain, Climb!Recursive, ClimbBody
<1> HIDE DEF climb
<1> QED BY <1>3, <1>4 DEF ClimbBody

Line(u) == Linearization[u]

LEMMA LineValue ==
  ASSUME Shape, NEW u \in Names
  PROVE  Line(u) = (IF baseClass[u] = None THEN <<>>
                    ELSE IF baseClass[u] \in records THEN Line(baseClass[u]) ELSE <<baseClass[u]>>)
                   \o chains[u] \o <<u>>
<1>1. 2 * RecordCount \in Nat
  BY LastFacts
<1>2. Stack!LooksBelow(0, 2 * RecordCount)
  <2> SUFFICES ASSUME NEW v \in Names, NEW f, NEW g, \A w \in 1 .. v - 1 : f[w] = g[w]
               PROVE  StackBody(0, f, v) = StackBody(0, g, v)
    BY DEF Stack!LooksBelow
  <2> QED BY BaseBelow DEF StackBody
<1> DEFINE stack == Stack!Recursive(0, 2 * RecordCount)
<1>3. stack[u] = StackBody(0, stack, u)
  BY <1>1, <1>2, Stack!RecursiveValue
<1>4. \A v \in Names : Line(v) = stack[v]
  BY DEF Line, Linearization, Stack!Recursive, StackBody
<1>5. baseClass[u] = None \/ baseClass[u] \in Names
  BY BaseBelow, LastFacts
<1> HIDE DEF stack
<1> QED BY <1>3, <1>4, <1>5 DEF StackBody

LEMMA CopyableValue ==
  ASSUME Shape, NEW privates, NEW u \in Copyable(privates)
  PROVE  /\ u \in Names /\ u \in records
         /\ baseClass[u] # None => baseClass[u] \in records /\ baseClass[u] \in Copyable(privates)
         /\ \A m \in WithOnly(u) : m \in records
<1>1. 2 * RecordCount \in Nat
  BY LastFacts
<1>2. Copyables!LooksBelow(privates, 2 * RecordCount)
  <2> SUFFICES ASSUME NEW v \in Names, NEW f, NEW g, \A w \in 1 .. v - 1 : f[w] = g[w]
               PROVE  CopyableBody(privates, f, v) = CopyableBody(privates, g, v)
    BY DEF Copyables!LooksBelow
  <2>1. baseClass[v] # None => f[baseClass[v]] = g[baseClass[v]]
    BY BaseBelow
  <2> QED BY <2>1 DEF CopyableBody
<1> DEFINE copyable == Copyables!Recursive(privates, 2 * RecordCount)
<1>3. \A v \in Names : copyable[v] = CopyableBody(privates, copyable, v)
  BY <1>1, <1>2, Copyables!RecursiveValue
<1>4. Copyable(privates) = {v \in Names : copyable[v]}
  BY DEF Copyable, Copyables!Recursive, CopyableBody
<1>5. baseClass[u] = None \/ baseClass[u] \in Names
  BY <1>4, BaseBelow, LastFacts
<1> HIDE DEF copyable
<1>6. CopyableBody(privates, copyable, u)
  BY <1>3, <1>4
<1> QED BY <1>4, <1>5, <1>6 DEF CopyableBody, IsClass

LEMMA CopiedValue ==
  ASSUME Shape, NEW u \in Names
  PROVE  Copied[u] = {u} \cup (WithOnly(u) \cap records)
                     \cup (IF baseClass[u] = None \/ baseClass[u] \notin records THEN {} ELSE Copied[baseClass[u]])
<1>1. 2 * RecordCount \in Nat
  BY LastFacts
<1>2. Copies!LooksBelow(0, 2 * RecordCount)
  <2> SUFFICES ASSUME NEW v \in Names, NEW f, NEW g, \A w \in 1 .. v - 1 : f[w] = g[w]
               PROVE  CopiedBody(0, f, v) = CopiedBody(0, g, v)
    BY DEF Copies!LooksBelow
  <2> QED BY BaseBelow DEF CopiedBody
<1> DEFINE copied == Copies!Recursive(0, 2 * RecordCount)
<1>3. copied[u] = CopiedBody(0, copied, u)
  BY <1>1, <1>2, Copies!RecursiveValue
<1>4. \A v \in Names : Copied[v] = copied[v]
  BY DEF Copied, Copies!Recursive, CopiedBody
<1>5. baseClass[u] = None \/ baseClass[u] \in Names
  BY BaseBelow, LastFacts
<1> HIDE DEF copied
<1> QED BY <1>3, <1>4, <1>5 DEF CopiedBody

LEMMA AncestorsValue ==
  ASSUME Shape, NEW u \in Usr
  PROVE  Ancestors[u] = {u} \cup (IF u \in module.known THEN UNION {Ancestors[b] : b \in Elems(module.bases[u])} ELSE {})
<1>1. RecordCount \in Nat /\ module \in Modules
  BY LastFacts DEF Shape, MixinTypeOK
<1>2. \A v \in Usr : Elems(module.bases[v]) \subseteq 1 .. v - 1 /\ Elems(module.bases[v]) \subseteq Usr
  <2> SUFFICES ASSUME NEW v \in Usr, NEW b \in Elems(module.bases[v])
               PROVE  b \in 1 .. v - 1 /\ b \in Usr
    OBVIOUS
  <2>1. b \in Usr
    BY <1>1, ModuleFacts, ElemsFacts
  <2>2. b < v
    BY <1>1, ModuleFacts DEF Elems
  <2> QED BY <2>1, <2>2
<1>3. Above!LooksBelow(0, RecordCount)
  <2> SUFFICES ASSUME NEW v \in Usr, NEW f, NEW g, \A w \in 1 .. v - 1 : f[w] = g[w]
               PROVE  AboveBody(0, f, v) = AboveBody(0, g, v)
    BY DEF Above!LooksBelow
  <2>1. \A b \in Elems(module.bases[v]) : f[b] = g[b]
    BY <1>2
  <2>2. {f[b] : b \in Elems(module.bases[v])} = {g[b] : b \in Elems(module.bases[v])}
    BY <2>1
  <2> QED BY <2>2 DEF AboveBody
<1> DEFINE above == Above!Recursive(0, RecordCount)
<1>4. above[u] = AboveBody(0, above, u)
  BY <1>1, <1>3, Above!RecursiveValue
<1>5. \A v \in Usr : Ancestors[v] = above[v]
  BY DEF Ancestors, Above!Recursive, AboveBody
<1> HIDE DEF above
<1>6. {Ancestors[b] : b \in Elems(module.bases[u])} = {above[b] : b \in Elems(module.bases[u])}
  BY <1>2, <1>5
<1> QED BY <1>4, <1>5, <1>6 DEF AboveBody
-----------------------------------------------------------------------------
(* What the last of a list is that is in a set. *)
LEMMA Among ==
  ASSUME NEW S, NEW s \in Seq(S), NEW T, \A k \in DOMAIN s : s[k] \in T
  PROVE  s \in Seq(T)
<1>1. Len(s) \in Nat /\ DOMAIN s = 1 .. Len(s) /\ s = [k \in 1 .. Len(s) |-> s[k]]
  OBVIOUS
<1> QED BY <1>1

LEMMA EmptyList ==
  ASSUME NEW S, NEW s \in Seq(S), DOMAIN s = {}
  PROVE  s = <<>>
<1>1. Len(s) \in Nat /\ DOMAIN s = 1 .. Len(s)
  OBVIOUS
<1>2. Len(s) = 0
  BY <1>1
<1> QED BY <1>2

LEMMA HasLast ==
  ASSUME NEW n \in Nat, NEW at \in SUBSET (1 .. n), at # {}
  PROVE  \E k \in at : \A j \in at : j <= k
<1> DEFINE T == {m \in Nat : \A some \in SUBSET (1 .. m) : some # {} => \E k \in some : \A j \in some : j <= k}
<1>1. 0 \in T
  <2>1. \A some \in SUBSET (1 .. 0) : some = {}
    OBVIOUS
  <2> QED BY <2>1
<1>2. ASSUME NEW m \in Nat, m \in T
      PROVE  m + 1 \in T
  <2> SUFFICES ASSUME NEW some \in SUBSET (1 .. m + 1), some # {}
               PROVE  \E k \in some : \A j \in some : j <= k
    OBVIOUS
  <2>1. CASE m + 1 \in some
    BY <2>1
  <2>2. CASE m + 1 \notin some
    <3>1. \A j \in some : j \in 1 .. m
      BY <2>2
    <3>2. some \in SUBSET (1 .. m)
      BY <3>1
    <3> QED BY <1>2, <3>2
  <2> QED BY <2>1, <2>2
<1>3. \A m \in Nat : m \in T
  <2> HIDE DEF T
  <2> QED BY <1>1, <1>2, Climb!Induction
<1> QED BY <1>3

LEMMA LastInFacts ==
  ASSUME NEW S, NEW s \in Seq(S), NEW set
  PROVE  /\ (\A k \in DOMAIN s : s[k] \notin set) => LastIn(s, set) = None
         /\ \A k \in DOMAIN s : s[k] \in set /\ (\A j \in DOMAIN s : s[j] \in set => j <= k) => LastIn(s, set) = s[k]
         /\ \/ \A k \in DOMAIN s : s[k] \notin set
            \/ \E k \in DOMAIN s : s[k] \in set /\ \A j \in DOMAIN s : s[j] \in set => j <= k
<1> DEFINE at == {k \in DOMAIN s : s[k] \in set}
<1>1. Len(s) \in Nat /\ DOMAIN s = 1 .. Len(s) /\ at \in SUBSET (1 .. Len(s))
  OBVIOUS
<1>2. LastIn(s, set) = IF at = {} THEN None ELSE s[CHOOSE k \in at : \A j \in at : j <= k]
  BY DEF LastIn
<1>3. ASSUME NEW k \in DOMAIN s, s[k] \in set, \A j \in DOMAIN s : s[j] \in set => j <= k
      PROVE  LastIn(s, set) = s[k]
  <2>1. k \in at /\ \A j \in at : j <= k
    BY <1>3
  <2>2. \A m \in at : (\A j \in at : j <= m) => m = k
    BY <1>1, <2>1
  <2> HIDE DEF at
  <2>3. (CHOOSE m \in at : \A j \in at : j <= m) = k
    BY <2>1, <2>2
  <2> QED BY <1>2, <2>1, <2>3
<1>4. at # {} => \E k \in at : \A j \in at : j <= k
  <2> HIDE DEF at
  <2> QED BY <1>1, HasLast
<1>5. (\A k \in DOMAIN s : s[k] \notin set) => LastIn(s, set) = None
  BY <1>2
<1> QED BY <1>3, <1>4, <1>5

LEMMA LastInAppend ==
  ASSUME NEW S, NEW s \in Seq(S), NEW x \in S, NEW set
  PROVE  LastIn(Append(s, x), set) = IF x \in set THEN x ELSE LastIn(s, set)
<1> DEFINE r == Append(s, x)
<1>1. /\ r \in Seq(S) /\ Len(s) \in Nat /\ DOMAIN s = 1 .. Len(s) /\ DOMAIN r = 1 .. Len(s) + 1
      /\ r[Len(s) + 1] = x /\ \A k \in DOMAIN s : r[k] = s[k]
  BY Pushed
<1> HIDE DEF r
<1>2. \A k \in DOMAIN r : k \in DOMAIN s \/ k = Len(s) + 1
  BY <1>1
<1>3. CASE x \in set
  <2>1. Len(s) + 1 \in DOMAIN r /\ \A j \in DOMAIN r : j <= Len(s) + 1
    BY <1>1
  <2>2. LastIn(r, set) = r[Len(s) + 1]
    BY <2>1, <1>1, <1>3, LastInFacts
  <2> QED BY <2>2, <1>1, <1>3 DEF r
<1>4. CASE x \notin set
  <2>1. CASE \A k \in DOMAIN s : s[k] \notin set
    <3>1. \A k \in DOMAIN r : r[k] \notin set
      BY <2>1, <1>1, <1>2, <1>4
    <3>2. LastIn(r, set) = None /\ LastIn(s, set) = None
      BY <2>1, <3>1, <1>1, LastInFacts
    <3> QED BY <3>2, <1>4 DEF r
  <2>2. ASSUME NEW k \in DOMAIN s, s[k] \in set, \A j \in DOMAIN s : s[j] \in set => j <= k
        PROVE  LastIn(r, set) = LastIn(s, set)
    <3>1. LastIn(s, set) = s[k]
      BY <2>2, LastInFacts
    <3>2. k \in DOMAIN r /\ r[k] \in set /\ r[k] = s[k]
      BY <2>2, <1>1
    <3>3. \A j \in DOMAIN r : r[j] \in set => j <= k
      BY <2>2, <1>1, <1>2, <1>4
    <3>4. LastIn(r, set) = r[k]
      BY <3>2, <3>3, <1>1, LastInFacts
    <3> QED BY <3>1, <3>2, <3>4
  <2>3. \/ \A k \in DOMAIN s : s[k] \notin set
        \/ \E k \in DOMAIN s : s[k] \in set /\ \A j \in DOMAIN s : s[j] \in set => j <= k
    BY LastInFacts
  <2> QED BY <2>1, <2>2, <2>3, <1>4 DEF r
<1> QED BY <1>3, <1>4

LEMMA EmptyLast ==
  ASSUME NEW set
  PROVE  LastIn(<<>>, set) = None /\ Nearest(<<>>, set) = None
<1>1. <<>> \in Seq(Nat) /\ DOMAIN <<>> = {}
  OBVIOUS
<1>2. [k \in DOMAIN <<>> |-> <<>>[Len(<<>>) + 1 - k]] = <<>>
  OBVIOUS
<1> QED BY <1>1, <1>2, LastInFacts DEF Nearest

LEMMA NearestOf ==
  ASSUME NEW S, NEW s \in Seq(S), NEW x \in S, NEW set
  PROVE  Nearest(<<x>> \o s, set) = IF x \in set THEN x ELSE Nearest(s, set)
<1> DEFINE n == Len(s)
           r == <<x>> \o s
           back == [k \in DOMAIN s |-> s[Len(s) + 1 - k]]
<1>1. n \in Nat /\ DOMAIN s = 1 .. n /\ \A k \in 1 .. n : s[k] \in S
  OBVIOUS
<1>2. r \in Seq(S) /\ Len(r) = n + 1 /\ DOMAIN r = 1 .. n + 1 /\ r[1] = x /\ \A k \in 1 .. n : r[k + 1] = s[k]
  BY <1>1
<1>3. back \in Seq(S) /\ Len(back) = n /\ DOMAIN back = 1 .. n /\ \A k \in 1 .. n : back[k] = s[n + 1 - k]
  BY <1>1
<1> HIDE DEF r
<1>4. [k \in DOMAIN r |-> r[Len(r) + 1 - k]] = Append(back, x)
  <2> DEFINE a == Append(back, x)
  <2>1. a \in Seq(S) /\ Len(a) = n + 1 /\ a[n + 1] = x /\ \A k \in 1 .. n : a[k] = back[k]
    <3> HIDE DEF back
    <3> QED BY <1>3
  <2>2. DOMAIN a = 1 .. n + 1 /\ a = [k \in 1 .. n + 1 |-> a[k]]
    <3> HIDE DEF a
    <3> QED BY <2>1
  <2>3. ASSUME NEW k \in 1 .. n + 1
        PROVE  r[Len(r) + 1 - k] = a[k]
    <3>1. CASE k = n + 1
      <4>1. Len(r) + 1 - k = 1
        BY <3>1, <1>1, <1>2
      <4> QED BY <4>1, <3>1, <1>2, <2>1
    <3>2. CASE k \in 1 .. n
      <4>1. n + 1 - k \in 1 .. n /\ Len(r) + 1 - k = (n + 1 - k) + 1
        BY <3>2, <1>1, <1>2
      <4> QED BY <4>1, <3>2, <1>2, <1>3, <2>1
    <3> QED BY <3>1, <3>2, <1>1
  <2> HIDE DEF a
  <2> QED BY <2>2, <2>3, <1>2 DEF a
<1>5. LastIn(Append(back, x), set) = IF x \in set THEN x ELSE LastIn(back, set)
  <2> HIDE DEF back
  <2> QED BY <1>3, LastInAppend
<1> QED BY <1>4, <1>5 DEF Nearest, r

-----------------------------------------------------------------------------
(* What holds of the forms beside what MixinInv says: a record extends one *)
(* base or mixes some in, never both, and a walk only meets what can be    *)
(* reached from the mixins it starts with.                                 *)
Composed ==
  /\ \A u \in Names : baseClass[u] = None \/ mixins[u] = <<>>
  /\ records \cap Usr \subseteq module.known
Reaching ==
  path # <<>> =>
    \A set \in SUBSET Usr : Closed(set) /\ Elems(mixins[next]) \subseteq set => seen \subseteq set
Needed ==
  \A u \in Names : Expanded(u) =>
    \A set \in SUBSET Usr : Closed(set) /\ Elems(mixins[u]) \subseteq set => Elems(chains[u]) \subseteq set

SuperInv == MixinInv /\ Composed /\ Reaching /\ Needed

LEMMA SuperInit == MixinInit => SuperInv
<1> SUFFICES ASSUME MixinInit
             PROVE  SuperInv
  OBVIOUS
<1>1. MixinInv
  BY InvInit
<1>2. path = <<>> /\ next = 1 /\ records = module.known
  BY DEF MixinInit
<1>3. \A u \in Names : baseClass[u] = None \/ mixins[u] = <<>>
  BY DEF MixinInit
<1>4. \A u \in Names : ~Expanded(u)
  BY <1>2, LastFacts DEF Expanded
<1> QED BY <1>1, <1>2, <1>3, <1>4 DEF SuperInv, Composed, Reaching, Needed

LEMMA ComposedStep == SuperInv /\ [MixinNext]_mixinVars => Composed'
<1> SUFFICES ASSUME SuperInv, [MixinNext]_mixinVars
             PROVE  Composed'
  OBVIOUS
<1>1. Composed /\ Shape
  BY DEF SuperInv, MixinInv, Decision
<1>2. CASE ApplyForms
  <2> DEFINE built == decided \cap module.known \cap module.constructed
  <2>1. /\ records' = records \cup {Impl(u) : u \in built} /\ module' = module
        /\ phase = "merge"
        /\ \A u \in Names : /\ baseClass'[u] = IF baseClass[u] \in decided THEN None ELSE baseClass[u]
                            /\ mixins'[u] = IF u - RecordCount \in built THEN <<u - RecordCount>> ELSE Migrated(u)
    BY <1>2 DEF ApplyForms
  <2>2. built \subseteq Usr
    <3>1. decided \subseteq Usr
      BY <1>1 DEF Shape, MixinTypeOK
    <3> QED BY <3>1
  <2> HIDE DEF built
  <2>3. records' \cap Usr \subseteq module'.known
    BY <2>1, <2>2, <1>1, LastFacts DEF Composed
  <2>4. ASSUME NEW u \in Names
        PROVE  baseClass'[u] = None \/ mixins'[u] = <<>>
    <3>1. CASE u - RecordCount \in built
      <4>1. u \in Names \ Usr
        BY <2>2, <3>1, LastFacts
      <4>2. baseClass[u] = None
        BY <4>1, <2>1, <1>1 DEF Shape, Untouched
      <4> QED BY <4>2, <2>1
    <3>2. CASE u - RecordCount \notin built /\ baseClass[u] \notin decided
      <4>1. mixins'[u] = mixins[u] /\ baseClass'[u] = baseClass[u]
        BY <3>2, <2>1 DEF Migrated
      <4> QED BY <4>1, <1>1 DEF Composed
    <3>3. CASE baseClass[u] \in decided
      BY <3>3, <2>1
    <3> QED BY <3>1, <3>2, <3>3
  <2> QED BY <2>3, <2>4 DEF Composed
<1>3. ASSUME UNCHANGED <<module, records, baseClass, mixins>>
      PROVE  Composed'
  BY <1>1, <1>3 DEF Composed
<1>4. CASE Decide
  BY <1>3, <1>4 DEF Decide
<1>5. CASE UNCHANGED mixinVars
  BY <1>3, <1>5 DEF mixinVars
<1>6. CASE ExpandRecord \/ NoRecord \/ VisitBase \/ PushBase \/ RecordExpanded
  BY <1>3, <1>6 DEF ExpandRecord, NoRecord, VisitBase, PushBase, RecordExpanded, Decisions
<1> QED BY <1>2, <1>4, <1>5, <1>6 DEF MixinNext

LEMMA ReachingStep == SuperInv /\ [MixinNext]_mixinVars => Reaching' /\ Needed'
<1> SUFFICES ASSUME SuperInv, [MixinNext]_mixinVars
             PROVE  Reaching' /\ Needed'
  OBVIOUS
<1>1. MixinInv /\ Reaching /\ Needed /\ Untouched /\ MixinTypeOK
  BY DEF SuperInv, MixinInv, Decision, Shape
<1>2. ASSUME UNCHANGED Decisions
      PROVE  /\ \A set : Closed(set)' = Closed(set)
             /\ mixins' = mixins /\ records' = records
  BY <1>2, Unmoved DEF Closed, Elems, Decisions
<1>3. CASE Decide \/ ApplyForms
  <2>1. path' = <<>> /\ next' = 1
    <3>1. path = <<>> /\ next = 1 /\ UNCHANGED walk
      BY <1>1, <1>3 DEF Decide, ApplyForms, Untouched, Deciding, MixinTypeOK
    <3> QED BY <3>1 DEF walk
  <2>2. \A u \in Names : ~(Expanded(u)')
    BY <2>1, LastFacts DEF Expanded
  <2>3. Needed'
    <3> HIDE DEF Names
    <3> QED BY <2>2 DEF Needed
  <2> QED BY <2>1, <2>3 DEF Reaching
<1>4. ASSUME UNCHANGED <<Decisions, next, chains>>
      PROVE  Needed'
  <2>1. (\A set : Closed(set)' = Closed(set)) /\ mixins' = mixins /\ chains' = chains
    BY <1>2, <1>4
  <2>2. \A u \in Names : Expanded(u)' = Expanded(u)
    BY <1>4 DEF Expanded, Decisions
  <2> HIDE DEF Names
  <2> QED BY <2>1, <2>2, <1>1 DEF Needed, Elems
<1>5. CASE ExpandRecord
  <2>1. seen' = {} /\ UNCHANGED <<Decisions, next, chains>>
    BY <1>5 DEF ExpandRecord
  <2> QED BY <2>1, <1>4 DEF Reaching
<1>6. CASE NoRecord
  <2>1. path' = <<>> /\ next \notin records /\ next' = next + 1 /\ UNCHANGED <<Decisions, chains>>
    BY <1>6 DEF NoRecord
  <2>2. \A u \in Names : Expanded(u)' => Expanded(u)
    <3>1. records' = records /\ next \in Names
      BY <2>1, <1>6 DEF Decisions, NoRecord
    <3> QED BY <2>1, <3>1, LastFacts DEF Expanded
  <2>3. (\A set : Closed(set)' = Closed(set)) /\ mixins' = mixins /\ chains' = chains
    BY <1>2, <2>1
  <2>4. Needed'
    <3> HIDE DEF Names
    <3> QED BY <2>2, <2>3, <1>1 DEF Needed, Elems
  <2> QED BY <2>1, <2>4 DEF Reaching
<1>7. CASE VisitBase
  <2> DEFINE base == Walked(Top)[taken[Top] + 1]
  <2>1. /\ path # <<>> /\ taken[Top] < Len(Walked(Top)) /\ UNCHANGED <<Decisions, next, chain, chains>>
        /\ seen' \subseteq seen \cup {base}
    BY <1>7 DEF VisitBase
  <2>2. base \in Elems(Walked(Top))
    <3>1. Top \in Names /\ taken[Top] \in Nat /\ Walked(Top) \in Seq(Usr)
      BY <2>1, <1>1, WalkFacts
    <3>2. taken[Top] + 1 \in DOMAIN Walked(Top)
      BY <2>1, <3>1
    <3> QED BY <3>2 DEF Elems
  <2> HIDE DEF base
  <2>3. ASSUME NEW set \in SUBSET Usr, Closed(set), Elems(mixins[next]) \subseteq set
        PROVE  seen' \subseteq set
    <3>1. seen \subseteq set
      BY <2>1, <2>3, <1>1 DEF Reaching
    <3>2. CASE Top = next
      <4>1. base \in set
        BY <3>2, <2>2, <2>3 DEF Walked
      <4> QED BY <4>1, <3>1, <2>1
    <3>3. CASE Top # next
      <4>1. Top \in seen
        <5>1. /\ Len(path) \in DOMAIN path /\ Len(path) >= 1 /\ path[1] = next /\ Accounted
              /\ Len(path) \in Nat
          BY <2>1, <1>1, WalkFacts
        <5>2. Len(path) > 1
          BY <5>1, <3>3 DEF Top
        <5> QED BY <5>1, <5>2 DEF Accounted, Top
      <4>2. base \in Elems(Edges(Top))
        BY <3>3, <2>2 DEF Walked
      <4>3. base \in set
        BY <4>1, <4>2, <3>1, <2>3 DEF Closed
      <4> QED BY <4>3, <3>1, <2>1
    <3> QED BY <3>2, <3>3
  <2>4. (\A set : Closed(set)' = Closed(set)) /\ mixins' = mixins /\ next' = next
    BY <1>2, <2>1
  <2> QED BY <2>1, <2>3, <2>4, <1>4 DEF Reaching, Elems
<1>8. CASE PushBase
  <2>1. Len(path) > 1 /\ UNCHANGED <<Decisions, next, taken, seen, chains>>
    BY <1>8 DEF PushBase
  <2>2. path # <<>>
    BY <2>1, <1>1 DEF MixinTypeOK
  <2>3. (\A set : Closed(set)' = Closed(set)) /\ mixins' = mixins
    BY <1>2, <2>1
  <2> QED BY <2>1, <2>2, <2>3, <1>1, <1>4 DEF Reaching, Elems
<1>9. CASE RecordExpanded
  <2>1. /\ Len(path) = 1 /\ chains' = [chains EXCEPT ![next] = chain] /\ path' = <<>> /\ next' = next + 1
        /\ UNCHANGED Decisions
    BY <1>9 DEF RecordExpanded
  <2>2. path # <<>>
    BY <2>1
  <2>3. next \in Names /\ Elems(chain) \subseteq seen
    BY <2>2, <1>1, WalkFacts DEF Accounted
  <2>4. (\A set : Closed(set)' = Closed(set)) /\ mixins' = mixins /\ records' = records
    BY <1>2, <2>1
  <2>5. chains'[next] = chain /\ \A u \in Names : u # next => chains'[u] = chains[u]
    BY <2>1, <2>3, <1>1 DEF MixinTypeOK
  <2>6. ASSUME NEW u \in Names, Expanded(u)', NEW set \in SUBSET Usr, Closed(set), Elems(mixins[u]) \subseteq set
        PROVE  Elems(chains'[u]) \subseteq set
    <3>1. CASE u = next
      BY <3>1, <2>2, <2>3, <2>5, <2>6, <1>1 DEF Reaching
    <3>2. CASE u # next
      <4>1. Expanded(u)
        BY <2>1, <2>3, <2>4, <2>6, <3>2, LastFacts DEF Expanded
      <4> QED BY <4>1, <3>2, <2>5, <2>6, <1>1 DEF Needed
    <3> QED BY <3>1, <3>2
  <2>7. Needed'
    <3> HIDE DEF Names
    <3> QED BY <2>4, <2>6 DEF Needed, Elems
  <2> QED BY <2>1, <2>7 DEF Reaching
<1>10. CASE UNCHANGED mixinVars
  <2>1. UNCHANGED <<Decisions, next, path, seen, chains>>
    BY <1>10 DEF mixinVars, Decisions
  <2>2. (\A set : Closed(set)' = Closed(set)) /\ mixins' = mixins
    BY <1>2, <2>1
  <2> QED BY <2>1, <2>2, <1>1, <1>4 DEF Reaching, Elems
<1> QED BY <1>3, <1>5, <1>6, <1>7, <1>8, <1>9, <1>10 DEF MixinNext

LEMMA SuperAlways == MixinSpec => []SuperInv
<1>1. MixinInit => SuperInv
  BY SuperInit
<1>2. SuperInv /\ [MixinNext]_mixinVars => SuperInv'
  BY InvStep, ComposedStep, ReachingStep DEF SuperInv
<1> QED BY <1>1, <1>2, PTL DEF MixinSpec

-----------------------------------------------------------------------------
(* What a class is stacked from once everything is printed. *)
LEMMA PrintedFacts ==
  ASSUME SuperInv, Printed, NEW u \in records
  PROVE  /\ Shape /\ u \in Names /\ mixins[u] \in Seq(Usr) /\ baseClass[u] \in Usr \cup {None}
         /\ chains[u] \in Seq(Usr) /\ InOrder(chains[u]) /\ Once(chains[u])
         /\ Elems(mixins[u]) \subseteq Elems(chains[u])
         /\ \A set \in SUBSET Usr : Closed(set) /\ Elems(mixins[u]) \subseteq set => Elems(chains[u]) \subseteq set
<1>1. Shape /\ MixinTypeOK /\ u \in Names /\ Finished /\ Needed
  BY DEF SuperInv, MixinInv, Decision, Shape, MixinTypeOK
<1>2. Expanded(u)
  BY <1>1, LastFacts DEF Printed, Expanded, MixinTypeOK
<1>3. chains[u] \in Seq(Names) /\ Elems(chains[u]) \subseteq Usr
  BY <1>1, <1>2 DEF MixinTypeOK, Finished
<1>4. chains[u] \in Seq(Usr)
  <2> DEFINE s == chains[u]
  <2>1. s \in Seq(Names) /\ \A k \in DOMAIN s : s[k] \in Usr
    BY <1>3 DEF Elems
  <2> HIDE DEF s
  <2> HIDE DEF Usr, Names
  <2>2. s \in Seq(Usr)
    BY <2>1, Among
  <2> QED BY <2>2 DEF s
<1> QED BY <1>1, <1>2, <1>4 DEF MixinTypeOK, Finished, Needed

Before(u) ==
  IF baseClass[u] = None THEN chains[u] ELSE IF baseClass[u] \in records THEN Line(baseClass[u]) ELSE <<baseClass[u]>>

LEMMA EitherOr ==
  ASSUME SuperInv, Printed, NEW u \in records
  PROVE  /\ baseClass[u] # None => chains[u] = <<>> /\ mixins[u] = <<>>
         /\ Elems(Edges(u)) = IF baseClass[u] = None THEN Elems(mixins[u]) ELSE {baseClass[u]}
<1>1. Shape /\ u \in Names /\ chains[u] \in Seq(Usr)
  BY PrintedFacts
<1>2. Elems(Edges(u)) = ({baseClass[u]} \ {None}) \cup Elems(mixins[u])
  BY <1>1, EdgesFacts DEF Shape
<1>3. CASE baseClass[u] = None
  BY <1>2, <1>3
<1>4. CASE baseClass[u] # None
  <2>1. mixins[u] = <<>>
    BY <1>1, <1>4 DEF SuperInv, Composed
  <2>2. Elems(mixins[u]) = {}
    BY <2>1, NoElems
  <2>3. Closed({})
    BY DEF Closed
  <2>4. Elems(chains[u]) \subseteq {}
    BY <2>2, <2>3, PrintedFacts
  <2>5. chains[u] = <<>>
    <3>1. DOMAIN chains[u] = {}
      BY <2>4 DEF Elems
    <3> HIDE DEF Usr
    <3> QED BY <1>1, <3>1, EmptyList
  <2> QED BY <1>2, <1>4, <2>1, <2>2, <2>5
<1> QED BY <1>3, <1>4

(* What comes before u in its line: all that u derives from, bases first.  *)
Prefix(s, u) ==
  /\ s \in Seq(Usr) /\ (\A b \in Elems(s) : b < u)
  /\ Elems(Edges(u)) \subseteq Elems(s)
  /\ InOrder(s) /\ Once(s)
  /\ \A set \in SUBSET Usr : Closed(set) /\ Elems(Edges(u)) \subseteq set => Elems(s) \subseteq set

LEMMA Grown ==
  ASSUME NEW u \in Names, NEW s, Prefix(s, u)
  PROVE  /\ Append(s, u) \in Seq(Names) /\ Len(s) \in Nat /\ Len(Append(s, u)) = Len(s) + 1
         /\ Append(s, u)[Len(s) + 1] = u /\ \A k \in 1 .. Len(s) : Append(s, u)[k] = s[k]
         /\ Elems(Append(s, u)) = Elems(s) \cup {u}
         /\ InOrder(Append(s, u)) /\ Once(Append(s, u))
         /\ \A k \in DOMAIN Append(s, u) : Append(s, u)[k] = u => k = Len(s) + 1
<1> DEFINE r == Append(s, u)
<1>1. s \in Seq(Names) /\ s \in Seq(Usr) /\ Len(s) \in Nat /\ DOMAIN s = 1 .. Len(s)
  <2>1. s \in Seq(Usr)
    BY DEF Prefix
  <2>2. Usr \subseteq Names
    BY LastFacts
  <2> HIDE DEF Names, Usr
  <2> QED BY <2>1, <2>2
<1>2. /\ r \in Seq(Names) /\ Len(r) = Len(s) + 1 /\ r[Len(s) + 1] = u /\ (\A k \in 1 .. Len(s) : r[k] = s[k])
      /\ Elems(r) = Elems(s) \cup {u}
  <2> HIDE DEF Names, Usr
  <2> QED BY <1>1, Pushed, Appended
<1> HIDE DEF r
<1>3. DOMAIN r = 1 .. Len(s) + 1
  <2> HIDE DEF Names
  <2> QED BY <1>1, <1>2
<1>4. \A k \in DOMAIN r : k \in DOMAIN s \/ k = Len(s) + 1
  BY <1>1, <1>3
<1>5. \A k \in DOMAIN s : r[k] = s[k] /\ r[k] # u /\ r[k] \in Elems(s)
  <2>1. \A k \in DOMAIN s : s[k] \in Elems(s)
    BY DEF Elems
  <2>2. \A b \in Elems(s) : b < u
    BY DEF Prefix
  <2>3. ~(u < u)
    OBVIOUS
  <2>4. u \notin Elems(s)
    BY <2>2, <2>3
  <2> QED BY <1>1, <1>2, <2>1, <2>4
<1>6. InOrder(r)
  <2> SUFFICES ASSUME NEW k \in DOMAIN r, NEW b \in Elems(Edges(r[k]))
               PROVE  \E j \in 1 .. k - 1 : r[j] = b
    BY DEF InOrder
  <2>1. CASE k \in DOMAIN s
    <3>1. PICK j \in 1 .. k - 1 : s[j] = b
      BY <2>1, <1>5 DEF Prefix, InOrder
    <3>2. j \in DOMAIN s
      BY <2>1, <1>1
    <3> QED BY <3>1, <3>2, <1>5
  <2>2. CASE k = Len(s) + 1
    <3>1. b \in Elems(s)
      BY <2>2, <1>2 DEF Prefix
    <3>2. PICK j \in DOMAIN s : s[j] = b
      BY <3>1 DEF Elems
    <3>3. j \in 1 .. k - 1 /\ r[j] = b
      BY <2>2, <3>2, <1>1, <1>5
    <3> QED BY <3>3
  <2> QED BY <2>1, <2>2, <1>4
<1>7. Once(r)
  <2> SUFFICES ASSUME NEW j \in DOMAIN r, NEW k \in DOMAIN r, r[j] = r[k]
               PROVE  j = k
    BY DEF Once
  <2>1. CASE j \in DOMAIN s /\ k \in DOMAIN s
    BY <2>1, <1>5 DEF Prefix, Once
  <2>2. CASE j = Len(s) + 1 \/ k = Len(s) + 1
    BY <2>2, <1>2, <1>4, <1>5
  <2> QED BY <2>1, <2>2, <1>4
<1> QED BY <1>1, <1>2, <1>4, <1>5, <1>6, <1>7 DEF r

LEMMA LineIs ==
  ASSUME SuperInv, Printed, NEW u \in records, Before(u) \in Seq(Usr)
  PROVE  Line(u) = Append(Before(u), u)
<1>1. Shape /\ u \in Names /\ baseClass[u] \in Usr \cup {None} /\ chains[u] \in Seq(Usr)
  BY PrintedFacts
<1>2. Line(u) = (IF baseClass[u] = None THEN <<>>
                 ELSE IF baseClass[u] \in records THEN Line(baseClass[u]) ELSE <<baseClass[u]>>)
                \o chains[u] \o <<u>>
  BY <1>1, LineValue
<1>3. (IF baseClass[u] = None THEN <<>>
       ELSE IF baseClass[u] \in records THEN Line(baseClass[u]) ELSE <<baseClass[u]>>) \o chains[u] = Before(u)
  <2>1. CASE baseClass[u] = None
    <3>1. <<>> \o chains[u] = chains[u]
      BY <1>1
    <3> QED BY <2>1, <3>1 DEF Before
  <2>2. CASE baseClass[u] # None
    <3>1. chains[u] = <<>>
      BY <2>2, EitherOr
    <3>2. Before(u) \o <<>> = Before(u)
      OBVIOUS
    <3> QED BY <2>2, <3>1, <3>2 DEF Before
  <2> QED BY <2>1, <2>2
<1>4. Before(u) \o <<u>> = Append(Before(u), u)
  <2> DEFINE s == Before(u)
  <2>1. s \in Seq(Nat) /\ u \in Nat
    <3>1. s \in Seq(Usr) /\ Usr \subseteq Nat /\ u \in Nat
      BY <1>1
    <3> HIDE DEF Usr, Names, s
    <3>2. \A k \in DOMAIN s : s[k] \in Usr
      BY <3>1, ElemsFacts
    <3> QED BY <3>1, <3>2, Among
  <2> HIDE DEF s
  <2>2. s \o <<u>> = Append(s, u)
    BY <2>1
  <2> QED BY <2>2 DEF s
<1> QED BY <1>2, <1>3, <1>4

LEMMA SmallerClosed ==
  ASSUME Shape, NEW u \in Names
  PROVE  Closed({t \in Usr : t < u}) /\ {t \in Usr : t < u} \in SUBSET Usr
<1> SUFFICES ASSUME NEW t \in Usr, t < u, NEW b \in Elems(Edges(t))
             PROVE  b \in Usr /\ b < u
  BY DEF Closed
<1>1. b \in Usr /\ b < t
  BY LastFacts, EdgesFacts DEF Shape
<1> QED BY <1>1

LEMMA Prefixes ==
  ASSUME SuperInv, Printed
  PROVE  \A u \in records : Prefix(Before(u), u)
<1> DEFINE T == {n \in Nat : \A u \in records : u <= n => Prefix(Before(u), u)}
<1>1. 0 \in T
  <2>1. \A u \in records : ~(u <= 0)
    BY PrintedFacts
  <2> QED BY <2>1
<1>2. ASSUME NEW n \in Nat, n \in T
      PROVE  n + 1 \in T
  <2> SUFFICES ASSUME NEW u \in records, u = n + 1
               PROVE  Prefix(Before(u), u)
    <3>1. \A u \in records : u \in Nat /\ (u <= n + 1 => u <= n \/ u = n + 1)
      BY PrintedFacts
    <3> QED BY <3>1, <1>2
  <2>1. /\ Shape /\ u \in Names /\ baseClass[u] \in Usr \cup {None} /\ chains[u] \in Seq(Usr)
        /\ mixins[u] \in Seq(Usr) /\ InOrder(chains[u]) /\ Once(chains[u])
        /\ Elems(mixins[u]) \subseteq Elems(chains[u])
        /\ \A set \in SUBSET Usr : Closed(set) /\ Elems(mixins[u]) \subseteq set => Elems(chains[u]) \subseteq set
    BY PrintedFacts
  <2>2. Elems(Edges(u)) = IF baseClass[u] = None THEN Elems(mixins[u]) ELSE {baseClass[u]}
    BY EitherOr
  <2>3. CASE baseClass[u] = None
    <3>1. Before(u) = chains[u] /\ Elems(Edges(u)) = Elems(mixins[u])
      BY <2>2, <2>3 DEF Before
    <3>2. Elems(mixins[u]) \subseteq {t \in Usr : t < u}
      BY <3>1, <2>1, EdgesFacts DEF Shape
    <3>3. Elems(chains[u]) \subseteq {t \in Usr : t < u}
      <4>1. Closed({t \in Usr : t < u}) /\ {t \in Usr : t < u} \in SUBSET Usr
        BY <2>1, SmallerClosed
      <4> QED BY <4>1, <3>2, <2>1
    <3>4. \A b \in Elems(chains[u]) : b < u
      BY <3>3
    <3> HIDE DEF Usr, Names
    <3> QED BY <3>1, <3>4, <2>1 DEF Prefix
  <2>4. CASE baseClass[u] # None
    <3> DEFINE b == baseClass[u]
    <3>1. b \in Usr /\ b \in Names /\ b < u /\ b <= n /\ Elems(Edges(u)) = {b} /\ b \in Elems(Edges(u))
      <4>1. b \in Usr /\ b < u /\ u \in Nat
        BY <2>1, <2>4, BaseBelow
      <4> QED BY <4>1, <2>2, <2>4, LastFacts
    <3> HIDE DEF b
    <3>2. CASE b \notin records
      <4>1. Before(u) = <<b>>
        BY <2>4, <3>2 DEF Before, b
      <4>2. <<b>> \in Seq(Usr) /\ Elems(<<b>>) = {b} /\ DOMAIN <<b>> = {1} /\ <<b>>[1] = b
        BY <3>1 DEF Elems
      <4>3. Edges(b) = <<>> /\ Elems(Edges(b)) = {}
        BY <3>2, NoElems DEF Edges
      <4>4. InOrder(<<b>>) /\ Once(<<b>>)
        BY <4>2, <4>3 DEF InOrder, Once
      <4> QED BY <4>1, <4>2, <4>4, <3>1 DEF Prefix
    <3>3. CASE b \in records
      <4>1. Prefix(Before(b), b) /\ Before(b) \in Seq(Usr)
        BY <3>1, <3>3, <1>2 DEF Prefix
      <4>2. Before(u) = Append(Before(b), b)
        <5>1. Line(b) = Append(Before(b), b)
          BY <4>1, <3>3, LineIs
        <5> QED BY <5>1, <2>4, <3>3 DEF Before, b
      <4>3. /\ Elems(Before(u)) = Elems(Before(b)) \cup {b}
            /\ InOrder(Before(u)) /\ Once(Before(u))
        <5> DEFINE list == Before(b)
        <5>1. Prefix(list, b) /\ b \in Names /\ Before(u) = Append(list, b)
          BY <4>1, <4>2, <3>1
        <5> HIDE DEF Names, list
        <5>2. Elems(Append(list, b)) = Elems(list) \cup {b} /\ InOrder(Append(list, b)) /\ Once(Append(list, b))
          BY <5>1, Grown
        <5> QED BY <5>1, <5>2 DEF list
      <4>4. Before(u) \in Seq(Usr)
        <5> HIDE DEF Usr
        <5> QED BY <4>1, <4>2, <3>1
      <4>5. ASSUME NEW e \in Elems(Before(u))
            PROVE  e < u
        <5>1. CASE e = b
          BY <5>1, <3>1
        <5>2. CASE e \in Elems(Before(b))
          <6>1. e < b
            BY <5>2, <4>1 DEF Prefix
          <6>2. e \in Usr
            BY <5>2, <4>1, ElemsFacts
          <6> QED BY <6>1, <6>2, <3>1
        <5> QED BY <5>1, <5>2, <4>3
      <4>6. ASSUME NEW set \in SUBSET Usr, Closed(set), Elems(Edges(u)) \subseteq set
            PROVE  Elems(Before(u)) \subseteq set
        <5>1. b \in set /\ Elems(Edges(b)) \subseteq set
          BY <4>6, <3>1 DEF Closed
        <5>2. Elems(Before(b)) \subseteq set
          BY <5>1, <4>1, <4>6 DEF Prefix
        <5> QED BY <5>1, <5>2, <4>3
      <4>7. Elems(Edges(u)) \subseteq Elems(Before(u))
        BY <3>1, <4>3
      <4> HIDE DEF Usr, Names
      <4> QED BY <4>3, <4>4, <4>5, <4>6, <4>7 DEF Prefix
    <3> QED BY <3>2, <3>3
  <2> QED BY <2>3, <2>4
<1>3. \A n \in Nat : n \in T
  <2> HIDE DEF T
  <2> QED BY <1>1, <1>2, Climb!Induction
<1>4. \A u \in records : u \in Nat /\ u <= u
  BY PrintedFacts
<1> QED BY <1>3, <1>4

(* The line of u, whole.                                                   *)
LEMMA LineFacts ==
  ASSUME SuperInv, Printed, NEW u \in records
  PROVE  /\ u \in Names /\ Prefix(Before(u), u) /\ Before(u) \in Seq(Usr) /\ Line(u) = Append(Before(u), u)
         /\ Line(u) \in Seq(Names) /\ DOMAIN Line(u) = 1 .. Len(Line(u)) /\ Len(Line(u)) = Len(Before(u)) + 1
         /\ Len(Before(u)) \in Nat
         /\ Elems(Line(u)) = Elems(Before(u)) \cup {u}
         /\ InOrder(Line(u)) /\ Once(Line(u))
         /\ \A k \in DOMAIN Line(u) : Line(u)[k] = u <=> k = Len(Line(u))
<1>1. u \in Names /\ Prefix(Before(u), u) /\ Before(u) \in Seq(Usr)
  BY Prefixes, PrintedFacts DEF Prefix
<1>2. Line(u) = Append(Before(u), u)
  BY <1>1, LineIs
<1>3. /\ Line(u) \in Seq(Names) /\ Len(Before(u)) \in Nat /\ Len(Line(u)) = Len(Before(u)) + 1
      /\ Line(u)[Len(Before(u)) + 1] = u
      /\ Elems(Line(u)) = Elems(Before(u)) \cup {u}
      /\ InOrder(Line(u)) /\ Once(Line(u))
      /\ \A k \in DOMAIN Line(u) : Line(u)[k] = u => k = Len(Before(u)) + 1
  BY <1>1, <1>2, Grown
<1>4. DOMAIN Line(u) = 1 .. Len(Line(u))
  <2> HIDE DEF Names
  <2> QED BY <1>3
<1> QED BY <1>1, <1>2, <1>3, <1>4

-----------------------------------------------------------------------------
(* C++: what u derives from is the least closed set that holds u. *)
LEMMA OnKnown ==
  ASSUME SuperInv, NEW u \in Usr
  PROVE  Ancestors[u] = {u} \cup UNION {Ancestors[b] : b \in Elems(Edges(u))}
<1>1. Shape /\ BasesKept /\ Composed
  BY DEF SuperInv, MixinInv, Decision, Shape
<1>2. Ancestors[u] = {u} \cup (IF u \in module.known THEN UNION {Ancestors[b] : b \in Elems(module.bases[u])} ELSE {})
  BY <1>1, AncestorsValue
<1>3. CASE u \in module.known
  <2>1. Elems(Edges(u)) = Elems(module.bases[u])
    BY <1>1, <1>3 DEF BasesKept
  <2> QED BY <2>1, <1>2, <1>3
<1>4. CASE u \notin module.known
  <2>1. u \notin records
    BY <1>1, <1>4 DEF Composed
  <2>2. Elems(Edges(u)) = {}
    BY <2>1, NoElems DEF Edges
  <2> QED BY <2>2, <1>2, <1>4
<1> QED BY <1>3, <1>4

LEMMA AncestorsFacts ==
  ASSUME SuperInv
  PROVE  \A u \in Usr :
           /\ u \in Ancestors[u] /\ Ancestors[u] \subseteq Usr /\ Closed(Ancestors[u])
           /\ \A set : Closed(set) /\ u \in set => Ancestors[u] \subseteq set
<1> DEFINE Least(u) == /\ u \in Ancestors[u] /\ Ancestors[u] \subseteq Usr /\ Closed(Ancestors[u])
                       /\ \A set : Closed(set) /\ u \in set => Ancestors[u] \subseteq set
           T == {n \in Nat : \A u \in Usr : u <= n => Least(u)}
<1>1. 0 \in T
  <2>1. \A u \in Usr : ~(u <= 0)
    BY LastFacts
  <2> HIDE DEF Least
  <2> QED BY <2>1
<1>2. ASSUME NEW n \in Nat, n \in T
      PROVE  n + 1 \in T
  <2> SUFFICES ASSUME NEW u \in Usr, u = n + 1
               PROVE  Least(u)
    <3>1. \A u \in Usr : u \in Nat /\ (u <= n + 1 => u <= n \/ u = n + 1)
      BY LastFacts
    <3> HIDE DEF Least
    <3> QED BY <3>1, <1>2
  <2>1. \A b \in Elems(Edges(u)) : b \in Usr /\ b <= n
    <3>1. \A b \in Elems(Edges(u)) : b \in Usr /\ b < u
      BY LastFacts, EdgesFacts DEF SuperInv, MixinInv, Decision, Shape
    <3> QED BY <3>1
  <2>2. \A b \in Elems(Edges(u)) : Least(b)
    <3> HIDE DEF Least
    <3> QED BY <2>1, <1>2
  <2>3. Ancestors[u] = {u} \cup UNION {Ancestors[b] : b \in Elems(Edges(u))}
    BY OnKnown
  <2> HIDE DEF T
  <2>4. u \in Ancestors[u]
    BY <2>3
  <2>5. Ancestors[u] \subseteq Usr
    BY <2>2, <2>3
  <2>6. \A b \in Elems(Edges(u)) : Ancestors[b] \subseteq Ancestors[u] /\ b \in Ancestors[u]
    BY <2>2, <2>3
  <2>7. Closed(Ancestors[u])
    <3> SUFFICES ASSUME NEW w \in Ancestors[u]
                 PROVE  Elems(Edges(w)) \subseteq Ancestors[u]
      BY DEF Closed
    <3>1. CASE w = u
      BY <3>1, <2>6
    <3>2. ASSUME NEW b \in Elems(Edges(u)), w \in Ancestors[b]
          PROVE  Elems(Edges(w)) \subseteq Ancestors[u]
      <4>1. Elems(Edges(w)) \subseteq Ancestors[b]
        BY <3>2, <2>2 DEF Closed
      <4> QED BY <4>1, <2>6
    <3> QED BY <3>1, <3>2, <2>3
  <2>8. ASSUME NEW set, Closed(set), u \in set
        PROVE  Ancestors[u] \subseteq set
    <3>1. Elems(Edges(u)) \subseteq set
      BY <2>8 DEF Closed
    <3>2. \A b \in Elems(Edges(u)) : Ancestors[b] \subseteq set
      BY <3>1, <2>2, <2>8
    <3> QED BY <3>2, <2>3, <2>8
  <2> QED BY <2>4, <2>5, <2>7, <2>8
<1>3. \A n \in Nat : n \in T
  <2> HIDE DEF T
  <2> QED BY <1>1, <1>2, Climb!Induction
<1>4. \A u \in Usr : u \in Nat /\ u <= u
  BY LastFacts
<1>5. \A u \in Usr : Least(u)
  <2> HIDE DEF Least
  <2> QED BY <1>3, <1>4
<1> QED BY <1>5

(* Dart stacks an object from what the C++ object derives from.            *)
LEMMA LineIsAncestors ==
  ASSUME SuperInv, Printed, NEW u \in records \cap Usr
  PROVE  Elems(Line(u)) = Ancestors[u]
<1>1. /\ Prefix(Before(u), u) /\ Elems(Line(u)) = Elems(Before(u)) \cup {u} /\ InOrder(Line(u))
      /\ DOMAIN Line(u) = 1 .. Len(Line(u)) /\ Len(Line(u)) \in Nat
  BY LineFacts
<1>2. /\ u \in Ancestors[u] /\ Ancestors[u] \subseteq Usr /\ Closed(Ancestors[u])
      /\ \A set : Closed(set) /\ u \in set => Ancestors[u] \subseteq set
  BY AncestorsFacts
<1>3. Closed(Elems(Line(u)))
  <2> SUFFICES ASSUME NEW w \in Elems(Line(u)), NEW b \in Elems(Edges(w))
               PROVE  b \in Elems(Line(u))
    BY DEF Closed
  <2>1. PICK k \in DOMAIN Line(u) : Line(u)[k] = w
    BY DEF Elems
  <2>2. PICK j \in 1 .. k - 1 : Line(u)[j] = b
    BY <2>1, <1>1 DEF InOrder
  <2>3. j \in DOMAIN Line(u)
    BY <2>1, <1>1
  <2> QED BY <2>2, <2>3 DEF Elems
<1>4. Ancestors[u] \subseteq Elems(Line(u))
  BY <1>1, <1>2, <1>3
<1>5. Elems(Before(u)) \subseteq Ancestors[u]
  <2>1. Elems(Edges(u)) \subseteq Ancestors[u]
    BY <1>2 DEF Closed
  <2> QED BY <2>1, <1>1, <1>2 DEF Prefix
<1> QED BY <1>1, <1>2, <1>4, <1>5

-----------------------------------------------------------------------------
LEMMA LastIsTheOverrider == SuperInv => OverridersAgree
<1> SUFFICES ASSUME SuperInv, Printed, NEW declarers \in SUBSET module.known, NEW u \in module.known, IsClass(u),
                    NEW f \in Overriders(u, declarers)
             PROVE  LastIn(Line(u), declarers) = f
  BY DEF OverridersAgree, Line
<1>1. u \in records \cap Usr
  BY ModuleFacts DEF IsClass, SuperInv, MixinInv, Decision, Shape, MixinTypeOK
<1>2. /\ Line(u) \in Seq(Names) /\ DOMAIN Line(u) = 1 .. Len(Line(u)) /\ Len(Line(u)) \in Nat
      /\ InOrder(Line(u)) /\ Once(Line(u))
  BY <1>1, LineFacts
<1>3. Elems(Line(u)) = Ancestors[u] /\ Ancestors[u] \subseteq Usr
  BY <1>1, LineIsAncestors, AncestorsFacts
<1>4. f \in Ancestors[u] /\ f \in declarers /\ Ancestors[u] \cap declarers \subseteq Ancestors[f] /\ f \in Usr
  BY <1>3 DEF Overriders
<1> DEFINE line == Line(u)
<1> HIDE DEF line
<1>5. PICK i \in DOMAIN line : line[i] = f
  BY <1>3, <1>4 DEF Elems, line
<1> DEFINE under == {line[j] : j \in 1 .. i}
<1>6. Closed(under)
  <2> SUFFICES ASSUME NEW j \in 1 .. i, NEW b \in Elems(Edges(line[j]))
               PROVE  b \in under
    BY DEF Closed
  <2>1. j \in DOMAIN line
    BY <1>2, <1>5 DEF line
  <2>2. PICK h \in 1 .. j - 1 : line[h] = b
    BY <2>1, <1>2 DEF InOrder, line
  <2>3. h \in 1 .. i
    BY <2>1, <1>2, <1>5 DEF line
  <2> QED BY <2>2, <2>3
<1>7. Ancestors[f] \subseteq under
  <2>1. f \in under
    BY <1>2, <1>5 DEF line
  <2> HIDE DEF under
  <2> QED BY <2>1, <1>4, <1>6, AncestorsFacts
<1>8. ASSUME NEW k \in DOMAIN line, line[k] \in declarers
      PROVE  k <= i
  <2>1. line[k] \in Ancestors[f]
    BY <1>3, <1>4, <1>8 DEF Elems, line
  <2>2. PICK j \in 1 .. i : line[k] = line[j]
    BY <2>1, <1>7
  <2>3. j \in DOMAIN line
    BY <1>2, <1>5 DEF line
  <2>4. k = j
    BY <2>2, <2>3, <1>2 DEF Once, line
  <2> QED BY <2>4
<1>9. LastIn(line, declarers) = line[i]
  <2>1. line \in Seq(Names)
    BY <1>2 DEF line
  <2> HIDE DEF Names
  <2> QED BY <2>1, <1>4, <1>5, <1>8, LastInFacts
<1> QED BY <1>5, <1>9 DEF line

(* The walk up the extends chain of super_target meets what stands last in *)
(* the line.                                                               *)
LEMMA ChainFollowsLine ==
  ASSUME SuperInv, Printed, NEW declarers \in SUBSET records
  PROVE  \A u \in records :
           /\ ExtendsChain(u) \in Seq(Usr)
           /\ Nearest(<<u>> \o ExtendsChain(u), declarers) # None
                => LastIn(Line(u), declarers) = Nearest(<<u>> \o ExtendsChain(u), declarers)
<1> DEFINE Agrees(u) ==
             /\ ExtendsChain(u) \in Seq(Usr)
             /\ Nearest(<<u>> \o ExtendsChain(u), declarers) # None
                  => LastIn(Line(u), declarers) = Nearest(<<u>> \o ExtendsChain(u), declarers)
           T == {n \in Nat : \A u \in records : u <= n => Agrees(u)}
<1>1. 0 \in T
  <2>1. \A u \in records : ~(u <= 0)
    BY PrintedFacts
  <2> HIDE DEF Agrees
  <2> QED BY <2>1
<1>2. ASSUME NEW n \in Nat, n \in T
      PROVE  n + 1 \in T
  <2> SUFFICES ASSUME NEW u \in records, u = n + 1
               PROVE  Agrees(u)
    <3>1. \A u \in records : u \in Nat /\ (u <= n + 1 => u <= n \/ u = n + 1)
      BY PrintedFacts
    <3> HIDE DEF Agrees
    <3> QED BY <3>1, <1>2
  <2>1. Shape /\ u \in Names /\ Line(u) = Append(Before(u), u) /\ Before(u) \in Seq(Usr)
    BY PrintedFacts, LineFacts
  <2>2. ExtendsChain(u) = IF baseClass[u] = None THEN <<>>
                          ELSE <<baseClass[u]>> \o (IF baseClass[u] \in records THEN ExtendsChain(baseClass[u]) ELSE <<>>)
    BY <2>1, ChainValue
  <2>3. /\ ExtendsChain(u) \in Seq(Usr)
        /\ Nearest(ExtendsChain(u), declarers) # None
             => LastIn(Before(u), declarers) = Nearest(ExtendsChain(u), declarers)
    <3>1. CASE baseClass[u] = None
      <4>1. ExtendsChain(u) = <<>>
        BY <2>2, <3>1
      <4>2. <<>> \in Seq(Usr) /\ Nearest(<<>>, declarers) = None
        <5> HIDE DEF Usr, None
        <5> QED BY EmptyLast
      <4> QED BY <4>1, <4>2
    <3>2. CASE baseClass[u] # None
      <4> DEFINE b == baseClass[u]
      <4>1. b \in Usr /\ b <= n
        <5>1. b \in Usr \cup {None} /\ b \in 1 .. u - 1
          BY <2>1, <3>2, PrintedFacts, BaseBelow
        <5> QED BY <5>1, <3>2
      <4>2. CASE b \notin records
        <5>1. ExtendsChain(u) = <<b>> \o <<>>
          BY <2>2, <3>2, <4>2
        <5>2. <<>> \in Seq(Usr) /\ <<b>> \o <<>> \in Seq(Usr) /\ b \notin declarers
          BY <4>1, <4>2
        <5> HIDE DEF Usr, b
        <5>3. Nearest(<<b>> \o <<>>, declarers) = None
          BY <5>2, <4>1, NearestOf, EmptyLast
        <5> QED BY <5>1, <5>2, <5>3
      <4>3. CASE b \in records
        <5>1. ExtendsChain(u) = <<b>> \o ExtendsChain(b)
          BY <2>2, <3>2, <4>3
        <5>2. Agrees(b)
          <6> HIDE DEF Agrees, b
          <6> QED BY <4>1, <4>3, <1>2
        <5>3. Before(u) = Line(b)
          BY <3>2, <4>3 DEF Before
        <5> HIDE DEF b, Usr
        <5>4. <<b>> \o ExtendsChain(b) \in Seq(Usr)
          BY <5>2, <4>1, Prepended
        <5> QED BY <5>1, <5>2, <5>3, <5>4
      <4> QED BY <4>2, <4>3
    <3> QED BY <3>1, <3>2
  <2>4. Before(u) \in Seq(Names) /\ ExtendsChain(u) \in Seq(Names)
    <3>1. Usr \subseteq Names
      BY LastFacts
    <3> HIDE DEF Usr, Names
    <3>2. \A list \in Seq(Usr) : \A k \in DOMAIN list : list[k] \in Names
      BY <3>1, ElemsFacts
    <3> QED BY <3>2, <2>1, <2>3, Among
  <2>5. /\ Nearest(<<u>> \o ExtendsChain(u), declarers) = IF u \in declarers THEN u ELSE Nearest(ExtendsChain(u), declarers)
        /\ LastIn(Line(u), declarers) = IF u \in declarers THEN u ELSE LastIn(Before(u), declarers)
    <3> DEFINE s == Before(u)
               up == ExtendsChain(u)
    <3>1. s \in Seq(Names) /\ up \in Seq(Names) /\ u \in Names
      BY <2>1, <2>4
    <3> HIDE DEF Names, s, up
    <3>2. Nearest(<<u>> \o up, declarers) = IF u \in declarers THEN u ELSE Nearest(up, declarers)
      BY <3>1, NearestOf
    <3>3. LastIn(Append(s, u), declarers) = IF u \in declarers THEN u ELSE LastIn(s, declarers)
      BY <3>1, LastInAppend
    <3> QED BY <3>2, <3>3, <2>1 DEF s, up
  <2> HIDE DEF Usr, Names
  <2> QED BY <2>3, <2>5
<1>3. \A n \in Nat : n \in T
  <2> HIDE DEF T
  <2> QED BY <1>1, <1>2, Climb!Induction
<1>4. \A u \in records : u \in Nat /\ u <= u
  BY PrintedFacts
<1>5. \A u \in records : Agrees(u)
  <2> HIDE DEF Agrees
  <2> QED BY <1>3, <1>4
<1> QED BY <1>5

\* What stands before the last of a list.
LEMMA WithoutLast ==
  ASSUME NEW S, NEW s \in Seq(S), NEW x \in S
  PROVE  SubSeq(Append(s, x), 1, Len(s)) = s
<1> DEFINE r == Append(s, x)
<1>1. r \in Seq(S) /\ Len(s) \in Nat /\ Len(r) = Len(s) + 1 /\ \A k \in 1 .. Len(s) : r[k] = s[k]
  BY Pushed
<1> HIDE DEF r
<1>2. s = [k \in 1 .. Len(s) |-> s[k]]
  BY <1>1
<1>3. SubSeq(r, 1, Len(s)) = [k \in 1 .. Len(s) |-> r[k]]
  BY <1>1
<1> QED BY <1>1, <1>2, <1>3 DEF r

LEMMA SupersReached == SuperInv => ClassSupersAgree
<1> SUFFICES ASSUME SuperInv, Printed, NEW declarers \in SUBSET records, NEW u \in records, NEW named \in declarers,
                    KeptAsSuper(u, named, declarers)
             PROVE  DartSuper(u, u, declarers) = named
  BY DEF ClassSupersAgree
<1>1. /\ Shape /\ u \in Names /\ named \in Names /\ named # None
      /\ chains[u] \in Seq(Usr) /\ baseClass[u] \in Usr \cup {None}
  <2>1. named \in Names
    BY PrintedFacts
  <2> QED BY <2>1, PrintedFacts
<1>2. /\ Before(u) \in Seq(Usr) /\ Line(u) = Append(Before(u), u)
      /\ DOMAIN Line(u) = 1 .. Len(Line(u)) /\ Len(Line(u)) = Len(Before(u)) + 1 /\ Len(Before(u)) \in Nat
      /\ \A k \in DOMAIN Line(u) : Line(u)[k] = u <=> k = Len(Line(u))
  BY LineFacts
<1>3. DartSuper(u, u, declarers) = LastIn(Before(u), declarers)
  <2>1. DartSuper(u, u, declarers) = LastIn(SubSeq(Line(u), 1, (CHOOSE k \in DOMAIN Line(u) : Line(u)[k] = u) - 1), declarers)
    BY DEF DartSuper, Line
  <2> DEFINE line == Line(u)
             n == Len(Before(u))
  <2>2. n + 1 \in DOMAIN line /\ \A k \in DOMAIN line : line[k] = u <=> k = n + 1
    BY <1>2
  <2> HIDE DEF line, n
  <2>3. (CHOOSE k \in DOMAIN line : line[k] = u) = n + 1
    BY <2>2
  <2>4. n \in Nat /\ (n + 1) - 1 = n
    BY <1>2 DEF n
  <2>5. SubSeq(line, 1, n) = Before(u)
    <3> DEFINE s == Before(u)
    <3>1. s \in Seq(Names)
      <4>1. Usr \subseteq Names /\ s \in Seq(Usr)
        BY <1>2, LastFacts
      <4> HIDE DEF Usr, Names, s
      <4>2. \A k \in DOMAIN s : s[k] \in Names
        BY <4>1, ElemsFacts
      <4> QED BY <4>1, <4>2, Among
    <3>2. SubSeq(Append(s, u), 1, Len(s)) = s
      <4> HIDE DEF s, Names
      <4> QED BY <3>1, <1>1, WithoutLast
    <3> QED BY <3>2, <1>2 DEF line, n
  <2> QED BY <2>1, <2>3, <2>4, <2>5 DEF line
<1>4. named = IF LastIn(chains[u], declarers) # None THEN LastIn(chains[u], declarers) ELSE Nearest(ExtendsChain(u), declarers)
  BY DEF KeptAsSuper, SuperTarget
<1>5. ExtendsChain(u) = IF baseClass[u] = None THEN <<>>
                        ELSE <<baseClass[u]>> \o (IF baseClass[u] \in records THEN ExtendsChain(baseClass[u]) ELSE <<>>)
  BY <1>1, ChainValue
<1>6. CASE baseClass[u] = None
  <2>1. Before(u) = chains[u] /\ ExtendsChain(u) = <<>>
    BY <1>5, <1>6 DEF Before
  <2>2. Nearest(ExtendsChain(u), declarers) = None
    BY <2>1, EmptyLast
  <2> QED BY <2>1, <2>2, <1>1, <1>3, <1>4
<1>7. CASE baseClass[u] # None
  <2> DEFINE b == baseClass[u]
  <2>1. LastIn(chains[u], declarers) = None
    <3>1. chains[u] = <<>>
      BY <1>7, EitherOr
    <3> QED BY <3>1, EmptyLast
  <2>2. named = Nearest(ExtendsChain(u), declarers)
    BY <2>1, <1>4
  <2>3. CASE b \in records
    <3>1. Before(u) = Line(b) /\ ExtendsChain(u) = <<b>> \o ExtendsChain(b)
      BY <1>5, <1>7, <2>3 DEF Before
    <3>2. Nearest(<<b>> \o ExtendsChain(b), declarers) # None
            => LastIn(Line(b), declarers) = Nearest(<<b>> \o ExtendsChain(b), declarers)
      BY <2>3, ChainFollowsLine
    <3> QED BY <3>1, <3>2, <2>2, <1>1, <1>3
  <2>4. CASE b \notin records
    <3>1. ExtendsChain(u) = <<b>> \o <<>> /\ b \in Usr /\ <<>> \in Seq(Usr) /\ b \notin declarers
      BY <1>1, <1>5, <1>7, <2>4
    <3>2. Nearest(<<b>> \o <<>>, declarers) = None
      <4> HIDE DEF Usr, b
      <4> QED BY <3>1, NearestOf, EmptyLast
    <3> QED BY <3>1, <3>2, <2>2, <1>1
  <2> QED BY <2>3, <2>4
<1> QED BY <1>6, <1>7

LEMMA CopiesWhole == SuperInv => CopiesAreWhole
<1> SUFFICES ASSUME SuperInv, Printed, NEW privates
             PROVE  \A u \in Copyable(privates) : Elems(Line(u)) \subseteq Copied[u] /\ (u \in Usr => Ancestors[u] \subseteq Copied[u])
  BY DEF CopiesAreWhole, Line
<1>1. Shape
  BY DEF SuperInv, MixinInv, Decision
<1> DEFINE T == {n \in Nat : \A u \in Copyable(privates) : u <= n => Elems(Line(u)) \subseteq Copied[u]}
<1>2. \A u \in Copyable(privates) : u \in records /\ u \in Names /\ u \in Nat /\ u >= 1
  BY <1>1, CopyableValue, LastFacts
<1>3. 0 \in T
  <2>1. \A u \in Copyable(privates) : ~(u <= 0)
    BY <1>2
  <2> QED BY <2>1
<1>4. ASSUME NEW n \in Nat, n \in T
      PROVE  n + 1 \in T
  <2> SUFFICES ASSUME NEW u \in Copyable(privates), u = n + 1
               PROVE  Elems(Line(u)) \subseteq Copied[u]
    <3>1. \A u \in Copyable(privates) : (u <= n + 1 => u <= n \/ u = n + 1)
      BY <1>2
    <3> QED BY <3>1, <1>4
  <2>1. /\ u \in records /\ u \in Names
        /\ baseClass[u] # None => baseClass[u] \in records /\ baseClass[u] \in Copyable(privates)
        /\ \A m \in WithOnly(u) : m \in records
    BY <1>1, CopyableValue
  <2>2. Copied[u] = {u} \cup (WithOnly(u) \cap records)
                    \cup (IF baseClass[u] = None \/ baseClass[u] \notin records THEN {} ELSE Copied[baseClass[u]])
    BY <1>1, <2>1, CopiedValue
  <2>3. Elems(Line(u)) = Elems(Before(u)) \cup {u}
    BY <2>1, LineFacts
  <2>4. CASE baseClass[u] = None
    <3>1. Before(u) = chains[u]
      BY <2>4 DEF Before
    <3>2. Elems(ExtendsChain(u)) = {}
      <4>1. ExtendsChain(u) = <<>>
        BY <1>1, <2>1, <2>4, ChainValue
      <4> QED BY <4>1, NoElems
    <3>3. WithOnly(u) = Elems(chains[u])
      BY <3>2 DEF WithOnly
    <3> QED BY <3>1, <3>3, <2>1, <2>2, <2>3
  <2>5. CASE baseClass[u] # None
    <3>1. baseClass[u] <= n /\ Before(u) = Line(baseClass[u])
      BY <1>1, <2>1, <2>5, BaseBelow DEF Before
    <3>2. Elems(Line(baseClass[u])) \subseteq Copied[baseClass[u]]
      BY <3>1, <2>1, <2>5, <1>4
    <3> QED BY <3>1, <3>2, <2>1, <2>2, <2>3, <2>5
  <2> QED BY <2>4, <2>5
<1>5. \A n \in Nat : n \in T
  <2> HIDE DEF T
  <2> QED BY <1>3, <1>4, Climb!Induction
<1>6. ASSUME NEW u \in Copyable(privates)
      PROVE  Elems(Line(u)) \subseteq Copied[u]
  <2>1. u \in Nat /\ u <= u
    BY <1>2
  <2> QED BY <2>1, <1>5
<1>7. ASSUME NEW u \in Copyable(privates), u \in Usr
      PROVE  Ancestors[u] \subseteq Copied[u]
  <2>1. Elems(Line(u)) = Ancestors[u]
    BY <1>2, <1>7, LineIsAncestors
  <2> QED BY <2>1, <1>6
<1> QED BY <1>6, <1>7

(* Once everything is printed, the method an object runs in Dart is the    *)
(* one C++ runs, a kept super call reaches the base it names, and a copy   *)
(* carries over every base: whatever derives from what.                    *)
THEOREM ObjectsAgreeAlways == MixinSpec => []ObjectsAgree
<1>1. SuperInv => ObjectsAgree
  BY LastIsTheOverrider, SupersReached, CopiesWhole DEF ObjectsAgree
<1> QED BY <1>1, SuperAlways, PTL
=============================================================================
