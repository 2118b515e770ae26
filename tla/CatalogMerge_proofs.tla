------------------------- MODULE CatalogMerge_proofs -------------------------
(***************************************************************************)
(* What the merged catalogs hold, for every program and every schedule.    *)
(*                                                                         *)
(* Which declarations, bodies, members, types and edges a worker has is    *)
(* decided by the set of units it has read, whatever their order (Read),   *)
(* and merging adds such sets up.  Each loop has a lemma about one turn    *)
(* and a lemma about the loop.  The last part is the converse: a worker    *)
(* has nothing else (Noted).  CatalogSchedule_proofs rests on that, and on *)
(* the lemmas about the names made up for overloads and classes.           *)
(***************************************************************************)
EXTENDS CatalogMerge, FiniteSetTheorems, TLAPS

-----------------------------------------------------------------------------
(* Lists that are searched by usr.                                         *)
List(s) ==
  /\ s \in Seq(ToSet(s))
  /\ \A i, j \in DOMAIN s : s[i].usr = s[j].usr => i = j

LEMMA Positions ==
  ASSUME NEW s, s \in Seq(ToSet(s))
  PROVE  /\ Len(s) \in Nat /\ DOMAIN s = 1 .. Len(s) /\ 0 \notin DOMAIN s
         /\ \A e : e \in ToSet(s) <=> \E i \in DOMAIN s : e = s[i]
BY DEF ToSet

\* A pass over a list.
LEMMA Mapped ==
  ASSUME NEW s, s \in Seq(ToSet(s)), NEW r, DOMAIN r = DOMAIN s, r = [i \in DOMAIN s |-> r[i]]
  PROVE  r \in Seq(ToSet(r))
<1>1. DOMAIN s = 1 .. Len(s) /\ Len(s) \in Nat
  OBVIOUS
<1>2. \A i \in 1 .. Len(s) : r[i] \in ToSet(r)
  BY <1>1 DEF ToSet
<1> DEFINE n == Len(s)
           R == ToSet(r)
<1>3. r = [i \in 1 .. n |-> r[i]] /\ n \in Nat /\ \A i \in 1 .. n : r[i] \in R
  BY <1>1, <1>2
<1> HIDE DEF n, R
<1>4. r \in [1 .. n -> R]
  BY <1>3
<1>5. r \in Seq(R)
  BY <1>3, <1>4
<1>6. QED
  BY <1>5 DEF R

LEMMA EmptyList == List(<<>>) /\ ToSet(<<>>) = {}
<1>1. ToSet(<<>>) = {} /\ <<>> \in Seq({}) /\ DOMAIN <<>> = {}
  BY DEF ToSet
<1>2. QED
  BY <1>1 DEF List

LEMMA Appended ==
  ASSUME NEW s, NEW x, s \in Seq(ToSet(s))
  PROVE  /\ Append(s, x) \in Seq(ToSet(Append(s, x)))
         /\ ToSet(Append(s, x)) = ToSet(s) \cup {x}
<1> DEFINE r == Append(s, x)
           S == ToSet(s) \cup {x}
           n == Len(s)
<1>1. /\ n \in Nat /\ r \in Seq(S) /\ DOMAIN r = 1 .. n + 1
      /\ r[n + 1] = x /\ \A i \in 1 .. n : r[i] = s[i]
  <2>1. s \in Seq(S) /\ x \in S
    OBVIOUS
  <2>2. QED
    BY <2>1
<1>2. DOMAIN s = 1 .. n
  OBVIOUS
<1> HIDE DEF r
<1>3. ToSet(r) = S
  <2>1. \A i \in 1 .. n + 1 : i \in 1 .. n \/ i = n + 1
    BY <1>1
  <2>2. n + 1 \in 1 .. n + 1 /\ \A i \in 1 .. n : i \in 1 .. n + 1
    BY <1>1
  <2>3. QED
    BY <1>1, <1>2, <2>1, <2>2 DEF ToSet
<1>4. r \in Seq(ToSet(r)) /\ ToSet(r) = S
  BY <1>1, <1>3
<1>5. QED
  BY <1>4 DEF r

\* An entry nobody has yet goes to the end.
LEMMA AppendNew ==
  ASSUME NEW s, NEW x, List(s), \A e \in ToSet(s) : e.usr # x.usr
  PROVE  List(Append(s, x)) /\ ToSet(Append(s, x)) = ToSet(s) \cup {x}
<1> DEFINE r == Append(s, x)
           n == Len(s)
<1>1. r \in Seq(ToSet(r)) /\ ToSet(r) = ToSet(s) \cup {x}
  BY Appended DEF List
<1>2. /\ n \in Nat /\ DOMAIN s = 1 .. n /\ DOMAIN r = 1 .. n + 1
      /\ r[n + 1] = x /\ \A i \in 1 .. n : r[i] = s[i] /\ s[i].usr # x.usr
  BY Positions DEF List
<1> HIDE DEF r
<1>3. ASSUME NEW i \in DOMAIN r, NEW j \in DOMAIN r, r[i].usr = r[j].usr
      PROVE  i = j
  <2>1. (i \in 1 .. n \/ i = n + 1) /\ (j \in 1 .. n \/ j = n + 1)
    BY <1>2
  <2>2. \A k, m \in 1 .. n : s[k].usr = s[m].usr => k = m
    BY <1>2 DEF List
  <2>3. QED
    BY <1>2, <1>3, <2>1, <2>2
<1>4. List(r) /\ ToSet(r) = ToSet(s) \cup {x}
  BY <1>1, <1>3 DEF List
<1>5. QED
  BY <1>4 DEF r

\* An entry takes the place of the one under its usr.
LEMMA Replaced ==
  ASSUME NEW s, NEW x, NEW i \in DOMAIN s, List(s), s[i].usr = x.usr
  PROVE  /\ List(ReplaceAt(s, i, x))
         /\ ToSet(ReplaceAt(s, i, x)) = {e \in ToSet(s) : e.usr # x.usr} \cup {x}
<1> DEFINE r == ReplaceAt(s, i, x)
           n == Len(s)
           S == ToSet(s) \cup {x}
<1>1. n \in Nat /\ DOMAIN s = 1 .. n /\ \A j \in 1 .. n : s[j] \in ToSet(s)
  BY Positions DEF List
<1>2. DOMAIN r = 1 .. n /\ r[i] = x /\ \A j \in 1 .. n : j # i => r[j] = s[j]
  BY <1>1 DEF ReplaceAt
<1>3. r \in Seq(S)
  <2>1. \A j \in 1 .. n : r[j] \in S
    BY <1>1, <1>2
  <2>2. r = [j \in 1 .. n |-> r[j]]
    BY <1>1 DEF ReplaceAt
  <2> HIDE DEF r
  <2>3. QED
    BY <1>1, <2>1, <2>2
<1> HIDE DEF r
<1>4. \A j \in 1 .. n : s[j].usr = x.usr => j = i
  BY <1>1 DEF List
<1>5. ToSet(r) = {e \in ToSet(s) : e.usr # x.usr} \cup {x}
  <2>1. ASSUME NEW e \in ToSet(r)
        PROVE  e = x \/ (e \in ToSet(s) /\ e.usr # x.usr)
    <3>1. PICK j \in 1 .. n : e = r[j]
      BY <1>2 DEF ToSet
    <3>2. QED
      BY <1>1, <1>2, <1>4, <3>1
  <2>2. ASSUME NEW e \in ToSet(s), e.usr # x.usr
        PROVE  e \in ToSet(r)
    <3>1. PICK j \in 1 .. n : e = s[j]
      BY <1>1 DEF ToSet
    <3>2. j # i
      BY <2>2, <3>1
    <3>3. QED
      BY <1>2, <3>1, <3>2 DEF ToSet
  <2>3. x \in ToSet(r)
    BY <1>1, <1>2 DEF ToSet
  <2>4. QED
    BY <2>1, <2>2, <2>3
<1>6. r \in Seq(ToSet(r))
  <2>1. \A j \in 1 .. n : r[j] \in ToSet(r)
    BY <1>2 DEF ToSet
  <2>2. QED
    BY <1>2, <1>3, <2>1
<1>7. ASSUME NEW j \in 1 .. n, NEW k \in 1 .. n, r[j].usr = r[k].usr
      PROVE  j = k
  <2>1. \A l, m \in 1 .. n : s[l].usr = s[m].usr => l = m
    BY <1>1 DEF List
  <2>2. QED
    BY <1>1, <1>2, <1>4, <1>7, <2>1
<1>8. List(r) /\ ToSet(r) = {e \in ToSet(s) : e.usr # x.usr} \cup {x}
  BY <1>2, <1>5, <1>6, <1>7 DEF List
<1>9. QED
  BY <1>8 DEF r

\* What the search finds.
LEMMA Searched ==
  ASSUME NEW s, NEW u, List(s)
  PROVE  LET i == IndexOfUsr(s, u)
         IN /\ i = 0 => \A e \in ToSet(s) : e.usr # u
            /\ i # 0 => /\ i \in DOMAIN s /\ s[i] \in ToSet(s) /\ s[i].usr = u
                        /\ \A e \in ToSet(s) : e.usr = u => e = s[i]
<1> DEFINE found == {i \in DOMAIN s : s[i].usr = u}
           i == IndexOfUsr(s, u)
<1>1. i = IF found = {} THEN 0 ELSE CHOOSE k \in found : TRUE
  BY DEF IndexOfUsr
<1>2. Len(s) \in Nat /\ DOMAIN s = 1 .. Len(s) /\ 0 \notin DOMAIN s
  BY Positions DEF List
<1>3. found # {} => i \in found
  BY <1>1
<1> HIDE DEF i
<1>4. i = 0 => \A e \in ToSet(s) : e.usr # u
  <2>1. i = 0 => found = {}
    BY <1>2, <1>3
  <2>2. QED
    BY <2>1 DEF ToSet
<1>5. i # 0 => i \in DOMAIN s /\ s[i].usr = u
  BY <1>1, <1>3
<1>6. i # 0 => s[i] \in ToSet(s) /\ \A e \in ToSet(s) : e.usr = u => e = s[i]
  BY <1>5 DEF ToSet, List
<1>7. QED
  BY <1>4, <1>5, <1>6 DEF i

-----------------------------------------------------------------------------
(* Declarations: a list made from D has a definition for what D defines.   *)
Upserted(s, D) ==
  /\ List(s)
  /\ ToSet(s) \subseteq D
  /\ \A d \in D : \E e \in ToSet(s) : e.usr = d.usr /\ (d.def => e.def)

LEMMA UpsertTurn ==
  ASSUME NEW s, NEW D, NEW d, Upserted(s, D)
  PROVE  Upserted(Upsert(s, d), D \cup {d})
<1> DEFINE i == IndexOfUsr(s, d.usr)
<1>1. /\ i = 0 => \A e \in ToSet(s) : e.usr # d.usr
      /\ i # 0 => /\ i \in DOMAIN s /\ s[i] \in ToSet(s) /\ s[i].usr = d.usr
                  /\ \A e \in ToSet(s) : e.usr = d.usr => e = s[i]
  BY Searched DEF Upserted
<1>2. Upsert(s, d) = IF i = 0 THEN Append(s, d)
                     ELSE IF d.def /\ ~s[i].def THEN ReplaceAt(s, i, d) ELSE s
  BY DEF Upsert
<1> HIDE DEF i
<1>3. CASE i = 0
  <2>1. List(Append(s, d)) /\ ToSet(Append(s, d)) = ToSet(s) \cup {d}
    BY <1>1, <1>3, AppendNew DEF Upserted
  <2>2. QED
    BY <1>2, <1>3, <2>1 DEF Upserted
<1>4. CASE i # 0 /\ d.def /\ ~s[i].def
  <2>1. /\ List(ReplaceAt(s, i, d))
        /\ ToSet(ReplaceAt(s, i, d)) = {e \in ToSet(s) : e.usr # d.usr} \cup {d}
    BY <1>1, <1>4, Replaced DEF Upserted
  <2>2. Upsert(s, d) = ReplaceAt(s, i, d)
    BY <1>2, <1>4
  <2> DEFINE r == ReplaceAt(s, i, d)
  <2> HIDE DEF r
  <2>3. ASSUME NEW f \in D \cup {d}
        PROVE  \E e \in ToSet(r) : e.usr = f.usr /\ (f.def => e.def)
    <3>1. CASE f.usr = d.usr
      BY <1>4, <2>1, <3>1 DEF r
    <3>2. CASE f.usr # d.usr
      <4>1. PICK e \in ToSet(s) : e.usr = f.usr /\ (f.def => e.def)
        BY <3>2 DEF Upserted
      <4>2. e \in ToSet(r)
        BY <2>1, <3>2, <4>1 DEF r
      <4>3. QED
        BY <4>1, <4>2
    <3>3. QED
      BY <3>1, <3>2
  <2>4. ToSet(r) \subseteq D \cup {d}
    BY <2>1 DEF r, Upserted
  <2>5. QED
    BY <2>1, <2>2, <2>3, <2>4 DEF r, Upserted
<1>5. CASE i # 0 /\ ~(d.def /\ ~s[i].def)
  <2>1. Upsert(s, d) = s
    BY <1>2, <1>5
  <2>2. s[i] \in ToSet(s) /\ s[i].usr = d.usr /\ (d.def => s[i].def)
    BY <1>1, <1>5
  <2>3. QED
    BY <2>1, <2>2 DEF Upserted
<1>6. QED
  BY <1>3, <1>4, <1>5

UpsertTurns(D, s, d) == Upsert(s, d)
UpsertHolds(D, s, X) == Upserted(s, D \cup X)
UpsertLoop == INSTANCE Folding WITH Op <- UpsertTurns, Holds <- UpsertHolds

LEMMA UpsertedAll ==
  ASSUME NEW base, NEW D, NEW s, s \in Seq(ToSet(s)), Upserted(base, D)
  PROVE  Upserted(FoldLeft(Upsert, base, s), D \cup ToSet(s))
<1>1. FoldLeft(Upsert, base, s) = UpsertLoop!Fold(D, base, s)
  BY DEF UpsertTurns, UpsertLoop!Fold, FoldLeft, MapThenFoldSet, UpsertLoop!MapThenFoldSet,
         Max, UpsertLoop!Last
<1>2. UpsertHolds(D, base, {})
  BY DEF UpsertHolds
<1>3. ASSUME NEW built, NEW X, NEW x, UpsertHolds(D, built, X)
      PROVE  UpsertHolds(D, UpsertTurns(D, built, x), X \cup {x})
  <2>1. Upserted(Upsert(built, x), (D \cup X) \cup {x})
    BY <1>3, UpsertTurn DEF UpsertHolds
  <2>2. QED
    BY <2>1 DEF UpsertHolds, UpsertTurns
<1> HIDE DEF UpsertHolds, UpsertTurns
<1>4. UpsertHolds(D, UpsertLoop!Fold(D, base, s), ToSet(s))
  BY <1>2, <1>3, UpsertLoop!Invariance DEF ToSet
<1>5. QED
  BY <1>1, <1>4 DEF UpsertHolds

MergeDeclsTurns(D, s, p) == MergeDecls(s, p)
MergeDeclsHolds(D, s, P) == Upserted(s, D \cup UNION {ToSet(p.decls) : p \in P})
MergeDeclsLoop == INSTANCE Folding WITH Op <- MergeDeclsTurns, Holds <- MergeDeclsHolds

LEMMA DeclsUpserted ==
  ASSUME NEW base, NEW D, NEW s, s \in Seq(ToSet(s)), Upserted(base, D),
         \A p \in ToSet(s) : p.decls \in Seq(ToSet(p.decls))
  PROVE  Upserted(FoldLeft(MergeDecls, base, s), D \cup UNION {ToSet(p.decls) : p \in ToSet(s)})
<1>1. FoldLeft(MergeDecls, base, s) = MergeDeclsLoop!Fold(D, base, s)
  BY DEF MergeDeclsTurns, MergeDeclsLoop!Fold, FoldLeft, MapThenFoldSet, MergeDeclsLoop!MapThenFoldSet,
         Max, MergeDeclsLoop!Last
<1>2. MergeDeclsHolds(D, base, {})
  <2>1. D \cup UNION {ToSet(p.decls) : p \in {}} = D
    OBVIOUS
  <2>2. QED
    BY <2>1 DEF MergeDeclsHolds
<1>3. ASSUME NEW built, NEW P, NEW p \in ToSet(s), MergeDeclsHolds(D, built, P)
      PROVE  MergeDeclsHolds(D, MergeDeclsTurns(D, built, p), P \cup {p})
  <2> DEFINE t == p.decls
             X == D \cup UNION {ToSet(q.decls) : q \in P}
  <2>1. t \in Seq(ToSet(t)) /\ Upserted(built, X)
    BY <1>3 DEF MergeDeclsHolds
  <2>2. D \cup UNION {ToSet(q.decls) : q \in P \cup {p}} = X \cup ToSet(t)
    OBVIOUS
  <2>3. MergeDeclsTurns(D, built, p) = FoldLeft(Upsert, built, t)
    BY DEF MergeDeclsTurns, MergeDecls
  <2> HIDE DEF t, X
  <2>4. Upserted(FoldLeft(Upsert, built, t), X \cup ToSet(t))
    BY <2>1, UpsertedAll
  <2>5. QED
    BY <2>2, <2>3, <2>4 DEF MergeDeclsHolds
<1> HIDE DEF MergeDeclsHolds, MergeDeclsTurns
<1>4. MergeDeclsHolds(D, MergeDeclsLoop!Fold(D, base, s), ToSet(s))
  BY <1>2, <1>3, MergeDeclsLoop!Invariance DEF ToSet
<1>5. QED
  BY <1>1, <1>4 DEF MergeDeclsHolds

-----------------------------------------------------------------------------
(* Lowered functions and members.                                          *)
Ir(f) ==
  /\ f = [usr |-> f.usr, name |-> f.name, def |-> f.def, dflt |-> f.dflt, calls |-> f.calls,
          enums |-> f.enums, locals |-> f.locals, teardown |-> f.teardown]
  /\ f.def \in BOOLEAN /\ f.dflt \in BOOLEAN

Irs(s) == List(s) /\ \A e \in ToSet(s) : Ir(e)

\* What r is if g is put into s under its usr.
Put(s, r, g) ==
  Irs(r) /\ Ir(g) /\ ToSet(r) = {e \in ToSet(s) : e.usr # g.usr} \cup {g}

LEMMA Defaulted ==
  ASSUME NEW f, NEW e, Ir(f), Ir(e)
  PROVE  LET g == [f EXCEPT !.dflt = @ \/ e.dflt]
         IN Ir(g) /\ g.usr = f.usr /\ g.def = f.def /\ g.dflt = (f.dflt \/ e.dflt)
BY DEF Ir

LEMMA MergedFunction ==
  ASSUME NEW s, NEW f, Irs(s), Ir(f)
  PROVE  \E g : /\ Put(s, MergeFunction(s, f), g) /\ g.usr = f.usr
                /\ (\A e \in ToSet(s) : e.usr # f.usr) => g = f
                /\ \A e \in ToSet(s) : e.usr = f.usr =>
                     /\ g.def <=> e.def \/ f.def
                     /\ g.dflt <=> e.dflt \/ ((e.def # f.def) /\ f.dflt)
<1> DEFINE i == IndexOfUsr(s, f.usr)
           r == MergeFunction(s, f)
<1>1. /\ i = 0 => \A e \in ToSet(s) : e.usr # f.usr
      /\ i # 0 => /\ i \in DOMAIN s /\ s[i] \in ToSet(s) /\ s[i].usr = f.usr
                  /\ \A e \in ToSet(s) : e.usr = f.usr => e = s[i]
  BY Searched DEF Irs
<1>2. r = IF i = 0 THEN Append(s, f)
          ELSE IF f.def /\ ~s[i].def THEN ReplaceAt(s, i, [f EXCEPT !.dflt = @ \/ s[i].dflt])
          ELSE IF ~f.def /\ s[i].def THEN ReplaceAt(s, i, [s[i] EXCEPT !.dflt = @ \/ f.dflt])
          ELSE s
  BY DEF MergeFunction
<1> HIDE DEF i, r
<1>3. CASE i = 0
  <2>1. List(Append(s, f)) /\ ToSet(Append(s, f)) = ToSet(s) \cup {f}
    BY <1>1, <1>3, AppendNew DEF Irs
  <2>2. {e \in ToSet(s) : e.usr # f.usr} = ToSet(s)
    BY <1>1, <1>3
  <2>3. Put(s, r, f)
    BY <1>2, <1>3, <2>1, <2>2 DEF Put, Irs
  <2>4. QED
    BY <1>1, <1>3, <2>3 DEF r
<1>4. CASE i # 0
  <2> DEFINE e == s[i]
  <2>1. i \in DOMAIN s /\ e \in ToSet(s) /\ e.usr = f.usr /\ \A d \in ToSet(s) : d.usr = f.usr => d = e
    BY <1>1, <1>4
  <2>2. Ir(e)
    BY <2>1 DEF Irs
  <2> DEFINE Over(g) == /\ Ir(g) /\ g.usr = f.usr /\ (g.def <=> e.def \/ f.def)
                        /\ g.dflt <=> e.dflt \/ ((e.def # f.def) /\ f.dflt)
  <2> SUFFICES \E g : Put(s, r, g) /\ Over(g)
    BY <2>1 DEF r
  <2> HIDE DEF e
  <2>3. ASSUME NEW g, Over(g), r = ReplaceAt(s, i, g)
        PROVE  Put(s, r, g)
    <3>1. s[i].usr = g.usr
      BY <2>1, <2>3 DEF e
    <3>2. List(r) /\ ToSet(r) = {d \in ToSet(s) : d.usr # g.usr} \cup {g}
      BY <2>1, <2>3, <3>1, Replaced DEF Irs
    <3>3. QED
      BY <2>3, <3>2 DEF Put, Irs
  <2>4. CASE f.def /\ ~e.def
    <3> DEFINE g == [f EXCEPT !.dflt = @ \/ e.dflt]
    <3>1. Ir(g) /\ g.usr = f.usr /\ g.def = f.def /\ g.dflt = (f.dflt \/ e.dflt)
      BY <2>2, Defaulted
    <3>2. r = ReplaceAt(s, i, g)
      BY <1>2, <1>4, <2>4 DEF e
    <3> HIDE DEF g
    <3>3. e.def = FALSE /\ f.def = TRUE
      BY <2>2, <2>4 DEF Ir
    <3>4. Over(g)
      BY <3>1, <3>3
    <3>5. QED
      BY <2>3, <3>4, <3>2
  <2>5. CASE ~f.def /\ e.def
    <3> DEFINE g == [e EXCEPT !.dflt = @ \/ f.dflt]
    <3>1. Ir(g) /\ g.usr = e.usr /\ g.def = e.def /\ g.dflt = (e.dflt \/ f.dflt)
      BY <2>2, Defaulted
    <3>2. r = ReplaceAt(s, i, g)
      BY <1>2, <1>4, <2>5 DEF e
    <3> HIDE DEF g
    <3>3. e.def = TRUE /\ f.def = FALSE
      BY <2>2, <2>5 DEF Ir
    <3>4. Over(g)
      BY <2>1, <3>1, <3>3
    <3>5. QED
      BY <2>3, <3>4, <3>2
  <2>6. CASE ~(f.def /\ ~e.def) /\ ~(~f.def /\ e.def)
    <3>1. r = s
      BY <1>2, <1>4, <2>6 DEF e
    <3>2. Over(e)
      BY <2>1, <2>2, <2>6 DEF Ir
    <3>3. ToSet(s) = {d \in ToSet(s) : d.usr # e.usr} \cup {e}
      BY <2>1
    <3>4. Put(s, r, e)
      BY <2>2, <3>1, <3>3 DEF Put
    <3>5. QED
      BY <3>2, <3>4
  <2>7. QED
    BY <2>4, <2>5, <2>6
<1>5. QED
  BY <1>3, <1>4

LEMMA MergedConstructor ==
  ASSUME NEW s, NEW f, Irs(s), Ir(f)
  PROVE  \E g : /\ Put(s, MergeConstructor(s, f), g) /\ g.usr = f.usr
                /\ (\A e \in ToSet(s) : e.usr # f.usr) => g = f
                /\ \A e \in ToSet(s) : e.usr = f.usr => g.def = e.def
<1> DEFINE i == IndexOfUsr(s, f.usr)
           r == MergeConstructor(s, f)
<1>1. /\ i = 0 => \A e \in ToSet(s) : e.usr # f.usr
      /\ i # 0 => /\ i \in DOMAIN s /\ s[i] \in ToSet(s) /\ s[i].usr = f.usr
                  /\ \A e \in ToSet(s) : e.usr = f.usr => e = s[i]
  BY Searched DEF Irs
<1>2. r = IF i = 0 THEN Append(s, f) ELSE ReplaceAt(s, i, [s[i] EXCEPT !.dflt = @ \/ f.dflt])
  BY DEF MergeConstructor
<1> HIDE DEF i, r
<1>3. CASE i = 0
  <2>1. List(Append(s, f)) /\ ToSet(Append(s, f)) = ToSet(s) \cup {f}
    BY <1>1, <1>3, AppendNew DEF Irs
  <2>2. {e \in ToSet(s) : e.usr # f.usr} = ToSet(s)
    BY <1>1, <1>3
  <2>3. Put(s, r, f)
    BY <1>2, <1>3, <2>1, <2>2 DEF Put, Irs
  <2>4. QED
    BY <1>1, <1>3, <2>3 DEF r
<1>4. CASE i # 0
  <2> DEFINE e == s[i]
             g == [e EXCEPT !.dflt = @ \/ f.dflt]
  <2>1. i \in DOMAIN s /\ e \in ToSet(s) /\ e.usr = f.usr /\ \A d \in ToSet(s) : d.usr = f.usr => d = e
    BY <1>1, <1>4
  <2>2. Ir(e)
    BY <2>1 DEF Irs
  <2>3. r = ReplaceAt(s, i, g)
    BY <1>2, <1>4
  <2> HIDE DEF e
  <2>4. Ir(g) /\ g.usr = f.usr /\ g.def = e.def
    BY <2>1, <2>2 DEF Ir
  <2> HIDE DEF g
  <2>5. s[i].usr = g.usr
    BY <2>1, <2>4 DEF e
  <2>6. List(r) /\ ToSet(r) = {d \in ToSet(s) : d.usr # g.usr} \cup {g}
    BY <2>1, <2>3, <2>5, Replaced DEF Irs
  <2>7. Put(s, r, g)
    BY <2>4, <2>6 DEF Put, Irs
  <2>8. QED
    BY <2>1, <2>4, <2>7 DEF r
<1>5. QED
  BY <1>3, <1>4

(* Free functions: a list merged from F has one entry under each usr, a    *)
(* definition if F has one; and if those of a kind agree on the default    *)
(* arguments, the entry has those anybody has.                             *)
Agreeing(F) == \A f, g \in F : f.usr = g.usr /\ f.def = g.def => f.dflt = g.dflt

Kept(s, F) ==
  /\ Irs(s)
  /\ \A e \in ToSet(s) : \E f \in F : f.usr = e.usr /\ f.def = e.def
  /\ \A f \in F : \E e \in ToSet(s) : e.usr = f.usr /\ (f.def => e.def)
  /\ Agreeing(F) => \A e \in ToSet(s) : e.dflt <=> \E f \in F : f.usr = e.usr /\ f.dflt

LEMMA KeptTurn ==
  ASSUME NEW s, NEW F, NEW f, Kept(s, F), Ir(f)
  PROVE  Kept(MergeFunction(s, f), F \cup {f})
<1> DEFINE r == MergeFunction(s, f)
           G == F \cup {f}
<1>1. PICK g : /\ Put(s, r, g) /\ g.usr = f.usr
               /\ (\A e \in ToSet(s) : e.usr # f.usr) => g = f
               /\ \A e \in ToSet(s) : e.usr = f.usr =>
                    /\ g.def <=> e.def \/ f.def
                    /\ g.dflt <=> e.dflt \/ ((e.def # f.def) /\ f.dflt)
  BY MergedFunction DEF Kept
<1> HIDE DEF r
<1>2. /\ Irs(r) /\ Ir(g) /\ g \in ToSet(r)
      /\ \A e \in ToSet(r) : e = g \/ (e \in ToSet(s) /\ e.usr # f.usr)
      /\ \A e \in ToSet(s) : e.usr # f.usr => e \in ToSet(r)
  BY <1>1 DEF Put
<1>3. \A e \in ToSet(s) : Ir(e)
  BY DEF Kept, Irs
<1>4. f.def \in BOOLEAN /\ g.def \in BOOLEAN /\ \A e \in ToSet(s) : e.def \in BOOLEAN
  BY <1>2, <1>3 DEF Ir
<1>5. \E h \in G : h.usr = g.usr /\ h.def = g.def
  <2>1. CASE \A e \in ToSet(s) : e.usr # f.usr
    BY <1>1, <2>1
  <2>2. CASE \E e \in ToSet(s) : e.usr = f.usr
    <3>1. PICK e \in ToSet(s) : e.usr = f.usr
      BY <2>2
    <3>2. PICK h \in F : h.usr = e.usr /\ h.def = e.def
      BY DEF Kept
    <3>3. g.def = e.def \/ g.def = f.def
      BY <1>1, <1>4, <3>1
    <3>4. QED
      BY <1>1, <3>1, <3>2, <3>3
  <2>3. QED
    BY <2>1, <2>2
<1>6. \A e \in ToSet(r) : \E h \in G : h.usr = e.usr /\ h.def = e.def
  BY <1>2, <1>5 DEF Kept
<1>7. ASSUME NEW h \in G
      PROVE  \E e \in ToSet(r) : e.usr = h.usr /\ (h.def => e.def)
  <2>1. CASE h = f
    <3>1. f.def => g.def
      BY <1>1
    <3>2. QED
      BY <1>1, <1>2, <2>1, <3>1
  <2>2. CASE h \in F
    <3>1. PICK e \in ToSet(s) : e.usr = h.usr /\ (h.def => e.def)
      BY <2>2 DEF Kept
    <3>2. CASE e.usr = f.usr
      BY <1>1, <1>2, <3>1, <3>2
    <3>3. CASE e.usr # f.usr
      BY <1>2, <3>1, <3>3
    <3>4. QED
      BY <3>2, <3>3
  <2>3. QED
    BY <2>1, <2>2
<1>8. ASSUME Agreeing(G), NEW e \in ToSet(r)
      PROVE  e.dflt <=> \E h \in G : h.usr = e.usr /\ h.dflt
  <2>1. \A d \in ToSet(s) : d.dflt <=> \E h \in F : h.usr = d.usr /\ h.dflt
    <3>1. Agreeing(F)
      BY <1>8 DEF Agreeing
    <3>2. QED
      BY <3>1 DEF Kept
  <2>2. CASE e # g
    <3>1. e \in ToSet(s) /\ e.usr # f.usr
      BY <1>2, <2>2
    <3>2. QED
      BY <2>1, <3>1
  <2>3. CASE e = g /\ \A d \in ToSet(s) : d.usr # f.usr
    <3>1. \A h \in F : h.usr # f.usr
      BY <2>3 DEF Kept
    <3>2. e = f
      BY <1>1, <2>3
    <3>3. QED
      BY <3>1, <3>2
  <2>4. CASE e = g /\ \E d \in ToSet(s) : d.usr = f.usr
    <3>1. PICK d \in ToSet(s) : d.usr = f.usr
      BY <2>4
    <3>2. g.dflt <=> d.dflt \/ ((d.def # f.def) /\ f.dflt)
      BY <1>1, <3>1
    <3>3. d.def = f.def /\ f.dflt => d.dflt
      <4>1. PICK h \in F : h.usr = d.usr /\ h.def = d.def
        BY DEF Kept
      <4>2. h.def = f.def => h.dflt = f.dflt
        BY <1>8, <3>1, <4>1 DEF Agreeing
      <4>3. QED
        BY <2>1, <3>1, <4>1, <4>2
    <3>4. g.dflt <=> d.dflt \/ f.dflt
      BY <3>2, <3>3
    <3>5. d.dflt <=> \E h \in F : h.usr = f.usr /\ h.dflt
      BY <2>1, <3>1
    <3>6. QED
      BY <1>1, <2>4, <3>4, <3>5
  <2>5. QED
    BY <2>2, <2>3, <2>4
<1>9. Kept(r, G)
  BY <1>2, <1>6, <1>7, <1>8 DEF Kept
<1>10. QED
  BY <1>9 DEF r

MergeFunctionTurns(F, s, f) == MergeFunction(s, f)
MergeFunctionHolds(F, s, X) == Kept(s, F \cup X)
MergeFunctionLoop == INSTANCE Folding WITH Op <- MergeFunctionTurns, Holds <- MergeFunctionHolds

LEMMA KeptAll ==
  ASSUME NEW base, NEW F, NEW s, s \in Seq(ToSet(s)), Kept(base, F),
         \A f \in ToSet(s) : Ir(f)
  PROVE  Kept(FoldLeft(MergeFunction, base, s), F \cup ToSet(s))
<1>1. FoldLeft(MergeFunction, base, s) = MergeFunctionLoop!Fold(F, base, s)
  BY DEF MergeFunctionTurns, MergeFunctionLoop!Fold, FoldLeft, MapThenFoldSet, MergeFunctionLoop!MapThenFoldSet,
         Max, MergeFunctionLoop!Last
<1>2. MergeFunctionHolds(F, base, {})
  BY DEF MergeFunctionHolds
<1>3. ASSUME NEW built, NEW X, NEW f \in ToSet(s), MergeFunctionHolds(F, built, X)
      PROVE  MergeFunctionHolds(F, MergeFunctionTurns(F, built, f), X \cup {f})
  <2>1. Kept(MergeFunction(built, f), (F \cup X) \cup {f})
    BY <1>3, KeptTurn DEF MergeFunctionHolds
  <2>2. QED
    BY <2>1 DEF MergeFunctionHolds, MergeFunctionTurns
<1> HIDE DEF MergeFunctionHolds, MergeFunctionTurns
<1>4. MergeFunctionHolds(F, MergeFunctionLoop!Fold(F, base, s), ToSet(s))
  BY <1>2, <1>3, MergeFunctionLoop!Invariance DEF ToSet
<1>5. QED
  BY <1>1, <1>4 DEF MergeFunctionHolds

(* Members, of which all units agree whether they have a body: a list      *)
(* matches the members it was merged from.                                 *)
OneForm(F) == \A f, g \in F : f.usr = g.usr => f.def = g.def

Matches(s, F) ==
  /\ Irs(s)
  /\ \A e \in ToSet(s) : \E f \in F : f.usr = e.usr /\ f.def = e.def
  /\ \A f \in F : \E e \in ToSet(s) : e.usr = f.usr /\ e.def = f.def

LEMMA PutMatches ==
  ASSUME NEW s, NEW r, NEW g, NEW F, NEW f, Matches(s, F), OneForm(F \cup {f}),
         Put(s, r, g), g.usr = f.usr, g.def = f.def
  PROVE  Matches(r, F \cup {f})
<1>1. /\ Irs(r) /\ g \in ToSet(r)
      /\ \A e \in ToSet(r) : e = g \/ (e \in ToSet(s) /\ e.usr # f.usr)
      /\ \A e \in ToSet(s) : e.usr # f.usr => e \in ToSet(r)
  BY DEF Put
<1>2. \A e \in ToSet(r) : \E h \in F \cup {f} : h.usr = e.usr /\ h.def = e.def
  BY <1>1 DEF Matches
<1>3. ASSUME NEW h \in F \cup {f}
      PROVE  \E e \in ToSet(r) : e.usr = h.usr /\ e.def = h.def
  <2>1. CASE h.usr = f.usr
    BY <1>1, <2>1 DEF OneForm
  <2>2. CASE h.usr # f.usr
    BY <1>1, <2>2 DEF Matches
  <2>3. QED
    BY <2>1, <2>2
<1>4. QED
  BY <1>1, <1>2, <1>3 DEF Matches

LEMMA MethodTurn ==
  ASSUME NEW s, NEW F, NEW f, Matches(s, F), Ir(f), OneForm(F \cup {f})
  PROVE  Matches(MergeMethod(s, f), F \cup {f})
<1> DEFINE r == MergeMethod(s, f)
<1>1. PICK g : /\ Put(s, r, g) /\ g.usr = f.usr
               /\ (\A e \in ToSet(s) : e.usr # f.usr) => g = f
               /\ \A e \in ToSet(s) : e.usr = f.usr => (g.def <=> e.def \/ f.def)
  BY MergedFunction DEF Matches, MergeMethod
<1> HIDE DEF r
<1>2. \A e \in ToSet(s) : e.usr = f.usr => e.def = f.def
  BY DEF Matches, OneForm
<1>3. g.def \in BOOLEAN /\ f.def \in BOOLEAN
  BY <1>1 DEF Put, Ir
<1>4. g.def = f.def
  BY <1>1, <1>2, <1>3
<1>5. Matches(r, F \cup {f})
  BY <1>1, <1>4, PutMatches
<1>6. QED
  BY <1>5 DEF r

LEMMA ConstructorTurn ==
  ASSUME NEW s, NEW F, NEW f, Matches(s, F), Ir(f), OneForm(F \cup {f})
  PROVE  Matches(MergeConstructor(s, f), F \cup {f})
<1> DEFINE r == MergeConstructor(s, f)
<1>1. PICK g : /\ Put(s, r, g) /\ g.usr = f.usr
               /\ (\A e \in ToSet(s) : e.usr # f.usr) => g = f
               /\ \A e \in ToSet(s) : e.usr = f.usr => g.def = e.def
  BY MergedConstructor DEF Matches
<1> HIDE DEF r
<1>2. \A e \in ToSet(s) : e.usr = f.usr => e.def = f.def
  BY DEF Matches, OneForm
<1>3. g.def = f.def
  BY <1>1, <1>2
<1>4. Matches(r, F \cup {f})
  BY <1>1, <1>3, PutMatches
<1>5. QED
  BY <1>4 DEF r

MergeMethodTurns(F, s, f) == MergeMethod(s, f)
MergeMethodHolds(F, s, X) == Matches(s, F \cup X)
MergeMethodLoop == INSTANCE Folding WITH Op <- MergeMethodTurns, Holds <- MergeMethodHolds

LEMMA MethodsMatch ==
  ASSUME NEW base, NEW F, NEW s, s \in Seq(ToSet(s)), Matches(base, F),
         \A f \in ToSet(s) : Ir(f), OneForm(F \cup ToSet(s))
  PROVE  Matches(FoldLeft(MergeMethod, base, s), F \cup ToSet(s))
<1>1. FoldLeft(MergeMethod, base, s) = MergeMethodLoop!Fold(F, base, s)
  BY DEF MergeMethodTurns, MergeMethodLoop!Fold, FoldLeft, MapThenFoldSet, MergeMethodLoop!MapThenFoldSet,
         Max, MergeMethodLoop!Last
<1>2. MergeMethodHolds(F, base, {})
  BY DEF MergeMethodHolds
<1>3. ASSUME NEW built, NEW X \in SUBSET ToSet(s), NEW f \in ToSet(s), MergeMethodHolds(F, built, X)
      PROVE  MergeMethodHolds(F, MergeMethodTurns(F, built, f), X \cup {f})
  <2>1. OneForm((F \cup X) \cup {f})
    BY DEF OneForm
  <2>2. Matches(MergeMethod(built, f), (F \cup X) \cup {f})
    BY <1>3, <2>1, MethodTurn DEF MergeMethodHolds
  <2>3. QED
    BY <2>2 DEF MergeMethodHolds, MergeMethodTurns
<1> HIDE DEF MergeMethodHolds, MergeMethodTurns
<1>4. MergeMethodHolds(F, MergeMethodLoop!Fold(F, base, s), ToSet(s))
  BY <1>2, <1>3, MergeMethodLoop!Invariance DEF ToSet
<1>5. QED
  BY <1>1, <1>4 DEF MergeMethodHolds

MergeConstructorTurns(F, s, f) == MergeConstructor(s, f)
MergeConstructorHolds(F, s, X) == Matches(s, F \cup X)
MergeConstructorLoop == INSTANCE Folding WITH Op <- MergeConstructorTurns, Holds <- MergeConstructorHolds

LEMMA ConstructorsMatch ==
  ASSUME NEW base, NEW F, NEW s, s \in Seq(ToSet(s)), Matches(base, F),
         \A f \in ToSet(s) : Ir(f), OneForm(F \cup ToSet(s))
  PROVE  Matches(FoldLeft(MergeConstructor, base, s), F \cup ToSet(s))
<1>1. FoldLeft(MergeConstructor, base, s) = MergeConstructorLoop!Fold(F, base, s)
  BY DEF MergeConstructorTurns, MergeConstructorLoop!Fold, FoldLeft, MapThenFoldSet, MergeConstructorLoop!MapThenFoldSet,
         Max, MergeConstructorLoop!Last
<1>2. MergeConstructorHolds(F, base, {})
  BY DEF MergeConstructorHolds
<1>3. ASSUME NEW built, NEW X \in SUBSET ToSet(s), NEW f \in ToSet(s), MergeConstructorHolds(F, built, X)
      PROVE  MergeConstructorHolds(F, MergeConstructorTurns(F, built, f), X \cup {f})
  <2>1. OneForm((F \cup X) \cup {f})
    BY DEF OneForm
  <2>2. Matches(MergeConstructor(built, f), (F \cup X) \cup {f})
    BY <1>3, <2>1, ConstructorTurn DEF MergeConstructorHolds
  <2>3. QED
    BY <2>2 DEF MergeConstructorHolds, MergeConstructorTurns
<1> HIDE DEF MergeConstructorHolds, MergeConstructorTurns
<1>4. MergeConstructorHolds(F, MergeConstructorLoop!Fold(F, base, s), ToSet(s))
  BY <1>2, <1>3, MergeConstructorLoop!Invariance DEF ToSet
<1>5. QED
  BY <1>1, <1>4 DEF MergeConstructorHolds

MergeFunctionsTurns(F, s, p) == MergeFunctions(s, p)
MergeFunctionsHolds(F, s, P) == Kept(s, F \cup UNION {ToSet(p.fns) : p \in P})
MergeFunctionsLoop == INSTANCE Folding WITH Op <- MergeFunctionsTurns, Holds <- MergeFunctionsHolds

LEMMA FunctionsKept ==
  ASSUME NEW base, NEW F, NEW s, s \in Seq(ToSet(s)), Kept(base, F),
         \A p \in ToSet(s) : p.fns \in Seq(ToSet(p.fns)) /\ \A f \in ToSet(p.fns) : Ir(f)
  PROVE  Kept(FoldLeft(MergeFunctions, base, s), F \cup UNION {ToSet(p.fns) : p \in ToSet(s)})
<1>1. FoldLeft(MergeFunctions, base, s) = MergeFunctionsLoop!Fold(F, base, s)
  BY DEF MergeFunctionsTurns, MergeFunctionsLoop!Fold, FoldLeft, MapThenFoldSet, MergeFunctionsLoop!MapThenFoldSet,
         Max, MergeFunctionsLoop!Last
<1>2. MergeFunctionsHolds(F, base, {})
  <2>1. F \cup UNION {ToSet(p.fns) : p \in {}} = F
    OBVIOUS
  <2>2. QED
    BY <2>1 DEF MergeFunctionsHolds
<1>3. ASSUME NEW built, NEW P, NEW p \in ToSet(s), MergeFunctionsHolds(F, built, P)
      PROVE  MergeFunctionsHolds(F, MergeFunctionsTurns(F, built, p), P \cup {p})
  <2> DEFINE t == p.fns
             X == F \cup UNION {ToSet(q.fns) : q \in P}
  <2>1. t \in Seq(ToSet(t)) /\ Kept(built, X) /\ \A f \in ToSet(t) : Ir(f)
    BY <1>3 DEF MergeFunctionsHolds
  <2>2. F \cup UNION {ToSet(q.fns) : q \in P \cup {p}} = X \cup ToSet(t)
    OBVIOUS
  <2>3. MergeFunctionsTurns(F, built, p) = FoldLeft(MergeFunction, built, t)
    BY DEF MergeFunctionsTurns, MergeFunctions
  <2> HIDE DEF t, X
  <2>4. Kept(FoldLeft(MergeFunction, built, t), X \cup ToSet(t))
    BY <2>1, KeptAll
  <2>5. QED
    BY <2>2, <2>3, <2>4 DEF MergeFunctionsHolds
<1> HIDE DEF MergeFunctionsHolds, MergeFunctionsTurns
<1>4. MergeFunctionsHolds(F, MergeFunctionsLoop!Fold(F, base, s), ToSet(s))
  BY <1>2, <1>3, MergeFunctionsLoop!Invariance DEF ToSet
<1>5. QED
  BY <1>1, <1>4 DEF MergeFunctionsHolds

-----------------------------------------------------------------------------
(* Classes: a record is faithful to the cursors X if it has the members    *)
(* they give its class; a list of records unites X if every class and      *)
(* every member in X has its record.                                       *)
ClassLike == {"record", "method", "ctor", "dtor"}
Class(c) == IF c.kind = "record" THEN c.usr ELSE c.owner

MembersOf(X, kind, usr) == {c \in X : c.kind = kind /\ c.owner = usr}

Record(r) == r = [usr |-> r.usr, name |-> r.name, ns |-> r.ns,
                  methods |-> r.methods, ctors |-> r.ctors, dtor |-> r.dtor]

Faithful(r, X) ==
  /\ Record(r)
  /\ Matches(r.methods, MembersOf(X, "method", r.usr))
  /\ Matches(r.ctors, MembersOf(X, "ctor", r.usr))
  /\ r.dtor \in Seq(ToSet(r.dtor))
  /\ r.dtor # <<>> <=> MembersOf(X, "dtor", r.usr) # {}

United(s, X) ==
  /\ List(s)
  /\ \A r \in ToSet(s) : Faithful(r, X)
  /\ \A r \in ToSet(s) : \E c \in X : c.kind = "record" /\ c.usr = r.usr
  /\ \A c \in X : c.kind \in ClassLike => \E r \in ToSet(s) : r.usr = Class(c)

OneFormEach(X) ==
  \A c, d \in X : {c.kind, d.kind} \subseteq {"method", "ctor"} /\ c.usr = d.usr => c.def = d.def

LEMMA Unite ==
  ASSUME NEW base, NEW s, NEW F, NEW G, Matches(base, F), Matches(s, G), OneForm(F \cup G)
  PROVE  /\ Matches(FoldLeft(MergeMethod, base, s), F \cup G)
         /\ Matches(FoldLeft(MergeConstructor, base, s), F \cup G)
<1>1. s \in Seq(ToSet(s)) /\ \A f \in ToSet(s) : Ir(f)
  BY DEF Matches, Irs, List
<1>2. OneForm(F \cup ToSet(s))
  <2>1. \A e \in F \cup ToSet(s) : \E f \in F \cup G : f.usr = e.usr /\ f.def = e.def
    BY DEF Matches
  <2>2. QED
    BY <2>1 DEF OneForm
<1>3. ASSUME NEW r, Matches(r, F \cup ToSet(s))
      PROVE  Matches(r, F \cup G)
  <2>1. \A f \in F \cup ToSet(s) : \E g \in F \cup G : g.usr = f.usr /\ g.def = f.def
    BY DEF Matches
  <2>2. \A g \in F \cup G : \E f \in F \cup ToSet(s) : f.usr = g.usr /\ f.def = g.def
    BY DEF Matches
  <2>3. \A e \in ToSet(r) : \E g \in F \cup G : g.usr = e.usr /\ g.def = e.def
    <3>1. \A e \in ToSet(r) : \E f \in F \cup ToSet(s) : f.usr = e.usr /\ f.def = e.def
      BY <1>3 DEF Matches
    <3>2. QED
      BY <2>1, <3>1
  <2>4. \A g \in F \cup G : \E e \in ToSet(r) : e.usr = g.usr /\ e.def = g.def
    <3>1. \A f \in F \cup ToSet(s) : \E e \in ToSet(r) : e.usr = f.usr /\ e.def = f.def
      BY <1>3 DEF Matches
    <3>2. QED
      BY <2>2, <3>1
  <2>5. QED
    BY <1>3, <2>3, <2>4 DEF Matches
<1>4. Matches(FoldLeft(MergeMethod, base, s), F \cup ToSet(s))
  BY <1>1, <1>2, MethodsMatch
<1>5. Matches(FoldLeft(MergeConstructor, base, s), F \cup ToSet(s))
  BY <1>1, <1>2, ConstructorsMatch
<1>6. QED
  BY <1>3, <1>4, <1>5

\* Cursors of one class, W, more have been seen, and its record, g, is put into s.
LEMMA UnitedWith ==
  ASSUME NEW s, NEW X, NEW W, NEW q, NEW g, United(s, X), List(q),
         ToSet(q) = {e \in ToSet(s) : e.usr # g.usr} \cup {g}, Faithful(g, X \cup W),
         \E c \in X \cup W : c.kind = "record" /\ c.usr = g.usr,
         \A c \in W : c.kind \in ClassLike /\ Class(c) = g.usr
  PROVE  United(q, X \cup W)
<1>1. ASSUME NEW e \in ToSet(s), e.usr # g.usr
      PROVE  Faithful(e, X \cup W)
  <2>1. ASSUME NEW k \in {"method", "ctor", "dtor"}
        PROVE  MembersOf(X \cup W, k, e.usr) = MembersOf(X, k, e.usr)
    BY <1>1 DEF MembersOf, ClassLike, Class
  <2>2. Faithful(e, X)
    BY DEF United
  <2>3. QED
    BY <2>1, <2>2 DEF Faithful
<1>2. \A e \in ToSet(q) : Faithful(e, X \cup W)
  BY <1>1
<1>3. \A e \in ToSet(q) : \E c \in X \cup W : c.kind = "record" /\ c.usr = e.usr
  BY DEF United
<1>4. ASSUME NEW c \in X \cup W, c.kind \in ClassLike
      PROVE  \E e \in ToSet(q) : e.usr = Class(c)
  <2>1. CASE Class(c) = g.usr
    BY <2>1
  <2>2. CASE Class(c) # g.usr
    <3>1. c \in X
      BY <2>2
    <3>2. PICK e \in ToSet(s) : e.usr = Class(c)
      BY <1>4, <3>1 DEF United
    <3>3. QED
      BY <2>2, <3>2
  <2>3. QED
    BY <2>1, <2>2
<1>5. QED
  BY <1>2, <1>3, <1>4 DEF United

\* What x adds to s is what its cursors, W, add to X.
LEMMA RecordTurn ==
  ASSUME NEW s, NEW X, NEW Y, NEW x, NEW W, United(s, X), Faithful(x, Y), OneFormEach(X \cup Y),
         \E c \in Y : c.kind = "record" /\ c.usr = x.usr,
         W = {c \in Y : c.kind \in ClassLike /\ Class(c) = x.usr}
  PROVE  United(MergeRecord(s, x), X \cup W)
<1> DEFINE i == IndexOfUsr(s, x.usr)
           r == MergeRecord(s, x)
           u == x.usr
<1>1. /\ i = 0 => \A e \in ToSet(s) : e.usr # u
      /\ i # 0 => i \in DOMAIN s /\ s[i] \in ToSet(s) /\ s[i].usr = u
  BY Searched DEF United
<1>2. ASSUME NEW k \in {"method", "ctor", "dtor"}, NEW v
      PROVE  MembersOf(X \cup W, k, v)
               = IF v = u THEN MembersOf(X, k, v) \cup MembersOf(Y, k, v) ELSE MembersOf(X, k, v)
  BY DEF MembersOf, ClassLike, Class
<1>3. ASSUME NEW k \in {"method", "ctor"}
      PROVE  OneForm(MembersOf(X, k, u) \cup MembersOf(Y, k, u))
  BY DEF OneForm, OneFormEach, MembersOf
<1>4. /\ \E c \in X \cup W : c.kind = "record" /\ c.usr = u
      /\ \A c \in W : c.kind \in ClassLike /\ Class(c) = u
  BY DEF ClassLike, Class
<1>5. CASE i = 0
  <2>1. r = Append(s, x)
    BY <1>5 DEF MergeRecord
  <2>2. List(r) /\ ToSet(r) = ToSet(s) \cup {x}
    BY <1>1, <1>5, <2>1, AppendNew DEF United
  <2>3. {e \in ToSet(s) : e.usr # u} = ToSet(s)
    BY <1>1, <1>5
  <2>4. ASSUME NEW k \in {"method", "ctor", "dtor"}
        PROVE  MembersOf(X \cup W, k, u) = MembersOf(Y, k, u)
    <3>1. MembersOf(X, k, u) = {}
      BY <1>1, <1>5 DEF United, MembersOf, ClassLike, Class
    <3>2. QED
      BY <1>2, <3>1
  <2>5. Faithful(x, X \cup W)
    BY <2>4 DEF Faithful
  <2> HIDE DEF r
  <2>6. United(r, X \cup W)
    BY <1>4, <2>2, <2>3, <2>5, UnitedWith
  <2>7. QED
    BY <2>6 DEF r
<1>6. CASE i # 0
  <2> DEFINE e == s[i]
             ms == FoldLeft(MergeMethod, e.methods, x.methods)
             cs == FoldLeft(MergeConstructor, e.ctors, x.ctors)
             ds == IF e.dtor = <<>> THEN x.dtor ELSE e.dtor
             g == [e EXCEPT !.methods = ms, !.ctors = cs, !.dtor = ds]
  <2>1. i \in DOMAIN s /\ e \in ToSet(s) /\ e.usr = u
    BY <1>1, <1>6
  <2>2. r = ReplaceAt(s, i, g)
    BY <1>6 DEF MergeRecord
  <2>3. Faithful(e, X)
    BY <2>1 DEF United
  <2> HIDE DEF e
  <2>4. Matches(ms, MembersOf(X \cup W, "method", u)) /\ Matches(cs, MembersOf(X \cup W, "ctor", u))
    <3>1. /\ Matches(e.methods, MembersOf(X, "method", u)) /\ Matches(e.ctors, MembersOf(X, "ctor", u))
          /\ Matches(x.methods, MembersOf(Y, "method", u)) /\ Matches(x.ctors, MembersOf(Y, "ctor", u))
      BY <2>1, <2>3 DEF Faithful
    <3>2. /\ Matches(ms, MembersOf(X, "method", u) \cup MembersOf(Y, "method", u))
          /\ Matches(cs, MembersOf(X, "ctor", u) \cup MembersOf(Y, "ctor", u))
      BY <1>3, <3>1, Unite
    <3>3. QED
      BY <1>2, <3>2
  <2>5. ds \in Seq(ToSet(ds)) /\ (ds # <<>> <=> MembersOf(X \cup W, "dtor", u) # {})
    <3>1. MembersOf(X \cup W, "dtor", u) = MembersOf(X, "dtor", u) \cup MembersOf(Y, "dtor", u)
      BY <1>2
    <3>2. e.dtor # <<>> <=> MembersOf(X, "dtor", u) # {}
      BY <2>1, <2>3 DEF Faithful
    <3>3. x.dtor # <<>> <=> MembersOf(Y, "dtor", u) # {}
      BY DEF Faithful
    <3>4. e.dtor \in Seq(ToSet(e.dtor)) /\ x.dtor \in Seq(ToSet(x.dtor))
      BY <2>3 DEF Faithful
    <3>5. CASE e.dtor = <<>>
      BY <3>1, <3>2, <3>3, <3>4, <3>5
    <3>6. CASE e.dtor # <<>>
      BY <3>1, <3>2, <3>4, <3>6
    <3>7. QED
      BY <3>5, <3>6
  <2> HIDE DEF ms, cs, ds
  <2>6. Record(g) /\ g.usr = u /\ g.methods = ms /\ g.ctors = cs /\ g.dtor = ds
    <3>1. Record(e)
      BY <2>3 DEF Faithful
    <3>2. g.usr = e.usr /\ g.methods = ms /\ g.ctors = cs /\ g.dtor = ds
      BY <3>1 DEF Record
    <3>3. Record(g)
      <4> DEFINE f == [e EXCEPT !.methods = ms]
      <4>1. Record(f)
        BY <3>1 DEF Record
      <4>2. \A z : Record(z) => Record([z EXCEPT !.ctors = cs]) /\ Record([z EXCEPT !.dtor = ds])
        BY DEF Record
      <4>3. g = [[f EXCEPT !.ctors = cs] EXCEPT !.dtor = ds]
        OBVIOUS
      <4>4. QED
        BY <4>1, <4>2, <4>3
    <3> HIDE DEF g
    <3>4. QED
      BY <2>1, <3>2, <3>3
  <2> HIDE DEF g
  <2>7. Faithful(g, X \cup W)
    BY <2>4, <2>5, <2>6 DEF Faithful
  <2>8. List(r) /\ ToSet(r) = {f \in ToSet(s) : f.usr # u} \cup {g}
    BY <2>1, <2>2, <2>6, Replaced DEF United, e
  <2> HIDE DEF r
  <2>9. United(r, X \cup W)
    BY <1>4, <2>6, <2>7, <2>8, UnitedWith
  <2>10. QED
    BY <2>9 DEF r
<1>7. QED
  BY <1>5, <1>6

\* The loop has x.old and the entries of the records it has seen of x.new.
EntriesOf(X, r) == {c \in X : c.kind \in ClassLike /\ Class(c) = r.usr}
MergeRecordTurns(x, s, r) == MergeRecord(s, r)
MergeRecordHolds(x, s, R) == United(s, x.old \cup UNION {EntriesOf(x.new, r) : r \in R})
MergeRecordLoop == INSTANCE Folding WITH Op <- MergeRecordTurns, Holds <- MergeRecordHolds

LEMMA RecordsUnite ==
  ASSUME NEW base, NEW X, NEW s, NEW Y, United(base, X), United(s, Y), OneFormEach(X \cup Y)
  PROVE  United(FoldLeft(MergeRecord, base, s), X \cup Y)
<1> DEFINE x == [old |-> X, new |-> Y]
           made(R) == X \cup UNION {EntriesOf(Y, r) : r \in R}
           all == made(ToSet(s))
           q == FoldLeft(MergeRecord, base, s)
<1>1. q = MergeRecordLoop!Fold(x, base, s)
  BY DEF MergeRecordTurns, MergeRecordLoop!Fold, FoldLeft, MapThenFoldSet, MergeRecordLoop!MapThenFoldSet,
         Max, MergeRecordLoop!Last
<1> HIDE DEF q
<1>2. MergeRecordHolds(x, base, {})
  <2>1. made({}) = X
    OBVIOUS
  <2>2. QED
    BY <2>1 DEF MergeRecordHolds
<1>3. ASSUME NEW built, NEW R, NEW r \in ToSet(s), MergeRecordHolds(x, built, R)
      PROVE  MergeRecordHolds(x, MergeRecordTurns(x, built, r), R \cup {r})
  <2> DEFINE Z == made(R)
             W == EntriesOf(Y, r)
  <2>1. United(built, Z)
    BY <1>3 DEF MergeRecordHolds
  <2>2. Faithful(r, Y) /\ \E c \in Y : c.kind = "record" /\ c.usr = r.usr
    BY DEF United
  <2>3. OneFormEach(Z \cup Y)
    <3>1. Z \cup Y \subseteq X \cup Y
      BY DEF EntriesOf
    <3>2. QED
      BY <3>1 DEF OneFormEach
  <2>4. W = {c \in Y : c.kind \in ClassLike /\ Class(c) = r.usr}
    BY DEF EntriesOf
  <2>5. made(R \cup {r}) = Z \cup W
    OBVIOUS
  <2> HIDE DEF Z, W
  <2>6. United(MergeRecord(built, r), Z \cup W)
    BY <2>1, <2>2, <2>3, <2>4, RecordTurn
  <2>7. United(MergeRecord(built, r), made(R \cup {r}))
    BY <2>5, <2>6
  <2>8. QED
    BY <2>7 DEF MergeRecordHolds, MergeRecordTurns
<1>4. MergeRecordHolds(x, MergeRecordLoop!Fold(x, base, s), ToSet(s))
  <2>1. s \in Seq(ToSet(s))
    BY DEF United, List
  <2> HIDE DEF MergeRecordHolds, MergeRecordTurns, x
  <2>2. QED
    BY <1>2, <1>3, <2>1, MergeRecordLoop!Invariance DEF ToSet
<1>5. United(q, all)
  BY <1>1, <1>4 DEF MergeRecordHolds
<1>6. all \subseteq X \cup Y /\ \A c \in X \cup Y : c.kind \in ClassLike => c \in all
  <2>1. ASSUME NEW c \in Y, c.kind \in ClassLike
        PROVE  \E r \in ToSet(s) : c \in EntriesOf(Y, r)
    BY <2>1 DEF United, EntriesOf
  <2>2. all \subseteq X \cup Y
    BY DEF EntriesOf
  <2>3. QED
    BY <2>1, <2>2
<1> HIDE DEF all
<1>7. ASSUME NEW k \in {"method", "ctor", "dtor"}, NEW u
      PROVE  MembersOf(all, k, u) = MembersOf(X \cup Y, k, u)
  BY <1>6 DEF MembersOf, ClassLike
<1>8. \A r \in ToSet(q) : Faithful(r, X \cup Y)
  <2>1. \A r \in ToSet(q) : Faithful(r, all)
    BY <1>5 DEF United
  <2>2. QED
    BY <1>7, <2>1 DEF Faithful
<1>9. United(q, X \cup Y)
  <2>1. List(q) /\ \A r \in ToSet(q) : \E c \in X \cup Y : c.kind = "record" /\ c.usr = r.usr
    BY <1>5, <1>6 DEF United
  <2>2. \A c \in X \cup Y : c.kind \in ClassLike => \E r \in ToSet(q) : r.usr = Class(c)
    BY <1>5, <1>6 DEF United
  <2>3. QED
    BY <1>8, <2>1, <2>2 DEF United
<1>10. QED
  BY <1>9 DEF q

MergeRecordsTurns(c, s, p) == MergeRecords(s, p)
MergeRecordsHolds(c, s, P) == TRUE
MergeRecordsLoop == INSTANCE Folding WITH Op <- MergeRecordsTurns, Holds <- MergeRecordsHolds

\* xs[i] is what the worker of the i-th partial has seen.
LEMMA AllUnited ==
  ASSUME NEW s, s \in Seq(ToSet(s)), NEW xs, OneFormEach(UNION {xs[i] : i \in 1 .. Len(s)}),
         \A i \in 1 .. Len(s) : United(s[i].records, xs[i])
  PROVE  United(FoldLeft(MergeRecords, <<>>, s), UNION {xs[i] : i \in 1 .. Len(s)})
<1> DEFINE n == Len(s)
           S == ToSet(s)
           base == <<>>
           made(i) == UNION {xs[j] : j \in 1 .. i}
<1>1. FoldLeft(MergeRecords, base, s) = MergeRecordsLoop!Fold(0, base, s)
  BY DEF MergeRecordsTurns, MergeRecordsLoop!Fold, FoldLeft, MapThenFoldSet,
         MergeRecordsLoop!MapThenFoldSet, Max, MergeRecordsLoop!Last
<1>2. s \in Seq(S) /\ n \in Nat /\ S = {s[i] : i \in DOMAIN s} /\ \A i \in 1 .. n : s[i] \in S
  BY DEF ToSet
<1> HIDE DEF S
<1>3. PICK built : /\ built[0] = base
                   /\ \A i \in 1 .. n : built[i] = MergeRecords(built[i - 1], s[i])
                   /\ MergeRecordsLoop!Fold(0, base, s) = built[n]
  BY <1>2, MergeRecordsLoop!FoldByTurns DEF MergeRecordsTurns
<1>4. /\ made(0) = {}
      /\ \A i \in 1 .. n : made(i) = made(i - 1) \cup xs[i] /\ made(i) \subseteq made(n)
  <2>1. made(0) = {}
    OBVIOUS
  <2>2. ASSUME NEW i \in 1 .. n
        PROVE  made(i) = made(i - 1) \cup xs[i] /\ made(i) \subseteq made(n)
    <3>1. \A j \in 1 .. i : j \in 1 .. i - 1 \/ j = i
      OBVIOUS
    <3>2. i \in 1 .. i /\ (\A j \in 1 .. i - 1 : j \in 1 .. i) /\ \A j \in 1 .. i : j \in 1 .. n
      BY <1>2
    <3>3. QED
      BY <3>1, <3>2
  <2>3. QED
    BY <2>1, <2>2
<1> DEFINE T == {i \in 0 .. n : United(built[i], made(i))}
<1>5. OneFormEach(made(n))
  OBVIOUS
<1> HIDE DEF made
<1>6. 0 \in T
  <2>1. United(<<>>, {})
    BY EmptyList DEF United
  <2>2. United(built[0], made(0))
    BY <1>3, <1>4, <2>1
  <2>3. QED
    BY <1>2, <2>2
<1>7. ASSUME NEW i \in 1 .. n, i - 1 \in T
      PROVE  i \in T
  <2> DEFINE t == s[i].records
             X == made(i - 1)
             Y == xs[i]
  <2>1. United(built[i - 1], X) /\ United(t, Y)
    BY <1>7
  <2>2. made(i) = X \cup Y /\ X \cup Y \subseteq made(n)
    BY <1>4
  <2>3. OneFormEach(X \cup Y)
    BY <1>5, <2>2 DEF OneFormEach
  <2>4. built[i] = FoldLeft(MergeRecord, built[i - 1], t)
    BY <1>3 DEF MergeRecords
  <2> HIDE DEF t, X, Y
  <2>5. United(FoldLeft(MergeRecord, built[i - 1], t), X \cup Y)
    BY <2>1, <2>3, RecordsUnite
  <2>6. United(built[i], made(i))
    BY <2>2, <2>4, <2>5
  <2>7. QED
    BY <2>6
<1>8. n \in T
  <2> HIDE DEF T
  <2>1. QED
    BY <1>2, <1>6, <1>7, MergeRecordsLoop!TurnByTurn
<1>9. United(FoldLeft(MergeRecords, <<>>, s), made(n))
  BY <1>1, <1>3, <1>8
<1>10. QED
  BY <1>9 DEF made

-----------------------------------------------------------------------------
(* What a worker has of the cursors X it has visited.                      *)
Fields == {"decls", "fns", "records", "enums", "calls", "members"}

Functions(X) == {c \in X : c.kind \in FunctionLike}
OfKind(X, kind) == {c \in X : c.kind = kind}

FunctionsRead(p, X) ==
  /\ DOMAIN p = Fields
  /\ Upserted(p.decls, {DeclarationOf(c) : c \in Functions(X)})
  /\ p.fns \in Seq(ToSet(p.fns)) /\ ToSet(p.fns) = {IrOf(c) : c \in OfKind(X, "fn")}

RecordsRead(p, X) ==
  /\ DOMAIN p = Fields
  /\ United(p.records, X)
  /\ p.members = {c.usr : c \in OfKind(X, "method") \cup OfKind(X, "ctor")}

NewRecord(c) ==
  [usr |-> c.usr, name |-> c.name, ns |-> c.ns, methods |-> <<>>, ctors |-> <<>>, dtor |-> <<>>]

LEMMA CursorVisited ==
  ASSUME NEW p, NEW c, DOMAIN p = Fields
  PROVE  LET q == VisitCursor(p, c)
             i == IndexOfUsr(p.records, c.owner)
         IN /\ DOMAIN q = Fields
            /\ q.decls = IF c.kind \in FunctionLike THEN Upsert(p.decls, DeclarationOf(c)) ELSE p.decls
            /\ q.fns = IF c.kind = "fn" THEN Append(p.fns, IrOf(c)) ELSE p.fns
            /\ q.members = IF c.kind \in {"method", "ctor"} THEN p.members \cup {c.usr} ELSE p.members
            /\ c.kind \notin ClassLike => q.records = p.records
            /\ c.kind = "record" =>
                 q.records = IF IndexOfUsr(p.records, c.usr) # 0 THEN p.records
                             ELSE Append(p.records, NewRecord(c))
            /\ c.kind \in {"method", "ctor"} =>
                 q.records = IF c.usr \in p.members \/ i = 0 THEN p.records
                             ELSE ReplaceAt(p.records, i, Attach(p.records[i], c))
            /\ c.kind = "dtor" =>
                 q.records = IF i = 0 THEN p.records
                             ELSE ReplaceAt(p.records, i, [p.records[i] EXCEPT !.dtor = <<IrOf(c)>>])
            /\ q.calls = IF c.kind \in FunctionLike THEN p.calls \cup {<<c.usr, k.usr>> : k \in c.calls} ELSE p.calls
            /\ q.enums = IF c.kind = "enum" THEN p.enums \cup {c.usr} ELSE p.enums
<1> DEFINE q == VisitCursor(p, c)
           i == IndexOfUsr(p.records, c.owner)
           d == Declare(p, c)
<1>1. /\ DOMAIN d = Fields /\ d.decls = Upsert(p.decls, DeclarationOf(c)) /\ d.fns = p.fns
      /\ d.members = p.members /\ d.records = p.records /\ d.enums = p.enums
      /\ d.calls = p.calls \cup {<<c.usr, k.usr>> : k \in c.calls}
  BY DEF Declare, Fields
<1> HIDE DEF d
<1>2. CASE c.kind = "fn"
  <2>1. q = [d EXCEPT !.fns = Append(@, IrOf(c))]
    BY <1>2 DEF VisitCursor, VisitFunction, d
  <2> HIDE DEF q
  <2>2. QED
    BY <1>1, <1>2, <2>1 DEF q, Fields, FunctionLike, ClassLike
<1>3. CASE c.kind = "record"
  <2>1. q = IF IndexOfUsr(p.records, c.usr) # 0 THEN p
            ELSE [p EXCEPT !.records = Append(@, NewRecord(c))]
    BY <1>3 DEF VisitCursor, VisitRecord, NewRecord
  <2> HIDE DEF q
  <2>2. QED
    BY <1>3, <2>1 DEF q, Fields, FunctionLike, ClassLike
<1>4. CASE c.kind = "enum"
  <2>1. q = [p EXCEPT !.enums = @ \cup {c.usr}]
    BY <1>4 DEF VisitCursor
  <2> HIDE DEF q
  <2>2. QED
    BY <1>4, <2>1 DEF q, Fields, FunctionLike, ClassLike
<1>5. CASE c.kind \in {"method", "ctor"}
  <2> DEFINE f == [d EXCEPT !.members = @ \cup {c.usr}]
  <2>1. q = IF c.usr \in p.members \/ i = 0 THEN f
            ELSE [f EXCEPT !.records = ReplaceAt(@, i, Attach(@[i], c))]
    BY <1>5 DEF VisitCursor, VisitMember, d
  <2>2. /\ DOMAIN f = Fields /\ f.decls = d.decls /\ f.fns = p.fns
        /\ f.members = p.members \cup {c.usr} /\ f.records = p.records
        /\ f.calls = d.calls /\ f.enums = p.enums
    BY <1>1 DEF Fields
  <2> HIDE DEF q, f, i
  <2>3. QED
    BY <1>1, <1>5, <2>1, <2>2 DEF q, i, Fields, FunctionLike, ClassLike
<1>6. CASE c.kind = "dtor"
  <2>1. q = IF i = 0 THEN d
            ELSE [d EXCEPT !.records = ReplaceAt(@, i, [@[i] EXCEPT !.dtor = <<IrOf(c)>>])]
    BY <1>6 DEF VisitCursor, VisitDestructor, d
  <2> HIDE DEF q, i
  <2>2. QED
    BY <1>1, <1>6, <2>1 DEF q, i, Fields, FunctionLike, ClassLike
<1>7. CASE c.kind \notin {"fn", "record", "enum", "method", "ctor", "dtor"}
  <2>1. q = p
    BY <1>7 DEF VisitCursor
  <2>2. QED
    BY <1>7, <2>1 DEF FunctionLike, ClassLike
<1>8. QED
  BY <1>2, <1>3, <1>4, <1>5, <1>6, <1>7

LEMMA IrOfCursor ==
  ASSUME NEW c, c.def \in BOOLEAN, c.dflt \in BOOLEAN
  PROVE  Ir(IrOf(c)) /\ IrOf(c).usr = c.usr /\ IrOf(c).def = c.def /\ IrOf(c).dflt = c.dflt
BY DEF Ir, IrOf

LEMMA FunctionsTurn ==
  ASSUME NEW p, NEW X, NEW c, FunctionsRead(p, X)
  PROVE  FunctionsRead(VisitCursor(p, c), X \cup {c})
<1> DEFINE q == VisitCursor(p, c)
           D == {DeclarationOf(d) : d \in Functions(X)}
           F == {IrOf(d) : d \in OfKind(X, "fn")}
<1>1. /\ DOMAIN q = Fields
      /\ q.decls = IF c.kind \in FunctionLike THEN Upsert(p.decls, DeclarationOf(c)) ELSE p.decls
      /\ q.fns = IF c.kind = "fn" THEN Append(p.fns, IrOf(c)) ELSE p.fns
  BY CursorVisited DEF FunctionsRead
<1> HIDE DEF q
<1>2. Upserted(q.decls, {DeclarationOf(d) : d \in Functions(X \cup {c})})
  <2>1. Upserted(p.decls, D)
    BY DEF FunctionsRead
  <2> HIDE DEF D
  <2>2. CASE c.kind \in FunctionLike
    <3>1. {DeclarationOf(d) : d \in Functions(X \cup {c})} = D \cup {DeclarationOf(c)}
      BY <2>2 DEF D, Functions
    <3>2. Upserted(Upsert(p.decls, DeclarationOf(c)), D \cup {DeclarationOf(c)})
      BY <2>1, UpsertTurn
    <3>3. QED
      BY <1>1, <2>2, <3>1, <3>2
  <2>3. CASE c.kind \notin FunctionLike
    <3>1. {DeclarationOf(d) : d \in Functions(X \cup {c})} = D
      BY <2>3 DEF D, Functions
    <3>2. QED
      BY <1>1, <2>1, <2>3, <3>1
  <2>4. QED
    BY <2>2, <2>3
<1>3. q.fns \in Seq(ToSet(q.fns)) /\ ToSet(q.fns) = {IrOf(d) : d \in OfKind(X \cup {c}, "fn")}
  <2>1. p.fns \in Seq(ToSet(p.fns)) /\ ToSet(p.fns) = F
    BY DEF FunctionsRead
  <2> HIDE DEF F
  <2>2. CASE c.kind = "fn"
    <3>1. {IrOf(d) : d \in OfKind(X \cup {c}, "fn")} = F \cup {IrOf(c)}
      BY <2>2 DEF F, OfKind
    <3> DEFINE s == p.fns
               x == IrOf(c)
    <3>2. s \in Seq(ToSet(s)) /\ ToSet(s) = F
      BY <2>1
    <3>3. q.fns = Append(s, x)
      BY <1>1, <2>2
    <3>4. {IrOf(d) : d \in OfKind(X \cup {c}, "fn")} = F \cup {x}
      BY <3>1
    <3> HIDE DEF s, x
    <3>5. Append(s, x) \in Seq(ToSet(Append(s, x))) /\ ToSet(Append(s, x)) = ToSet(s) \cup {x}
      BY <3>2, Appended
    <3>6. QED
      BY <3>2, <3>3, <3>4, <3>5
  <2>3. CASE c.kind # "fn"
    <3>1. {IrOf(d) : d \in OfKind(X \cup {c}, "fn")} = F
      BY <2>3 DEF F, OfKind
    <3>2. QED
      BY <1>1, <2>1, <2>3, <3>1
  <2>4. QED
    BY <2>2, <2>3
<1>4. FunctionsRead(q, X \cup {c})
  BY <1>1, <1>2, <1>3 DEF FunctionsRead
<1>5. QED
  BY <1>4 DEF q

\* What is assumed of the cursors a worker visits.
OneOwner(X) ==
  \A c, d \in X : {c.kind, d.kind} \subseteq {"method", "ctor"} /\ c.usr = d.usr =>
    c.kind = d.kind /\ c.owner = d.owner

HasClass(X, c) ==
  c.kind \in {"method", "ctor", "dtor"} => \E d \in X : d.kind = "record" /\ d.usr = c.owner

\* A cursor that changes no list of members.
LEMMA StaysUnited ==
  ASSUME NEW s, NEW X, NEW c, United(s, X),
         \A r \in ToSet(s) : Faithful(r, X \cup {c}),
         c.kind \in ClassLike => \E r \in ToSet(s) : r.usr = Class(c)
  PROVE  United(s, X \cup {c})
BY DEF United

LEMMA MemberTurn ==
  ASSUME NEW p, NEW X, NEW c, RecordsRead(p, X), OneFormEach(X \cup {c}), OneOwner(X \cup {c}),
         HasClass(X, c), c.kind \in {"method", "ctor"}, c.def \in BOOLEAN, c.dflt \in BOOLEAN
  PROVE  United(VisitCursor(p, c).records, X \cup {c})
<1> DEFINE s == p.records
           q == VisitCursor(p, c).records
           i == IndexOfUsr(s, c.owner)
           u == c.owner
<1>1. q = IF c.usr \in p.members \/ i = 0 THEN s ELSE ReplaceAt(s, i, Attach(s[i], c))
  BY CursorVisited DEF RecordsRead
<1>2. United(s, X)
  BY DEF RecordsRead
<1>3. i # 0 => i \in DOMAIN s /\ s[i] \in ToSet(s) /\ s[i].usr = u
  BY <1>2, Searched DEF United
<1>4. /\ i = 0 => \A e \in ToSet(s) : e.usr # u
      /\ \E r \in ToSet(s) : r.usr = u
  <2>1. \E r \in ToSet(s) : r.usr = u
    BY <1>2 DEF United, HasClass, Class, ClassLike
  <2>2. QED
    BY <1>2, <2>1, Searched DEF United
<1>5. Class(c) = u /\ c.kind \in ClassLike
  BY DEF Class, ClassLike
<1>6. ASSUME NEW k \in {"method", "ctor", "dtor"}, NEW v
      PROVE  MembersOf(X \cup {c}, k, v)
               = IF k = c.kind /\ v = u THEN MembersOf(X, k, v) \cup {c} ELSE MembersOf(X, k, v)
  BY DEF MembersOf
<1>7. OneForm(MembersOf(X, c.kind, u) \cup {c})
  BY DEF OneForm, OneFormEach, MembersOf
<1> HIDE DEF q, i
<1>8. CASE c.usr \in p.members
  <2>1. PICK d \in X : d.kind \in {"method", "ctor"} /\ d.usr = c.usr
    BY <1>8 DEF RecordsRead, OfKind
  <2>2. d \in MembersOf(X, c.kind, u) /\ d.def = c.def
    BY <2>1 DEF OneOwner, OneFormEach, MembersOf
  <2>3. ASSUME NEW t, Matches(t, MembersOf(X, c.kind, u))
        PROVE  Matches(t, MembersOf(X, c.kind, u) \cup {c})
    BY <2>1, <2>2, <2>3 DEF Matches
  <2>4. ASSUME NEW r \in ToSet(s)
        PROVE  Faithful(r, X \cup {c})
    <3>1. Faithful(r, X)
      BY <1>2 DEF United
    <3>2. Matches(r.methods, MembersOf(X \cup {c}, "method", r.usr))
      BY <1>6, <2>3, <3>1 DEF Faithful
    <3>3. Matches(r.ctors, MembersOf(X \cup {c}, "ctor", r.usr))
      BY <1>6, <2>3, <3>1 DEF Faithful
    <3>4. MembersOf(X \cup {c}, "dtor", r.usr) = MembersOf(X, "dtor", r.usr)
      BY <1>6
    <3>5. QED
      BY <3>1, <3>2, <3>3, <3>4 DEF Faithful
  <2>5. United(s, X \cup {c})
    BY <1>2, <1>4, <1>5, <2>4, StaysUnited
  <2>6. QED
    BY <1>1, <1>8, <2>5 DEF q
<1>9. CASE c.usr \notin p.members
  <2> DEFINE e == s[i]
             f == IrOf(c)
             g == Attach(e, c)
             ms == Append(e.methods, f)
             cs == Append(e.ctors, f)
  <2>1. i \in DOMAIN s /\ e \in ToSet(s) /\ e.usr = u
    BY <1>3, <1>4
  <2>2. q = ReplaceAt(s, i, g)
    BY <1>1, <1>3, <1>4, <1>9
  <2>3. Faithful(e, X)
    BY <1>2, <2>1 DEF United
  <2>4. Record(e)
    BY <2>3 DEF Faithful
  <2>5. Ir(f) /\ f.usr = c.usr /\ f.def = c.def
    BY IrOfCursor
  <2>6. \A d \in MembersOf(X, c.kind, u) : d.usr # c.usr
    BY <1>9 DEF RecordsRead, OfKind, MembersOf
  <2> HIDE DEF e, f
  <2>7. ASSUME NEW t, Matches(t, MembersOf(X, c.kind, u))
        PROVE  Matches(Append(t, f), MembersOf(X, c.kind, u) \cup {c})
    <3>1. \A a \in ToSet(t) : a.usr # f.usr
      BY <2>5, <2>6, <2>7 DEF Matches
    <3>2. List(Append(t, f)) /\ ToSet(Append(t, f)) = ToSet(t) \cup {f}
      BY <2>7, <3>1, AppendNew DEF Matches, Irs
    <3>3. ToSet(t) = {a \in ToSet(t) : a.usr # f.usr}
      BY <3>1
    <3>4. Put(t, Append(t, f), f)
      BY <2>5, <2>7, <3>2, <3>3 DEF Put, Irs, Matches
    <3>5. QED
      BY <1>7, <2>5, <2>7, <3>4, PutMatches
  <2>8. ASSUME c.kind = "method"
        PROVE  Faithful(g, X \cup {c}) /\ g.usr = u
    <3>1. g = [e EXCEPT !.methods = ms]
      BY <2>8 DEF Attach, f
    <3> HIDE DEF g, ms, cs
    <3>2. Record(g) /\ g.usr = u /\ g.methods = ms /\ g.ctors = e.ctors /\ g.dtor = e.dtor
      BY <2>1, <2>4, <3>1 DEF Record
    <3>3. Matches(ms, MembersOf(X \cup {c}, "method", u))
      BY <1>6, <2>1, <2>3, <2>7, <2>8 DEF Faithful, ms
    <3>4. \A k \in {"ctor", "dtor"} : MembersOf(X \cup {c}, k, u) = MembersOf(X, k, u)
      BY <1>6, <2>8
    <3>5. Faithful(g, X \cup {c})
      BY <2>1, <2>3, <3>2, <3>3, <3>4 DEF Faithful
    <3>6. QED
      BY <3>2, <3>5
  <2>9. ASSUME c.kind = "ctor"
        PROVE  Faithful(g, X \cup {c}) /\ g.usr = u
    <3>1. g = [e EXCEPT !.ctors = cs]
      BY <2>9 DEF Attach, f
    <3> HIDE DEF g, ms, cs
    <3>2. Record(g) /\ g.usr = u /\ g.methods = e.methods /\ g.ctors = cs /\ g.dtor = e.dtor
      BY <2>1, <2>4, <3>1 DEF Record
    <3>3. Matches(cs, MembersOf(X \cup {c}, "ctor", u))
      BY <1>6, <2>1, <2>3, <2>7, <2>9 DEF Faithful, cs
    <3>4. \A k \in {"method", "dtor"} : MembersOf(X \cup {c}, k, u) = MembersOf(X, k, u)
      BY <1>6, <2>9
    <3>5. Faithful(g, X \cup {c})
      BY <2>1, <2>3, <3>2, <3>3, <3>4 DEF Faithful
    <3>6. QED
      BY <3>2, <3>5
  <2>10. Faithful(g, X \cup {c}) /\ g.usr = u
    BY <2>8, <2>9
  <2> HIDE DEF g
  <2>11. List(q) /\ ToSet(q) = {a \in ToSet(s) : a.usr # g.usr} \cup {g}
    BY <1>2, <2>1, <2>2, <2>10, Replaced DEF United, e
  <2>12. \E d \in X \cup {c} : d.kind = "record" /\ d.usr = g.usr
    BY <2>10 DEF HasClass
  <2>13. United(q, X \cup {c})
    BY <1>2, <1>5, <2>10, <2>11, <2>12, UnitedWith
  <2>14. QED
    BY <2>13 DEF q
<1>10. QED
  BY <1>8, <1>9

LEMMA RecordsTurn ==
  ASSUME NEW p, NEW X, NEW c, RecordsRead(p, X), OneFormEach(X \cup {c}), OneOwner(X \cup {c}),
         HasClass(X, c), c.kind \in FunctionLike => c.def \in BOOLEAN /\ c.dflt \in BOOLEAN
  PROVE  RecordsRead(VisitCursor(p, c), X \cup {c})
<1> DEFINE s == p.records
           v == VisitCursor(p, c)
           q == v.records
           i == IndexOfUsr(s, c.owner)
<1>1. DOMAIN p = Fields /\ United(s, X) /\ p.members = {d.usr : d \in OfKind(X, "method") \cup OfKind(X, "ctor")}
  BY DEF RecordsRead
<1>2. /\ DOMAIN v = Fields
      /\ v.members = IF c.kind \in {"method", "ctor"} THEN p.members \cup {c.usr} ELSE p.members
      /\ c.kind \notin ClassLike => q = s
      /\ c.kind = "record" => q = IF IndexOfUsr(s, c.usr) # 0 THEN s ELSE Append(s, NewRecord(c))
      /\ c.kind = "dtor" =>
           q = IF i = 0 THEN s ELSE ReplaceAt(s, i, [s[i] EXCEPT !.dtor = <<IrOf(c)>>])
  BY <1>1, CursorVisited
<1>3. v.members = {d.usr : d \in OfKind(X \cup {c}, "method") \cup OfKind(X \cup {c}, "ctor")}
  <2>1. CASE c.kind \in {"method", "ctor"}
    BY <1>1, <1>2, <2>1 DEF OfKind
  <2>2. CASE c.kind \notin {"method", "ctor"}
    <3>1. OfKind(X \cup {c}, "method") = OfKind(X, "method") /\ OfKind(X \cup {c}, "ctor") = OfKind(X, "ctor")
      BY <2>2 DEF OfKind
    <3>2. QED
      BY <1>1, <1>2, <2>2, <3>1
  <2>3. QED
    BY <2>1, <2>2
<1>4. ASSUME c.kind \notin {"method", "ctor", "dtor"}, NEW r \in ToSet(s)
      PROVE  Faithful(r, X \cup {c})
  <2>1. \A k \in {"method", "ctor", "dtor"} : MembersOf(X \cup {c}, k, r.usr) = MembersOf(X, k, r.usr)
    BY <1>4 DEF MembersOf
  <2>2. Faithful(r, X)
    BY <1>1 DEF United
  <2>3. QED
    BY <2>1, <2>2 DEF Faithful
<1>5. United(q, X \cup {c})
  <2> HIDE DEF q
  <2>1. CASE c.kind \in {"method", "ctor"}
    BY <2>1, MemberTurn DEF FunctionLike, q
  <2>2. CASE c.kind \notin ClassLike
    <3>1. q = s
      BY <1>2, <2>2
    <3>2. QED
      BY <1>1, <1>4, <2>2, <3>1, StaysUnited DEF ClassLike
  <2>3. CASE c.kind = "record"
    <3> DEFINE j == IndexOfUsr(s, c.usr)
               g == NewRecord(c)
    <3>1. /\ j = 0 => \A e \in ToSet(s) : e.usr # c.usr
          /\ j # 0 => s[j] \in ToSet(s) /\ s[j].usr = c.usr
      BY <1>1, Searched DEF United
    <3>2. q = IF j # 0 THEN s ELSE Append(s, g)
      BY <1>2, <2>3
    <3>3. c.kind \in ClassLike /\ Class(c) = c.usr
      BY <2>3 DEF ClassLike, Class
    <3>4. g.usr = c.usr /\ Record(g) /\ g.methods = <<>> /\ g.ctors = <<>> /\ g.dtor = <<>>
      BY DEF NewRecord, Record
    <3> HIDE DEF j, g
    <3>5. CASE j # 0
      <4>1. \E r \in ToSet(s) : r.usr = Class(c)
        BY <3>1, <3>3, <3>5
      <4>2. \A r \in ToSet(s) : Faithful(r, X \cup {c})
        BY <1>4, <2>3
      <4>3. q = s
        BY <3>2, <3>5
      <4>4. QED
        BY <1>1, <4>1, <4>2, <4>3, StaysUnited
    <3>6. CASE j = 0
      <4>1. \A k \in {"method", "ctor", "dtor"} : MembersOf(X \cup {c}, k, g.usr) = {}
        BY <1>1, <2>3, <3>1, <3>4, <3>6 DEF United, MembersOf, ClassLike, Class
      <4>2. Matches(<<>>, {})
        BY EmptyList DEF Matches, Irs
      <4>3. <<>> \in Seq(ToSet(<<>>))
        BY EmptyList DEF List
      <4>4. Faithful(g, X \cup {c})
        BY <3>4, <4>1, <4>2, <4>3 DEF Faithful
      <4>5. List(q) /\ ToSet(q) = ToSet(s) \cup {g}
        BY <1>1, <3>1, <3>2, <3>4, <3>6, AppendNew DEF United
      <4>6. ToSet(s) = {e \in ToSet(s) : e.usr # g.usr}
        BY <3>1, <3>4, <3>6
      <4>7. \E d \in X \cup {c} : d.kind = "record" /\ d.usr = g.usr
        BY <2>3, <3>4
      <4>8. QED
        BY <1>1, <3>3, <3>4, <4>4, <4>5, <4>6, <4>7, UnitedWith
    <3>7. QED
      BY <3>5, <3>6
  <2>4. CASE c.kind = "dtor"
    <3> DEFINE u == c.owner
               e == s[i]
               ds == <<IrOf(c)>>
               g == [e EXCEPT !.dtor = ds]
    <3>1. \E r \in ToSet(s) : r.usr = u
      BY <1>1, <2>4 DEF United, HasClass, Class, ClassLike
    <3>2. i \in DOMAIN s /\ e \in ToSet(s) /\ e.usr = u /\ i # 0
      BY <1>1, <3>1, Searched DEF United
    <3>3. q = ReplaceAt(s, i, g)
      BY <1>2, <2>4, <3>2
    <3>4. Faithful(e, X)
      BY <1>1, <3>2 DEF United
    <3>5. Record(e)
      BY <3>4 DEF Faithful
    <3>6. ds \in Seq(ToSet(ds)) /\ ds # <<>>
      BY DEF ToSet
    <3> HIDE DEF e, ds
    <3>7. Record(g) /\ g.usr = u /\ g.methods = e.methods /\ g.ctors = e.ctors /\ g.dtor = ds
      BY <3>2, <3>5 DEF Record
    <3> HIDE DEF g
    <3>8. \A k \in {"method", "ctor"} : MembersOf(X \cup {c}, k, u) = MembersOf(X, k, u)
      BY <2>4 DEF MembersOf
    <3>9. MembersOf(X \cup {c}, "dtor", u) # {}
      BY <2>4 DEF MembersOf
    <3>10. Faithful(g, X \cup {c})
      BY <3>2, <3>4, <3>6, <3>7, <3>8, <3>9 DEF Faithful
    <3>11. List(q) /\ ToSet(q) = {a \in ToSet(s) : a.usr # g.usr} \cup {g}
      BY <1>1, <3>2, <3>3, <3>7, Replaced DEF United, e
    <3>12. /\ \E d \in X \cup {c} : d.kind = "record" /\ d.usr = g.usr
           /\ c.kind \in ClassLike /\ Class(c) = g.usr
      BY <2>4, <3>7 DEF HasClass, ClassLike, Class
    <3>13. QED
      BY <1>1, <3>10, <3>11, <3>12, UnitedWith
  <2>5. QED
    BY <2>1, <2>2, <2>3, <2>4 DEF ClassLike
<1>6. RecordsRead(v, X \cup {c})
  BY <1>2, <1>3, <1>5 DEF RecordsRead
<1>7. QED
  BY <1>6

VisitCursorTurns(X, p, c) == VisitCursor(p, c)
VisitCursorHolds(X, p, Y) == FunctionsRead(p, X \cup Y)
VisitCursorLoop == INSTANCE Folding WITH Op <- VisitCursorTurns, Holds <- VisitCursorHolds

Typed(X) == \A c \in X : c.kind \in FunctionLike => c.def \in BOOLEAN /\ c.dflt \in BOOLEAN

MembersAfterClass(s) ==
  \A i \in DOMAIN s : s[i].kind \in {"method", "ctor", "dtor"} =>
    \E j \in 1 .. i : s[j].kind = "record" /\ s[j].usr = s[i].owner

LEMMA FunctionsOfUnit ==
  ASSUME NEW base, NEW X, NEW s, s \in Seq(ToSet(s)), FunctionsRead(base, X)
  PROVE  FunctionsRead(FoldLeft(VisitCursor, base, s), X \cup ToSet(s))
<1>1. FoldLeft(VisitCursor, base, s) = VisitCursorLoop!Fold(X, base, s)
  BY DEF VisitCursorTurns, VisitCursorLoop!Fold, FoldLeft, MapThenFoldSet, VisitCursorLoop!MapThenFoldSet,
         Max, VisitCursorLoop!Last
<1>2. VisitCursorHolds(X, base, {})
  BY DEF VisitCursorHolds
<1>3. ASSUME NEW built, NEW Y, NEW c, VisitCursorHolds(X, built, Y)
      PROVE  VisitCursorHolds(X, VisitCursorTurns(X, built, c), Y \cup {c})
  <2>1. FunctionsRead(VisitCursor(built, c), (X \cup Y) \cup {c})
    BY <1>3, FunctionsTurn DEF VisitCursorHolds
  <2>2. QED
    BY <2>1 DEF VisitCursorHolds, VisitCursorTurns
<1> HIDE DEF VisitCursorHolds, VisitCursorTurns
<1>4. VisitCursorHolds(X, VisitCursorLoop!Fold(X, base, s), ToSet(s))
  BY <1>2, <1>3, VisitCursorLoop!Invariance DEF ToSet
<1>5. QED
  BY <1>1, <1>4 DEF VisitCursorHolds

LEMMA RecordsOfUnit ==
  ASSUME NEW base, NEW X, NEW s, s \in Seq(ToSet(s)), RecordsRead(base, X), Typed(ToSet(s)),
         OneFormEach(X \cup ToSet(s)), OneOwner(X \cup ToSet(s)), MembersAfterClass(s)
  PROVE  RecordsRead(FoldLeft(VisitCursor, base, s), X \cup ToSet(s))
<1> DEFINE n == Len(s)
           S == ToSet(s)
           seen(i) == VisitCursorLoop!Seen(s, i)
<1>1. FoldLeft(VisitCursor, base, s) = VisitCursorLoop!Fold(0, base, s)
  BY DEF VisitCursorTurns, VisitCursorLoop!Fold, FoldLeft, MapThenFoldSet,
         VisitCursorLoop!MapThenFoldSet, Max, VisitCursorLoop!Last
<1>2. s \in Seq(S) /\ n \in Nat /\ S = {s[i] : i \in DOMAIN s} /\ \A i \in 1 .. n : s[i] \in S
  BY DEF ToSet
<1> HIDE DEF S
<1>3. PICK built : /\ built[0] = base
                   /\ \A i \in 1 .. n : built[i] = VisitCursor(built[i - 1], s[i])
                   /\ VisitCursorLoop!Fold(0, base, s) = built[n]
  BY <1>2, VisitCursorLoop!FoldByTurns DEF VisitCursorTurns
<1>4. seen(0) = {} /\ seen(n) = S /\ \A i \in 1 .. n : seen(i) = seen(i - 1) \cup {s[i]}
  BY <1>2, VisitCursorLoop!SeenGrows
<1>5. ASSUME NEW i \in 1 .. n
      PROVE  HasClass(X \cup seen(i - 1), s[i]) /\ (X \cup seen(i - 1)) \cup {s[i]} \subseteq X \cup S
  <2>1. seen(i - 1) = {s[j] : j \in 1 .. i - 1}
    BY DEF VisitCursorLoop!Seen
  <2>2. DOMAIN s = 1 .. n
    BY <1>2
  <2>3. ASSUME s[i].kind \in {"method", "ctor", "dtor"}
        PROVE  \E d \in seen(i - 1) : d.kind = "record" /\ d.usr = s[i].owner
    <3>1. PICK j \in 1 .. i : s[j].kind = "record" /\ s[j].usr = s[i].owner
      BY <2>2, <2>3 DEF MembersAfterClass
    <3>2. j # i
      BY <2>3, <3>1
    <3>3. j \in 1 .. i - 1
      BY <3>2
    <3>4. QED
      BY <2>1, <3>1, <3>3
  <2>4. seen(i - 1) \subseteq S
    <3>1. \A j \in 1 .. i - 1 : j \in 1 .. n
      BY <1>2
    <3>2. QED
      BY <1>2, <2>1, <3>1
  <2> HIDE DEF seen
  <2>5. QED
    BY <1>2, <2>3, <2>4 DEF HasClass
<1> HIDE DEF seen
<1> DEFINE T == {i \in 0 .. n : RecordsRead(built[i], X \cup seen(i))}
<1>6. 0 \in T
  <2>1. X \cup seen(0) = X
    BY <1>4
  <2>2. RecordsRead(built[0], X \cup seen(0))
    BY <1>3, <2>1
  <2>3. QED
    BY <1>2, <2>2
<1>7. ASSUME NEW i \in 1 .. n, i - 1 \in T
      PROVE  i \in T
  <2> DEFINE Z == X \cup seen(i - 1)
             x == s[i]
  <2>1. HasClass(Z, x) /\ Z \cup {x} \subseteq X \cup S /\ RecordsRead(built[i - 1], Z)
    BY <1>5, <1>7
  <2>2. Z \cup {x} = X \cup seen(i)
    BY <1>4
  <2>3. x.kind \in FunctionLike => x.def \in BOOLEAN /\ x.dflt \in BOOLEAN
    BY <1>2 DEF Typed, S
  <2>4. built[i] = VisitCursor(built[i - 1], x)
    BY <1>3
  <2> HIDE DEF Z, x
  <2>5. OneFormEach(Z \cup {x}) /\ OneOwner(Z \cup {x})
    <3>1. Z \cup {x} \subseteq X \cup ToSet(s)
      BY <2>1 DEF S
    <3>2. OneFormEach(Z \cup {x})
      BY <3>1 DEF OneFormEach
    <3>3. OneOwner(Z \cup {x})
      BY <3>1 DEF OneOwner
    <3>4. QED
      BY <3>2, <3>3
  <2>6. RecordsRead(VisitCursor(built[i - 1], x), Z \cup {x})
    BY <2>1, <2>3, <2>5, RecordsTurn
  <2>7. RecordsRead(built[i], X \cup seen(i))
    BY <2>2, <2>4, <2>6
  <2>8. QED
    BY <2>7
<1>8. n \in T
  <2> HIDE DEF T
  <2>1. QED
    BY <1>2, <1>6, <1>7, VisitCursorLoop!TurnByTurn
<1>9. QED
  BY <1>1, <1>3, <1>4, <1>8 DEF S

-----------------------------------------------------------------------------
(* Types: a list covers T if it has one entry for each usr in T, and for   *)
(* no other.                                                               *)
Covers(s, T) ==
  /\ List(s)
  /\ \A e \in ToSet(s) : \E t \in T : t.usr = e.usr
  /\ \A t \in T : \E e \in ToSet(s) : e.usr = t.usr

LEMMA FirstSeenTurn ==
  ASSUME NEW s, NEW T, NEW e, Covers(s, T)
  PROVE  Covers(FirstSeen(s, e), T \cup {e})
<1>1. CASE \E i \in DOMAIN s : s[i].usr = e.usr
  <2>1. FirstSeen(s, e) = s
    BY <1>1 DEF FirstSeen
  <2>2. \E d \in ToSet(s) : d.usr = e.usr
    BY <1>1 DEF ToSet
  <2>3. QED
    BY <2>1, <2>2 DEF Covers
<1>2. CASE ~\E i \in DOMAIN s : s[i].usr = e.usr
  <2>1. FirstSeen(s, e) = Append(s, e)
    BY <1>2 DEF FirstSeen
  <2>2. \A d \in ToSet(s) : d.usr # e.usr
    BY <1>2 DEF ToSet
  <2>3. List(Append(s, e)) /\ ToSet(Append(s, e)) = ToSet(s) \cup {e}
    BY <2>2, AppendNew DEF Covers
  <2>4. QED
    BY <2>1, <2>3 DEF Covers
<1>3. QED
  BY <1>1, <1>2

FirstSeenTurns(X, s, e) == FirstSeen(s, e)
FirstSeenHolds(X, s, Y) == Covers(s, X \cup Y)
FirstSeenLoop == INSTANCE Folding WITH Op <- FirstSeenTurns, Holds <- FirstSeenHolds

LEMMA CoversAll ==
  ASSUME NEW base, NEW X, NEW s, s \in Seq(ToSet(s)), Covers(base, X)
  PROVE  Covers(FoldLeft(FirstSeen, base, s), X \cup ToSet(s))
<1>1. FoldLeft(FirstSeen, base, s) = FirstSeenLoop!Fold(X, base, s)
  BY DEF FirstSeenTurns, FirstSeenLoop!Fold, FoldLeft, MapThenFoldSet, FirstSeenLoop!MapThenFoldSet,
         Max, FirstSeenLoop!Last
<1>2. FirstSeenHolds(X, base, {})
  BY DEF FirstSeenHolds
<1>3. ASSUME NEW built, NEW Y, NEW e, FirstSeenHolds(X, built, Y)
      PROVE  FirstSeenHolds(X, FirstSeenTurns(X, built, e), Y \cup {e})
  <2>1. Covers(FirstSeen(built, e), (X \cup Y) \cup {e})
    BY <1>3, FirstSeenTurn DEF FirstSeenHolds
  <2>2. QED
    BY <2>1 DEF FirstSeenHolds, FirstSeenTurns
<1> HIDE DEF FirstSeenHolds, FirstSeenTurns
<1>4. FirstSeenHolds(X, FirstSeenLoop!Fold(X, base, s), ToSet(s))
  BY <1>2, <1>3, FirstSeenLoop!Invariance DEF ToSet
<1>5. QED
  BY <1>1, <1>4 DEF FirstSeenHolds

MergeTypesTurns(D, s, p) == MergeTypes(s, p)
MergeTypesHolds(D, s, P) == Covers(s, D \cup UNION {ToSet(p.types) : p \in P})
MergeTypesLoop == INSTANCE Folding WITH Op <- MergeTypesTurns, Holds <- MergeTypesHolds

LEMMA TypesCovered ==
  ASSUME NEW base, NEW D, NEW s, s \in Seq(ToSet(s)), Covers(base, D),
         \A p \in ToSet(s) : p.types \in Seq(ToSet(p.types))
  PROVE  Covers(FoldLeft(MergeTypes, base, s), D \cup UNION {ToSet(p.types) : p \in ToSet(s)})
<1>1. FoldLeft(MergeTypes, base, s) = MergeTypesLoop!Fold(D, base, s)
  BY DEF MergeTypesTurns, MergeTypesLoop!Fold, FoldLeft, MapThenFoldSet, MergeTypesLoop!MapThenFoldSet,
         Max, MergeTypesLoop!Last
<1>2. MergeTypesHolds(D, base, {})
  <2>1. D \cup UNION {ToSet(p.types) : p \in {}} = D
    OBVIOUS
  <2>2. QED
    BY <2>1 DEF MergeTypesHolds
<1>3. ASSUME NEW built, NEW P, NEW p \in ToSet(s), MergeTypesHolds(D, built, P)
      PROVE  MergeTypesHolds(D, MergeTypesTurns(D, built, p), P \cup {p})
  <2> DEFINE t == p.types
             X == D \cup UNION {ToSet(q.types) : q \in P}
  <2>1. t \in Seq(ToSet(t)) /\ Covers(built, X)
    BY <1>3 DEF MergeTypesHolds
  <2>2. D \cup UNION {ToSet(q.types) : q \in P \cup {p}} = X \cup ToSet(t)
    OBVIOUS
  <2>3. MergeTypesTurns(D, built, p) = FoldLeft(FirstSeen, built, t)
    BY DEF MergeTypesTurns, MergeTypes
  <2> HIDE DEF t, X
  <2>4. Covers(FoldLeft(FirstSeen, built, t), X \cup ToSet(t))
    BY <2>1, CoversAll
  <2>5. QED
    BY <2>2, <2>3, <2>4 DEF MergeTypesHolds
<1> HIDE DEF MergeTypesHolds, MergeTypesTurns
<1>4. MergeTypesHolds(D, MergeTypesLoop!Fold(D, base, s), ToSet(s))
  BY <1>2, <1>3, MergeTypesLoop!Invariance DEF ToSet
<1>5. QED
  BY <1>1, <1>4 DEF MergeTypesHolds

(* The type a usr names in a unit that defines it.                         *)
OneType(X) ==
  \A c, d \in X : {c.kind, d.kind} \subseteq {"record", "alias"} /\ c.usr = d.usr => c = d

LEMMA LeastPosition ==
  ASSUME NEW P, P \subseteq Nat, P # {}
  PROVE  Min(P) \in P
<1> DEFINE T == {m \in Nat : (\E i \in P : i <= m) => \E i \in P : \A j \in P : i <= j}
<1>1. 0 \in T
  <2>1. \A i \in P : i <= 0 => \A j \in P : i <= j
    OBVIOUS
  <2>2. QED
    BY <2>1
<1>2. ASSUME NEW m \in Nat, m \in T
      PROVE  m + 1 \in T
  <2>1. CASE \E i \in P : i <= m
    BY <1>2, <2>1
  <2>2. CASE ~\E i \in P : i <= m
    <3>1. \A i \in P : i <= m + 1 => \A j \in P : i <= j
      BY <2>2
    <3>2. QED
      BY <3>1
  <2>3. QED
    BY <2>1, <2>2
<1>3. \A m \in Nat : m \in T
  <2> HIDE DEF T
  <2>1. QED
    BY <1>1, <1>2, FirstSeenLoop!Induction
<1>4. PICK k : k \in P /\ k \in Nat
  OBVIOUS
<1>5. k \in T /\ k <= k
  BY <1>3, <1>4
<1>6. \E i \in P : \A j \in P : i <= j
  BY <1>4, <1>5
<1>7. QED
  BY <1>6 DEF Min

DescriptionOf(c) == [usr |-> c.usr, site |-> c.site]

LEMMA ResolvesTo ==
  ASSUME NEW unit, unit.cursors \in Seq(ToSet(unit.cursors)), OneType(ToSet(unit.cursors)),
         NEW a \in ToSet(unit.cursors), a.kind = "record", InProject(a)
  PROVE  Resolved(unit, a.usr) = {DescriptionOf(a)}
<1> DEFINE s == unit.cursors
           P == Declaring(unit, a.usr, {"record", "alias"})
<1>1. DOMAIN s = 1 .. Len(s) /\ Len(s) \in Nat
  OBVIOUS
<1>2. PICK i \in DOMAIN s : s[i] = a
  BY DEF ToSet
<1>3. P = {j \in DOMAIN s : s[j].kind \in {"record", "alias"} /\ s[j].usr = a.usr}
  BY DEF Declaring
<1>4. P \subseteq Nat /\ P # {}
  BY <1>1, <1>2, <1>3
<1> HIDE DEF P
<1>5. Min(P) \in P
  BY <1>4, LeastPosition
<1>6. s[Min(P)] \in ToSet(s) /\ s[Min(P)].kind \in {"record", "alias"} /\ s[Min(P)].usr = a.usr
  BY <1>3, <1>5 DEF ToSet
<1>7. s[Min(P)] = a
  BY <1>6 DEF OneType
<1>8. Resolved(unit, a.usr) = Described(s[Min(P)])
  BY <1>4 DEF Resolved, P
<1>9. QED
  BY <1>7, <1>8 DEF Described, DescriptionOf

TypeFields == {"types", "deps", "uses", "pointers", "units", "headers"}

\* The edges and the uses a cursor of the unit stands for.
IsMember(c) == c.kind = "mention" /\ c.use \in {"field", "inheritance"}
IsUse(c) == c.kind = "mention" /\ c.use \in {"parameter", "variable", "return"}

DepsOf(unit, c) ==
  IF c.kind = "alias" THEN Edges(Described(c), Resolved(unit, c.type))
  ELSE IF IsMember(c) THEN Edges(Resolved(unit, c.owner), Resolved(unit, c.type))
  ELSE {}

UsesOf(unit, c) ==
  IF c.kind = "alias" THEN Uses(unit, c, "alias")
  ELSE IF IsUse(c) \/ (IsMember(c) /\ Resolved(unit, c.owner) # {}) THEN Uses(unit, c, c.use)
  ELSE {}

Definition(c) == c.kind \in {"record", "alias"} /\ InProject(c)

LEMMA FactVisited ==
  ASSUME NEW unit, NEW p, NEW c, DOMAIN p = TypeFields
  PROVE  LET q == VisitFacts(unit, p, c)
         IN /\ DOMAIN q = TypeFields
            /\ q.types = IF Definition(c) THEN FirstSeen(p.types, DescriptionOf(c)) ELSE p.types
            /\ q.units = p.units /\ q.headers = p.headers
            /\ q.deps = p.deps \cup DepsOf(unit, c)
            /\ q.uses = p.uses \cup UsesOf(unit, c)
            /\ q.pointers = IF IsPointer(c) THEN Append(p.pointers, PointerOf(unit, c)) ELSE p.pointers
<1> DEFINE d == VisitDefinition(p, c)
           t == VisitType(unit, p, c)
           q == VisitPointer(unit, t, c)
<1>1. DOMAIN d = TypeFields /\ d.units = p.units /\ d.deps = p.deps /\ d.uses = p.uses
      /\ d.headers = p.headers /\ d.pointers = p.pointers
      /\ d.types = IF InProject(c) THEN FirstSeen(p.types, DescriptionOf(c)) ELSE p.types
  BY DEF VisitDefinition, TypeFields, DescriptionOf
<1>2. /\ DOMAIN t = TypeFields
      /\ t.types = IF Definition(c) THEN FirstSeen(p.types, DescriptionOf(c)) ELSE p.types
      /\ t.units = p.units /\ t.headers = p.headers /\ t.pointers = p.pointers
      /\ t.deps = p.deps \cup DepsOf(unit, c)
      /\ t.uses = p.uses \cup UsesOf(unit, c)
  <2>1. CASE c.kind = "record"
    <3>1. t = d
      BY <2>1 DEF VisitType
    <3>2. DepsOf(unit, c) = {} /\ UsesOf(unit, c) = {}
      BY <2>1 DEF DepsOf, UsesOf, IsMember, IsUse
    <3> HIDE DEF t, d
    <3>3. QED
      BY <1>1, <2>1, <3>1, <3>2 DEF Definition
  <2>2. CASE c.kind = "alias"
    <3>1. t = VisitAlias(unit, p, c)
      BY <2>2 DEF VisitType
    <3>2. t = [d EXCEPT !.uses = @ \cup Uses(unit, c, "alias"),
                        !.deps = @ \cup Edges(Described(c), Resolved(unit, c.type))]
      BY <3>1 DEF VisitAlias
    <3>3. DepsOf(unit, c) = Edges(Described(c), Resolved(unit, c.type)) /\ UsesOf(unit, c) = Uses(unit, c, "alias")
      BY <2>2 DEF DepsOf, UsesOf
    <3> HIDE DEF t, d
    <3>4. t = [d EXCEPT !.uses = @ \cup UsesOf(unit, c), !.deps = @ \cup DepsOf(unit, c)]
      BY <3>2, <3>3
    <3>5. DOMAIN t = TypeFields /\ t.types = d.types /\ t.units = d.units /\ t.headers = d.headers
          /\ t.pointers = d.pointers /\ t.deps = d.deps \cup DepsOf(unit, c)
          /\ t.uses = d.uses \cup UsesOf(unit, c)
      BY <1>1, <3>4 DEF TypeFields
    <3>6. QED
      BY <1>1, <2>2, <3>5 DEF Definition
  <2>3. CASE IsMember(c)
    <3>1. t = VisitMemberType(unit, p, c) /\ ~Definition(c)
          /\ DepsOf(unit, c) = Edges(Resolved(unit, c.owner), Resolved(unit, c.type))
          /\ UsesOf(unit, c) = IF Resolved(unit, c.owner) # {} THEN Uses(unit, c, c.use) ELSE {}
      BY <2>3 DEF VisitType, IsMember, IsUse, Definition, DepsOf, UsesOf
    <3>2. CASE Resolved(unit, c.owner) = {}
      <4>1. t = p
        BY <3>1, <3>2 DEF VisitMemberType
      <4>2. DepsOf(unit, c) = {} /\ UsesOf(unit, c) = {}
        BY <3>1, <3>2 DEF Edges
      <4> HIDE DEF t
      <4>3. QED
        BY <3>1, <4>1, <4>2
    <3>3. CASE Resolved(unit, c.owner) # {}
      <4>1. t = [p EXCEPT !.uses = @ \cup UsesOf(unit, c), !.deps = @ \cup DepsOf(unit, c)]
        BY <3>1, <3>3 DEF VisitMemberType
      <4> HIDE DEF t
      <4>2. DOMAIN t = TypeFields /\ t.types = p.types /\ t.units = p.units /\ t.headers = p.headers
            /\ t.pointers = p.pointers /\ t.deps = p.deps \cup DepsOf(unit, c)
            /\ t.uses = p.uses \cup UsesOf(unit, c)
        BY <4>1 DEF TypeFields
      <4>3. QED
        BY <3>1, <4>2
    <3>4. QED
      BY <3>2, <3>3
  <2>4. CASE IsUse(c)
    <3>1. t = [p EXCEPT !.uses = @ \cup UsesOf(unit, c)] /\ DepsOf(unit, c) = {} /\ ~Definition(c)
      BY <2>4 DEF VisitType, IsUse, IsMember, UsesOf, DepsOf, Definition
    <3> HIDE DEF t
    <3>2. DOMAIN t = TypeFields /\ t.types = p.types /\ t.units = p.units /\ t.headers = p.headers
          /\ t.pointers = p.pointers /\ t.deps = p.deps /\ t.uses = p.uses \cup UsesOf(unit, c)
      BY <3>1 DEF TypeFields
    <3>3. QED
      BY <3>1, <3>2
  <2>5. CASE c.kind \notin {"record", "alias"} /\ ~IsMember(c) /\ ~IsUse(c)
    <3>1. t = p /\ DepsOf(unit, c) = {} /\ UsesOf(unit, c) = {} /\ ~Definition(c)
      BY <2>5 DEF VisitType, IsMember, IsUse, DepsOf, UsesOf, Definition
    <3> HIDE DEF t
    <3>2. QED
      BY <3>1
  <2>6. QED
    BY <2>1, <2>2, <2>3, <2>4, <2>5
<1> HIDE DEF t
<1>3. DOMAIN q = TypeFields /\ q.types = t.types /\ q.units = t.units /\ q.deps = t.deps
      /\ q.uses = t.uses /\ q.headers = t.headers
      /\ q.pointers = IF IsPointer(c) THEN Append(t.pointers, PointerOf(unit, c)) ELSE t.pointers
  BY <1>2 DEF VisitPointer, TypeFields
<1>4. VisitFacts(unit, p, c) = q
  BY DEF VisitFacts, t
<1> HIDE DEF q
<1>5. QED
  BY <1>2, <1>3, <1>4

\* The edges of the mentions X of a unit, between classes it defines.
EdgesHold(deps, unit, X) ==
  \A c \in X : \A a, b \in {d \in ToSet(unit.cursors) : d.kind = "record" /\ InProject(d)} :
    (/\ c.kind = "mention" /\ c.use \in {"field", "inheritance"}
     /\ c.owner = a.usr /\ c.type = b.usr /\ a # b) => <<DescriptionOf(a), DescriptionOf(b)>> \in deps

DefinedIn(X) == {c \in X : Definition(c)}

\* What p is once the cursors X of a unit are visited, Y was defined before.
FactsRead(base, p, unit, Y, X) ==
  /\ DOMAIN p = TypeFields
  /\ Covers(p.types, Y \cup DefinedIn(X))
  /\ base.deps \subseteq p.deps
  /\ p.units = base.units
  /\ EdgesHold(p.deps, unit, X)

LEMMA FactsTurn ==
  ASSUME NEW unit, unit.cursors \in Seq(ToSet(unit.cursors)), OneType(ToSet(unit.cursors)),
         NEW base, NEW p, NEW Y, NEW X, NEW c, FactsRead(base, p, unit, Y, X)
  PROVE  FactsRead(base, VisitFacts(unit, p, c), unit, Y, X \cup {c})
<1> DEFINE q == VisitFacts(unit, p, c)
<1>1. /\ DOMAIN q = TypeFields
      /\ q.types = IF Definition(c) THEN FirstSeen(p.types, DescriptionOf(c)) ELSE p.types
      /\ q.units = p.units
      /\ p.deps \subseteq q.deps
      /\ c.kind = "mention" /\ c.use \in {"field", "inheritance"} =>
           Edges(Resolved(unit, c.owner), Resolved(unit, c.type)) \subseteq q.deps
  <2>1. c.kind = "mention" /\ c.use \in {"field", "inheritance"} =>
          DepsOf(unit, c) = Edges(Resolved(unit, c.owner), Resolved(unit, c.type))
    BY DEF DepsOf, IsMember
  <2>2. QED
    BY <2>1, FactVisited DEF FactsRead
<1> HIDE DEF q
<1>2. Covers(q.types, Y \cup DefinedIn(X \cup {c}))
  <2> DEFINE Z == Y \cup DefinedIn(X)
  <2>1. Covers(p.types, Z)
    BY DEF FactsRead
  <2>2. CASE Definition(c)
    <3>1. Y \cup DefinedIn(X \cup {c}) = Z \cup {c}
      BY <2>2 DEF DefinedIn
    <3> HIDE DEF Z
    <3>2. Covers(q.types, Z \cup {DescriptionOf(c)})
      BY <1>1, <2>1, <2>2, FirstSeenTurn
    <3>3. DescriptionOf(c).usr = c.usr
      BY DEF DescriptionOf
    <3>4. Covers(q.types, Z \cup {c})
      BY <3>2, <3>3 DEF Covers
    <3>5. QED
      BY <3>1, <3>4
  <2>3. CASE ~Definition(c)
    <3>1. Y \cup DefinedIn(X \cup {c}) = Z
      BY <2>3 DEF DefinedIn
    <3>2. QED
      BY <1>1, <2>1, <2>3, <3>1
  <2>4. QED
    BY <2>2, <2>3
<1>3. EdgesHold(q.deps, unit, X \cup {c})
  <2>1. EdgesHold(q.deps, unit, X)
    BY <1>1 DEF FactsRead, EdgesHold
  <2>2. ASSUME NEW a \in ToSet(unit.cursors), NEW b \in ToSet(unit.cursors),
               a.kind = "record", InProject(a), b.kind = "record", InProject(b),
               c.kind = "mention", c.use \in {"field", "inheritance"},
               c.owner = a.usr, c.type = b.usr, a # b
        PROVE  <<DescriptionOf(a), DescriptionOf(b)>> \in q.deps
    <3>1. Resolved(unit, a.usr) = {DescriptionOf(a)} /\ Resolved(unit, b.usr) = {DescriptionOf(b)}
      BY <2>2, ResolvesTo
    <3>2. a.usr # b.usr
      BY <2>2 DEF OneType
    <3>3. DescriptionOf(a) # DescriptionOf(b)
      BY <3>2 DEF DescriptionOf
    <3>4. <<DescriptionOf(a), DescriptionOf(b)>> \in Edges({DescriptionOf(a)}, {DescriptionOf(b)})
      BY <3>3 DEF Edges
    <3>5. QED
      BY <1>1, <2>2, <3>1, <3>4
  <2>3. QED
    BY <2>1, <2>2 DEF EdgesHold
<1>4. FactsRead(base, q, unit, Y, X \cup {c})
  BY <1>1, <1>2, <1>3 DEF FactsRead
<1>5. QED
  BY <1>4 DEF q

\* x has the unit, what there was before it and what was defined before it.
FactsTurns(x, p, c) == VisitFacts(x.unit, p, c)
FactsHolds(x, p, X) == FactsRead(x.base, p, x.unit, x.defined, X)
FactsLoop == INSTANCE Folding WITH Op <- FactsTurns, Holds <- FactsHolds

LEMMA FactsOfUnit ==
  ASSUME NEW unit, unit.cursors \in Seq(ToSet(unit.cursors)), OneType(ToSet(unit.cursors)),
         NEW p, NEW Y, DOMAIN p = TypeFields, Covers(p.types, Y)
  PROVE  FactsRead(VisitFiles(unit, p), VisitTypeFacts(p, unit), unit, Y, ToSet(unit.cursors))
<1> DEFINE s == unit.cursors
           base == VisitFiles(unit, p)
           x == [unit |-> unit, base |-> base, defined |-> Y]
<1>1. VisitTypeFacts(p, unit) = FactsLoop!Fold(x, base, s)
  BY DEF VisitTypeFacts, FactsTurns, FactsLoop!Fold, FoldLeft, MapThenFoldSet,
         FactsLoop!MapThenFoldSet, Max, FactsLoop!Last
<1>2. FactsHolds(x, base, {})
  <2>1. DOMAIN base = TypeFields /\ base.types = p.types
    BY DEF VisitFiles, TypeFields
  <2> HIDE DEF base
  <2>2. Y \cup DefinedIn({}) = Y /\ EdgesHold(base.deps, unit, {})
    BY DEF DefinedIn, EdgesHold
  <2>3. FactsRead(base, base, unit, Y, {})
    BY <2>1, <2>2 DEF FactsRead
  <2>4. QED
    BY <2>3 DEF FactsHolds
<1>3. ASSUME NEW built, NEW X, NEW c, FactsHolds(x, built, X)
      PROVE  FactsHolds(x, FactsTurns(x, built, c), X \cup {c})
  <2> HIDE DEF base
  <2>1. FactsRead(base, built, unit, Y, X)
    BY <1>3 DEF FactsHolds
  <2>2. FactsRead(base, VisitFacts(unit, built, c), unit, Y, X \cup {c})
    BY <2>1, FactsTurn
  <2>3. QED
    BY <2>2 DEF FactsHolds, FactsTurns
<1>4. FactsHolds(x, FactsLoop!Fold(x, base, s), ToSet(s))
  <2> HIDE DEF FactsHolds, FactsTurns, x, base, s
  <2>1. s \in Seq(ToSet(s))
    BY DEF s
  <2>2. QED
    BY <1>2, <1>3, <2>1, FactsLoop!Invariance DEF ToSet
<1>5. FactsHolds(x, VisitTypeFacts(p, unit), ToSet(s))
  BY <1>1, <1>4
<1> HIDE DEF base
<1>6. QED
  BY <1>5 DEF FactsHolds, base

-----------------------------------------------------------------------------
(* What is in a list, and how many it has.                                 *)
LEMMA Within ==
  ASSUME NEW T, NEW s \in Seq(T)
  PROVE  s \in Seq(ToSet(s)) /\ ToSet(s) \subseteq T
<1>1. DOMAIN s = 1 .. Len(s) /\ Len(s) \in Nat /\ \A i \in DOMAIN s : s[i] \in ToSet(s) /\ s[i] \in T
  BY DEF ToSet
<1>2. ToSet(s) \subseteq T
  BY <1>1 DEF ToSet
<1> DEFINE S == ToSet(s)
<1> HIDE DEF S
<1>3. s = [i \in 1 .. Len(s) |-> s[i]] /\ \A i \in 1 .. Len(s) : s[i] \in S
  BY <1>1 DEF S
<1>4. s \in Seq(S)
  BY <1>1, <1>3
<1> QED BY <1>2, <1>4 DEF S

LEMMA OneOfAUsr ==
  ASSUME NEW s, List(s), NEW e \in ToSet(s), NEW f \in ToSet(s), e.usr = f.usr
  PROVE  e = f
BY DEF List, ToSet

LEMMA CountsElements ==
  ASSUME NEW s, List(s)
  PROVE  Len(s) = Cardinality(ToSet(s)) /\ IsFiniteSet(ToSet(s))
<1> DEFINE n == Len(s)
           f == [i \in 1 .. n |-> s[i]]
<1>1. n \in Nat /\ DOMAIN s = 1 .. n /\ ToSet(s) = {s[i] : i \in DOMAIN s}
  BY Positions DEF List, ToSet
<1>2. \A i, j \in 1 .. n : s[i] = s[j] => i = j
  BY <1>1 DEF List
<1>3. f \in Bijection(1 .. n, ToSet(s))
  BY <1>1, <1>2 DEF Bijection, Injection, Surjection, IsInjective
<1>4. ExistsBijection(1 .. n, ToSet(s))
  BY <1>3 DEF ExistsBijection
<1>5. IsFiniteSet(1 .. n) /\ Cardinality(1 .. n) = n
  <2> HIDE DEF n
  <2>1. ASSUME NEW a \in Int, NEW b \in Int
        PROVE  IsFiniteSet(a .. b) /\ Cardinality(a .. b) = IF a > b THEN 0 ELSE b - a + 1
    BY FS_Interval
  <2>2. 1 \in Int /\ n \in Int
    BY <1>1
  <2>3. IsFiniteSet(1 .. n) /\ Cardinality(1 .. n) = IF 1 > n THEN 0 ELSE n - 1 + 1
    BY <2>1, <2>2
  <2>4. (IF 1 > n THEN 0 ELSE n - 1 + 1) = n
    BY <1>1
  <2> QED BY <2>3, <2>4
<1> QED BY <1>4, <1>5, FS_Bijection

LEMMA AloneAt ==
  ASSUME NEW n \in Nat, NEW T \in SUBSET (1 .. n), NEW i \in T
  PROVE  IsFiniteSet(T) /\ (Cardinality(T) = 1 <=> \A j \in T : j = i)
<1>1. IsFiniteSet(T)
  <2>1. IsFiniteSet(1 .. n)
    <3>1. 1 \in Int /\ n \in Int
      OBVIOUS
    <3> QED BY <3>1, FS_Interval
  <2> QED BY <2>1, FS_Subset, Zenon
<1>2. Cardinality(T) = 1 <=> \E x : T = {x}
  BY <1>1, FS_Singleton
<1>3. (\E x : T = {x}) <=> \A j \in T : j = i
  <2>1. (\A j \in T : j = i) => T = {i}
    BY Zenon
  <2> QED BY <2>1
<1> QED BY <1>1, <1>2, <1>3

-----------------------------------------------------------------------------
(* What is glued to a name tells it apart from the name.                   *)
Words(name) == name \in Seq(ToSet(name))

LEMMA Glued ==
  ASSUME NEW a, NEW b, NEW m, NEW n, Words(a), Words(b)
  PROVE  Append(a, m) # a /\ (Append(a, m) = Append(b, n) => a = b /\ m = n)
<1> DEFINE S == ToSet(a) \cup ToSet(b) \cup {m, n}
<1>1. a \in Seq(S) /\ b \in Seq(S) /\ m \in S /\ n \in S
  BY DEF Words
<1> HIDE DEF S
<1> QED BY <1>1

\* A numeral for each of the first numbers, and another one for each.
Enough(k) == k \in Nat /\ k <= Len(Numeral)

LEMMA NumeralsDiffer ==
  ASSUME NEW k, NEW l, Enough(k), Enough(l), k > 0, l > 0
  PROVE  Numeral[k] \in ToSet(Numeral) /\ Numeral[k] # "_" /\ (Numeral[k] = Numeral[l] => k = l)
<1>1. Numeral \in Seq(ToSet(Numeral))
  BY NamingAssumption, Zenon
<1>2. k \in DOMAIN Numeral /\ l \in DOMAIN Numeral
  BY <1>1 DEF Enough
<1>3. Numeral[k] \in ToSet(Numeral)
  BY <1>2 DEF ToSet
<1> QED BY <1>2, <1>3, NamingAssumption, Zenon

LEMMA Ranked ==
  ASSUME NEW usr \in ToSet(UsrOrder)
  PROVE  LET rank == SelectInSeq(UsrOrder, LAMBDA u : u = usr)
         IN rank \in Nat /\ UsrOrder[rank] = usr
<1> DEFINE I == {i \in 1 .. Len(UsrOrder) : UsrOrder[i] = usr}
<1>1. UsrOrder \in Seq(ToSet(UsrOrder))
  BY NamingAssumption, Zenon
<1>2. I # {} /\ I \subseteq Nat
  BY <1>1 DEF ToSet
<1>3. SelectInSeq(UsrOrder, LAMBDA u : u = usr) = Min(I)
  BY <1>2 DEF SelectInSeq
<1>4. Min(I) \in I
  <2> HIDE DEF I
  <2> QED BY <1>2, LeastPosition
<1> QED BY <1>3, <1>4

\* A part that the first of two orders ends is smaller than what it is part of.
LEMMA SmallerPart ==
  ASSUME NEW T, IsFiniteSet(T), NEW S \in SUBSET T, NEW x \in T, x \notin S
  PROVE  Cardinality(S) \in Nat /\ Cardinality(T) \in Nat /\ Cardinality(S) < Cardinality(T)
<1>1. IsFiniteSet(S) /\ Cardinality(S) <= Cardinality(T) /\ (Cardinality(S) = Cardinality(T) => S = T)
  BY FS_Subset
<1>2. Cardinality(S) \in Nat /\ Cardinality(T) \in Nat
  BY <1>1, FS_CardinalityType
<1> QED BY <1>1, <1>2

-----------------------------------------------------------------------------
(* The overloads of a group.                                               *)
LEMMA RenamedIsOne ==
  ASSUME NEW group, List(group), NEW records, NEW d
  PROVE  Renamed(group, records, d) \in NamesFor(d)
<1>1. Len(group) \in Nat
  BY Positions DEF List
<1>2. CASE Len(group) <= 1
  <2>1. Renamed(group, records, d) = d.name
    BY <1>1, <1>2 DEF Renamed
  <2>2. d.name \in NamesFor(d)
    BY Zenon DEF NamesFor
  <2> QED BY <2>1, <2>2
<1>3. CASE Len(group) > 1 /\ IsOperator(d.name)
  <2>1. Renamed(group, records, d) = OperatorRename(group, records, d)
    BY <1>1, <1>3 DEF Renamed
  <2> QED BY <1>3, <2>1 DEF OperatorRename, NamesFor
<1>4. CASE Len(group) > 1 /\ ~IsOperator(d.name)
  <2> DEFINE plain == d.name
             static == Append(plain, "Static")
             tail == IF d.const THEN <<"Const">> ELSE <<>>
             suffixed(s) == d.name \o Suffix(d.params) \o s
  <2>1. tail \in {<<>>, <<"Const">>}
    OBVIOUS
  <2>2. Renamed(group, records, d) =
          (CASE Len(group) <= 1 -> plain
             [] Len(group) > 1 /\ IsOperator(d.name) -> OperatorRename(group, records, d)
             [] Len(group) > 1 /\ ~IsOperator(d.name) /\ MixesStatic(group) ->
                  IF d.static THEN static ELSE plain
             [] Len(group) > 1 /\ ~IsOperator(d.name) /\ ~MixesStatic(group) /\ ConstPair(group) -> plain
             [] OTHER -> suffixed(tail))
    BY DEF Renamed
  <2>3. NamesFor(d) = {plain, static} \cup {suffixed(s) : s \in {<<>>, <<"Const">>}}
    BY <1>4 DEF NamesFor
  <2> HIDE DEF plain, static, suffixed, tail
  <2>4. Renamed(group, records, d) \in {plain, static, suffixed(tail)}
    <3>1. ~(Len(group) <= 1) /\ ~IsOperator(d.name)
      BY <1>1, <1>4
    <3> QED BY <2>2, <3>1
  <2> QED BY <2>1, <2>3, <2>4
<1> QED BY <1>1, <1>2, <1>3, <1>4

\* Names that no other overload of the group may be numbered into.
Apart(group) ==
  /\ \A d \in ToSet(group) : d.usr \in ToSet(UsrOrder) /\ \A name \in NamesFor(d) : Words(name)
  /\ \A d, e \in ToSet(group) : d # e => \A name \in NamesFor(d) :
       /\ \A word \in ReservedWords : name # Append(word, "_")
       /\ \A n \in ToSet(Numeral) : \A other \in NamesFor(e) : name # Append(other, n)

UpTo(group, records, d) ==
  {e \in ToSet(group) : /\ Renamed(group, records, e) = Renamed(group, records, d)
                        /\ SelectInSeq(UsrOrder, LAMBDA u : u = e.usr)
                             <= SelectInSeq(UsrOrder, LAMBDA u : u = d.usr)}

LEMMA Counted ==
  ASSUME NEW g, List(g), Apart(g), Enough(Len(g)), NEW R, NEW d \in ToSet(g), NEW e \in ToSet(g)
  PROVE  LET k == Cardinality(UpTo(g, R, d))
             l == Cardinality(UpTo(g, R, e))
             name == Renamed(g, R, d)
         IN /\ Enough(k) /\ k > 0
            /\ Numbered(g, R, d) = IF k = 1 THEN name ELSE Append(name, Numeral[k])
            /\ (name = Renamed(g, R, e) /\ k = l) => d = e
<1> DEFINE rank(x) == SelectInSeq(UsrOrder, LAMBDA u : u = x.usr)
           S(x) == UpTo(g, R, x)
           name(x) == Renamed(g, R, x)
<1>1. \A x \in ToSet(g) : rank(x) \in Nat /\ UsrOrder[rank(x)] = x.usr
  BY Ranked, Zenon DEF Apart
<1>2. \A x : S(x) = {y \in ToSet(g) : name(y) = name(x) /\ rank(y) <= rank(x)}
  BY DEF UpTo
<1>3. IsFiniteSet(ToSet(g)) /\ Len(g) = Cardinality(ToSet(g))
  BY CountsElements
<1>4. Numbered(g, R, d) = IF Cardinality(S(d)) <= 1 THEN name(d) ELSE Append(name(d), Numeral[Cardinality(S(d))])
  BY DEF Numbered, UpTo
<1> HIDE DEF rank, S, name
<1>5. \A x \in ToSet(g) : x \in S(x) /\ S(x) \subseteq ToSet(g)
  BY <1>1, <1>2
<1>6. \A x \in ToSet(g) : IsFiniteSet(S(x)) /\ Cardinality(S(x)) \in Nat /\ Cardinality(S(x)) <= Len(g) /\ Cardinality(S(x)) > 0
  <2>1. ASSUME NEW x \in ToSet(g)
        PROVE  IsFiniteSet(S(x)) /\ Cardinality(S(x)) \in Nat /\ Cardinality(S(x)) <= Len(g) /\ Cardinality(S(x)) > 0
    <3>1. S(x) \in SUBSET ToSet(g) /\ S(x) # {}
      BY <1>5
    <3>2. IsFiniteSet(S(x)) /\ Cardinality(S(x)) <= Len(g)
      BY <1>3, <3>1, FS_Subset
    <3>3. Cardinality(S(x)) \in Nat /\ Cardinality(S(x)) # 0
      BY <3>1, <3>2, FS_CardinalityType, FS_EmptySet
    <3> QED BY <3>2, <3>3
  <2> QED BY <2>1
<1>7. ASSUME NEW x \in ToSet(g), NEW y \in ToSet(g), name(x) = name(y), rank(x) < rank(y)
      PROVE  Cardinality(S(x)) # Cardinality(S(y))
  <2>1. S(x) \in SUBSET S(y) /\ y \in S(y) /\ y \notin S(x)
    BY <1>1, <1>2, <1>7
  <2>2. Cardinality(S(x)) \in Nat /\ Cardinality(S(y)) \in Nat /\ Cardinality(S(x)) < Cardinality(S(y))
    BY <1>6, <2>1, SmallerPart
  <2> QED BY <2>2
<1>8. ASSUME name(d) = name(e), Cardinality(S(d)) = Cardinality(S(e))
      PROVE  d = e
  <2>1. ~(rank(d) < rank(e)) /\ ~(rank(e) < rank(d))
    BY <1>7, <1>8
  <2>2. d.usr = e.usr
    BY <1>1, <2>1
  <2> QED BY <2>2, OneOfAUsr
<1>9. Enough(Cardinality(S(d))) /\ Cardinality(S(d)) > 0
  BY <1>6 DEF Enough
<1>10. Numbered(g, R, d) = IF Cardinality(S(d)) = 1 THEN name(d) ELSE Append(name(d), Numeral[Cardinality(S(d))])
  BY <1>4, <1>6
<1> QED BY <1>8, <1>9, <1>10 DEF S, name

\* Two overloads of a group never end up with one name.
LEMMA NumbersTell ==
  ASSUME NEW g, List(g), Apart(g), Enough(Len(g)), NEW R, NEW d \in ToSet(g), NEW e \in ToSet(g), d # e
  PROVE  SafeName(Numbered(g, R, d)) # SafeName(Numbered(g, R, e))
<1> DEFINE a == Renamed(g, R, d)
           b == Renamed(g, R, e)
           k == Cardinality(UpTo(g, R, d))
           l == Cardinality(UpTo(g, R, e))
           x == Numbered(g, R, d)
           y == Numbered(g, R, e)
<1>1. /\ Enough(k) /\ k > 0 /\ x = (IF k = 1 THEN a ELSE Append(a, Numeral[k]))
      /\ Enough(l) /\ l > 0 /\ y = (IF l = 1 THEN b ELSE Append(b, Numeral[l]))
      /\ a = b => k # l
  BY Counted
<1>2. a \in NamesFor(d) /\ b \in NamesFor(e)
  BY RenamedIsOne
<1>3. /\ Words(a) /\ Words(b)
      /\ \A word \in ReservedWords : a # Append(word, "_") /\ b # Append(word, "_")
      /\ \A n \in ToSet(Numeral) : a # Append(b, n) /\ b # Append(a, n)
  BY <1>2, Zenon DEF Apart
<1> HIDE DEF a, b, k, l, x, y
<1>4. /\ Numeral[k] \in ToSet(Numeral) /\ Numeral[k] # "_"
      /\ Numeral[l] \in ToSet(Numeral) /\ Numeral[l] # "_"
      /\ Numeral[k] = Numeral[l] => k = l
  BY <1>1, NumeralsDiffer, Zenon
<1>5. ASSUME NEW m, NEW n
      PROVE  /\ Append(a, m) = Append(b, n) => a = b /\ m = n
             /\ Append(a, m) # a /\ Append(b, m) # b
  <2>1. Words(a) /\ Words(b)
    BY <1>3, Zenon
  <2>2. Append(a, m) # a /\ (Append(a, m) = Append(b, n) => a = b /\ m = n)
    BY ONLY <2>1, Glued
  <2>3. Append(b, m) # b
    BY ONLY <2>1, Glued
  <2> QED BY <2>2, <2>3
<1>6. x # y
  BY <1>1, <1>3, <1>4, <1>5
<1>7. Words(x) /\ Words(y)
  <2>1. ASSUME NEW s, Words(s), NEW n
        PROVE  Words(Append(s, n))
    <3> DEFINE S == ToSet(s) \cup {n}
               t == Append(s, n)
    <3>1. s \in Seq(S) /\ n \in S
      BY <2>1 DEF Words
    <3> HIDE DEF S
    <3>2. t \in Seq(S)
      BY <3>1
    <3> HIDE DEF t
    <3>3. t \in Seq(ToSet(t))
      BY <3>2, Within
    <3> QED BY <3>3 DEF Words, t
  <2> QED BY <1>1, <1>3, <2>1, Zenon
<1>8. ASSUME NEW word \in ReservedWords, Words(word)
      PROVE  x # Append(word, "_") /\ y # Append(word, "_")
  <2>1. \A n : (Append(a, n) = Append(word, "_") => n = "_") /\ (Append(b, n) = Append(word, "_") => n = "_")
    BY <1>3, <1>8, Glued, Zenon
  <2> QED BY <1>1, <1>3, <1>4, <2>1
<1>9. SafeName(x) = (IF x \in ReservedWords THEN Append(x, "_") ELSE x)
      /\ SafeName(y) = (IF y \in ReservedWords THEN Append(y, "_") ELSE y)
  BY DEF SafeName
<1>10. Append(x, "_") = Append(y, "_") => x = y
  BY <1>7, Glued, Zenon
<1>11. SafeName(x) # SafeName(y)
  BY <1>6, <1>7, <1>8, <1>9, <1>10, Zenon
<1> QED BY <1>11 DEF x, y

-----------------------------------------------------------------------------
(* There are numerals for as many as a list can have.                      *)
LEMMA FiniteElements ==
  ASSUME NEW s, s \in Seq(ToSet(s))
  PROVE  IsFiniteSet(ToSet(s))
<1> DEFINE n == Len(s)
           T == ToSet(s)
<1>1. n \in Nat /\ s \in Surjection(1 .. n, T)
  BY Positions DEF ToSet, Surjection
<1>2. IsFiniteSet(1 .. n)
  <2> HIDE DEF n
  <2>1. 1 \in Int /\ n \in Int
    BY <1>1
  <2> QED BY <2>1, FS_Interval
<1> HIDE DEF n, T
<1>3. IsFiniteSet(T)
  BY <1>1, <1>2, FS_Surjection
<1> QED BY <1>3 DEF T

LEMMA FiniteUsrs ==
  ASSUME program \in Programs
  PROVE  LET U == {c.usr : c \in CursorsIn(program)}
         IN IsFiniteSet(U) /\ Cardinality(U) <= Len(Numeral)
<1> DEFINE X == CursorsIn(program)
           units == ToSet(program)
           S == {ToSet(u.cursors) : u \in units}
           U == {c.usr : c \in X}
           f == [u \in units |-> ToSet(u.cursors)]
           g == [c \in X |-> c.usr]
<1>1. /\ program \in Seq(ToSet(program))
      /\ \A unit \in ToSet(program) : unit.cursors \in Seq(ToSet(unit.cursors))
      /\ Cardinality(U) <= Len(Numeral)
  BY MergeAssumption
<1>2. IsFiniteSet(units) /\ \A unit \in units : IsFiniteSet(ToSet(unit.cursors))
  BY <1>1, FiniteElements
<1>3. X = UNION S
  BY DEF CursorsIn, ToSet
<1>4. IsFiniteSet(S) /\ \A T \in S : IsFiniteSet(T)
  <2>1. f \in Surjection(units, S) /\ \A T \in S : \E u \in units : T = ToSet(u.cursors)
    BY DEF Surjection
  <2> HIDE DEF f, S, units
  <2> QED BY <1>2, <2>1, FS_Surjection
<1>5. g \in Surjection(X, U)
  BY DEF Surjection
<1> HIDE DEF X, S, U, g
<1>6. IsFiniteSet(X)
  BY <1>3, <1>4, FS_UNION
<1>7. IsFiniteSet(U)
  BY <1>5, <1>6, FS_Surjection
<1> QED BY <1>1, <1>7 DEF U, X

LEMMA CountsUsrs ==
  ASSUME program \in Programs, NEW s, List(s), \A e \in ToSet(s) : \E c \in CursorsIn(program) : c.usr = e.usr
  PROVE  Enough(Len(s))
<1> DEFINE U == {c.usr : c \in CursorsIn(program)}
           f == [e \in ToSet(s) |-> e.usr]
<1>1. IsFiniteSet(U) /\ Cardinality(U) <= Len(Numeral)
  BY FiniteUsrs
<1>2. f \in Injection(ToSet(s), U)
  <2>1. \A d, e \in ToSet(s) : d.usr = e.usr => d = e
    BY OneOfAUsr
  <2> QED BY <2>1 DEF Injection, IsInjective
<1> HIDE DEF U, f
<1>3. Cardinality(ToSet(s)) <= Cardinality(U) /\ Cardinality(U) \in Nat
  BY <1>1, <1>2, FS_Injection, FS_CardinalityType
<1>4. Len(s) = Cardinality(ToSet(s)) /\ Len(s) \in Nat
  BY CountsElements, Positions DEF List
<1>5. Len(Numeral) \in Nat
  <2>1. Numeral \in Seq(ToSet(Numeral))
    BY NamingAssumption, Zenon
  <2> QED BY <2>1
<1> QED BY <1>1, <1>3, <1>4, <1>5 DEF Enough

-----------------------------------------------------------------------------
(* No two records print as one class.                                      *)
RecordsApart(s) ==
  /\ \A r \in ToSet(s) : Words(Candidate(r))
  /\ \A r, t \in ToSet(s) : r # t =>
       /\ r.name # t.name => {r.name, Candidate(r)} \cap {t.name, Candidate(t)} = {}
       /\ \A n \in ToSet(Numeral) : Append(Candidate(r), n) \notin {t.name, Candidate(t)}

Before(s, i) == {j \in DOMAIN s : s[j].name = s[i].name /\ j <= i /\ Candidate(s[j]) = Candidate(s[i])}

LEMMA OrdinalsDiffer ==
  ASSUME NEW s, List(s), Enough(Len(s)), NEW i \in DOMAIN s, NEW j \in DOMAIN s
  PROVE  LET k == Cardinality(Before(s, i))
             l == Cardinality(Before(s, j))
         IN /\ Enough(k) /\ k > 0
            /\ (s[i].name = s[j].name /\ Candidate(s[i]) = Candidate(s[j]) /\ k = l) => i = j
<1> DEFINE n == Len(s)
           B(x) == Before(s, x)
<1>1. n \in Nat /\ DOMAIN s = 1 .. n /\ DOMAIN s \subseteq Nat
  BY Positions DEF List
<1>2. IsFiniteSet(DOMAIN s) /\ Cardinality(DOMAIN s) = n
  <2>1. 1 \in Int /\ n \in Int
    BY <1>1
  <2> HIDE DEF n
  <2>2. IsFiniteSet(1 .. n) /\ Cardinality(1 .. n) = IF 1 > n THEN 0 ELSE n - 1 + 1
    BY <2>1, FS_Interval
  <2>3. (IF 1 > n THEN 0 ELSE n - 1 + 1) = n
    BY <1>1
  <2> QED BY <1>1, <2>2, <2>3
<1>3. \A x \in DOMAIN s : B(x) \in SUBSET DOMAIN s /\ x \in B(x)
  BY <1>1 DEF Before
<1>4. ASSUME NEW x \in DOMAIN s, NEW y \in DOMAIN s, s[x].name = s[y].name, Candidate(s[x]) = Candidate(s[y]), x < y
      PROVE  B(x) \in SUBSET B(y) /\ y \in B(y) /\ y \notin B(x)
  BY <1>1, <1>4 DEF Before
<1> HIDE DEF B
<1>5. ASSUME NEW x \in DOMAIN s
      PROVE  IsFiniteSet(B(x)) /\ Enough(Cardinality(B(x))) /\ Cardinality(B(x)) > 0
  <2>1. B(x) \in SUBSET DOMAIN s /\ B(x) # {}
    BY <1>3
  <2>2. IsFiniteSet(B(x)) /\ Cardinality(B(x)) <= n
    BY <1>2, <2>1, FS_Subset
  <2>3. Cardinality(B(x)) \in Nat /\ Cardinality(B(x)) # 0
    BY <2>1, <2>2, FS_CardinalityType, FS_EmptySet
  <2>4. Len(Numeral) \in Nat
    <3>1. Numeral \in Seq(ToSet(Numeral))
      BY NamingAssumption, Zenon
    <3> QED BY <3>1
  <2> QED BY <1>1, <2>2, <2>3, <2>4 DEF Enough
<1>6. ASSUME NEW x \in DOMAIN s, NEW y \in DOMAIN s, s[x].name = s[y].name, Candidate(s[x]) = Candidate(s[y]), x < y
      PROVE  Cardinality(B(x)) # Cardinality(B(y))
  <2>1. B(x) \in SUBSET B(y) /\ y \in B(y) /\ y \notin B(x)
    BY <1>4, <1>6
  <2>2. Cardinality(B(x)) \in Nat /\ Cardinality(B(y)) \in Nat /\ Cardinality(B(x)) < Cardinality(B(y))
    BY <1>5, <2>1, SmallerPart
  <2> QED BY <2>2
<1>7. ASSUME s[i].name = s[j].name, Candidate(s[i]) = Candidate(s[j]), Cardinality(B(i)) = Cardinality(B(j))
      PROVE  i = j
  <2>1. ~(i < j) /\ ~(j < i)
    BY <1>6, <1>7
  <2>2. i \in Nat /\ j \in Nat
    BY <1>1
  <2> QED BY <2>1, <2>2
<1>8. Enough(Cardinality(B(i))) /\ Cardinality(B(i)) > 0
  BY <1>5
<1> QED BY <1>7, <1>8 DEF B

LEMMA ClassesTold ==
  ASSUME NEW s, List(s), Enough(Len(s)), RecordsApart(s), NEW i \in DOMAIN s, NEW j \in DOMAIN s, i # j
  PROVE  DartName(s, i) # DartName(s, j)
<1> DEFINE a == s[i].name
           b == s[j].name
           c == Candidate(s[i])
           d == Candidate(s[j])
           k == Cardinality(Before(s, i))
           l == Cardinality(Before(s, j))
           alone1 == Cardinality({x \in DOMAIN s : s[x].name = a}) = 1
           alone2 == Cardinality({x \in DOMAIN s : s[x].name = b}) = 1
<1>1. s[i] \in ToSet(s) /\ s[j] \in ToSet(s) /\ s[i] # s[j]
  BY DEF List, ToSet
<1>2. /\ DartName(s, i) = IF alone1 THEN a ELSE IF k = 1 THEN c ELSE Append(c, Numeral[k])
      /\ DartName(s, j) = IF alone2 THEN b ELSE IF l = 1 THEN d ELSE Append(d, Numeral[l])
  BY Zenon DEF DartName, Before
<1>3. /\ Enough(k) /\ k > 0 /\ Enough(l) /\ l > 0
      /\ (a = b /\ c = d) => k # l
  BY OrdinalsDiffer
<1>4. /\ Words(c) /\ Words(d)
      /\ a # b => a # b /\ a # d /\ c # b /\ c # d
      /\ \A n \in ToSet(Numeral) : /\ Append(c, n) # b /\ Append(c, n) # d
                                   /\ Append(d, n) # a /\ Append(d, n) # c
  BY <1>1, Zenon DEF RecordsApart
<1>5. a = b => ~alone1 /\ ~alone2
  <2> DEFINE T == {x \in DOMAIN s : s[x].name = a}
             n == Len(s)
  <2>1. n \in Nat /\ T \in SUBSET (1 .. n) /\ i \in T
    BY Positions DEF List
  <2>2. a = b => j \in T
    OBVIOUS
  <2> HIDE DEF T, n
  <2>3. Cardinality(T) = 1 <=> \A x \in T : x = i
    BY <2>1, AloneAt, Zenon
  <2>4. a = b => Cardinality(T) # 1
    BY <2>2, <2>3
  <2> QED BY <2>4 DEF T
<1> HIDE DEF a, b, c, d, k, l, alone1, alone2
<1>6. /\ Numeral[k] \in ToSet(Numeral) /\ Numeral[l] \in ToSet(Numeral)
      /\ Numeral[k] = Numeral[l] => k = l
  BY <1>3, NumeralsDiffer, Zenon
<1>7. /\ Append(c, Numeral[k]) = Append(d, Numeral[l]) => c = d /\ Numeral[k] = Numeral[l]
      /\ Append(c, Numeral[k]) # c /\ Append(d, Numeral[l]) # d
  <2>1. Words(c) /\ Words(d)
    BY <1>4
  <2>2. /\ Append(c, Numeral[k]) = Append(d, Numeral[l]) => c = d /\ Numeral[k] = Numeral[l]
        /\ Append(c, Numeral[k]) # c
    BY ONLY <2>1, Glued
  <2>3. Append(d, Numeral[l]) # d
    BY ONLY <2>1, Glued
  <2> QED BY <2>2, <2>3
<1>8. CASE a = b
  <2>1. CASE c = d
    BY <1>2, <1>3, <1>5, <1>6, <1>7, <1>8, <2>1, Zenon
  <2>2. CASE c # d
    BY <1>2, <1>4, <1>5, <1>6, <1>7, <1>8, <2>2, Zenon
  <2> QED BY <2>1, <2>2
<1>9. CASE a # b
  BY <1>2, <1>4, <1>6, <1>7, <1>9, Zenon
<1> QED BY <1>8, <1>9

-----------------------------------------------------------------------------
(* What a worker has of a program's units once it has read U of them.      *)
CursorsOfUnits(U) == UNION {ToSet(unit.cursors) : unit \in U}

TypesRead(p, U) ==
  /\ DOMAIN p = TypeFields
  /\ Covers(p.types, DefinedIn(CursorsOfUnits(U)))
  /\ \A unit \in U : /\ EdgesHold(p.deps, unit, ToSet(unit.cursors))
                     /\ unit.file \in ProjectFiles => unit.file \in p.units

Read(units, p, U) ==
  /\ FunctionsRead(p.functions, CursorsOfUnits(U))
  /\ NoPureBodies(units) /\ ClassFirst(units) => RecordsRead(p.functions, CursorsOfUnits(U))
  /\ TypesRead(p.types, U)

LEMMA ProgramFacts ==
  ASSUME program \in Programs
  PROVE  /\ program \in Seq(ToSet(program)) /\ Len(program) \in Nat
         /\ DOMAIN program = 1 .. Len(program)
         /\ CursorsIn(program) = CursorsOfUnits(ToSet(program))
         /\ \A unit \in ToSet(program) : /\ unit.cursors \in Seq(ToSet(unit.cursors))
                                         /\ ToSet(unit.cursors) \subseteq CursorsIn(program)
         /\ Typed(CursorsIn(program)) /\ OneType(CursorsIn(program)) /\ OneOwner(CursorsIn(program))
         /\ NoPureBodies(program) => OneFormEach(CursorsIn(program))
         /\ ClassFirst(program) => \A unit \in ToSet(program) : MembersAfterClass(unit.cursors)
<1> DEFINE X == CursorsIn(program)
<1>1. /\ program \in Seq(ToSet(program))
      /\ \A unit \in ToSet(program) : unit.cursors \in Seq(ToSet(unit.cursors))
      /\ \A c \in X : c.kind \in FunctionLike => c.def \in BOOLEAN /\ c.dflt \in BOOLEAN
      /\ OneDefinition(program)
  BY MergeAssumption
<1>2. Len(program) \in Nat /\ DOMAIN program = 1 .. Len(program)
  BY <1>1
<1>3. X = CursorsOfUnits(ToSet(program))
  BY DEF CursorsIn, CursorsOfUnits, ToSet
<1>4. \A unit \in ToSet(program) : ToSet(unit.cursors) \subseteq X
  BY <1>3 DEF CursorsOfUnits
<1>5. NoPureBodies(program) => OneFormEach(X)
  BY DEF NoPureBodies, OneFormEach
<1>6. ClassFirst(program) => \A unit \in ToSet(program) : MembersAfterClass(unit.cursors)
  <2>1. ASSUME ClassFirst(program), NEW u \in DOMAIN program
        PROVE  MembersAfterClass(program[u].cursors)
    BY <2>1 DEF ClassFirst, MembersAfterClass
  <2>2. QED
    BY <2>1 DEF ToSet
<1> HIDE DEF X
<1>7. Typed(X)
  BY <1>1 DEF Typed
<1>8. OneType(X)
  BY <1>1 DEF OneType, OneDefinition, X
<1>9. OneOwner(X)
  <2>1. ASSUME NEW c \in X, NEW d \in X, {c.kind, d.kind} \subseteq {"method", "ctor"}, c.usr = d.usr
        PROVE  c.kind = d.kind /\ c.owner = d.owner
    <3>1. {c.kind, d.kind} \subseteq FunctionLike
      BY <2>1 DEF FunctionLike
    <3>2. QED
      BY <1>1, <2>1, <3>1 DEF OneDefinition, X
  <2>2. QED
    BY <2>1 DEF OneOwner
<1>10. QED
  BY <1>1, <1>2, <1>3, <1>4, <1>5, <1>6, <1>7, <1>8, <1>9 DEF X

LEMMA NothingRead == Read(program, EmptyPartial, {})
<1>1. CursorsOfUnits({}) = {} /\ Functions({}) = {} /\ DefinedIn({}) = {}
      /\ \A kind : OfKind({}, kind) = {}
  BY DEF CursorsOfUnits, Functions, OfKind, DefinedIn
<1>2. FunctionsRead(NoFunctions, {})
  <2>1. DOMAIN NoFunctions = Fields /\ NoFunctions.decls = <<>> /\ NoFunctions.fns = <<>>
    BY DEF NoFunctions, Fields
  <2>2. Upserted(<<>>, {DeclarationOf(c) : c \in {}})
    BY EmptyList DEF Upserted
  <2>3. {IrOf(c) : c \in {}} = {} /\ <<>> \in Seq(ToSet(<<>>))
    BY EmptyList DEF List
  <2>4. QED
    BY <1>1, <2>1, <2>2, <2>3, EmptyList DEF FunctionsRead
<1>3. RecordsRead(NoFunctions, {})
  <2>1. DOMAIN NoFunctions = Fields /\ NoFunctions.records = <<>> /\ NoFunctions.members = {}
    BY DEF NoFunctions, Fields
  <2>2. United(<<>>, {})
    BY EmptyList DEF United
  <2>3. QED
    BY <1>1, <2>1, <2>2 DEF RecordsRead
<1>4. TypesRead(EmptyTypeFacts, {})
  <2>1. DOMAIN EmptyTypeFacts = TypeFields /\ EmptyTypeFacts.types = <<>>
    BY DEF EmptyTypeFacts, TypeFields
  <2>2. Covers(<<>>, {})
    BY EmptyList DEF Covers
  <2>3. QED
    BY <1>1, <2>1, <2>2 DEF TypesRead
<1>5. EmptyPartial.functions = NoFunctions /\ EmptyPartial.types = EmptyTypeFacts
  BY DEF EmptyPartial
<1>6. QED
  BY <1>1, <1>2, <1>3, <1>4, <1>5 DEF Read

LEMMA UnitVisited ==
  ASSUME program \in Programs, NEW p, NEW U \in SUBSET ToSet(program), NEW unit \in ToSet(program),
         Read(program, p, U)
  PROVE  Read(program, VisitUnit(p, unit), U \cup {unit})
<1> DEFINE q == VisitUnit(p, unit)
           s == unit.cursors
           X == CursorsOfUnits(U)
           S == ToSet(s)
<1>1. q.functions = FoldLeft(VisitCursor, p.functions, s) /\ q.types = VisitTypeFacts(p.types, unit)
  BY DEF VisitUnit
<1>2. CursorsOfUnits(U \cup {unit}) = X \cup S
  BY DEF CursorsOfUnits
<1>3. s \in Seq(S) /\ X \cup S \subseteq CursorsIn(program) /\ S \subseteq CursorsIn(program)
  BY ProgramFacts DEF CursorsOfUnits
<1> HIDE DEF q, X
<1>4. FunctionsRead(q.functions, X \cup S)
  <2> DEFINE f == p.functions
  <2>1. FunctionsRead(f, X)
    BY DEF Read, X
  <2> HIDE DEF f, s
  <2>2. FunctionsRead(FoldLeft(VisitCursor, f, s), X \cup S)
    BY <1>3, <2>1, FunctionsOfUnit
  <2>3. QED
    BY <1>1, <2>2 DEF f
<1>5. ASSUME NoPureBodies(program), ClassFirst(program)
      PROVE  RecordsRead(q.functions, X \cup S)
  <2> DEFINE f == p.functions
  <2>1. RecordsRead(f, X)
    BY <1>5 DEF Read, X
  <2>2. Typed(S)
    BY <1>3, ProgramFacts DEF Typed
  <2>3. OneFormEach(X \cup S)
    BY <1>3, <1>5, ProgramFacts DEF OneFormEach
  <2>4. OneOwner(X \cup S)
    BY <1>3, ProgramFacts DEF OneOwner
  <2>5. MembersAfterClass(s)
    BY <1>5, ProgramFacts
  <2> HIDE DEF f, s
  <2>6. RecordsRead(FoldLeft(VisitCursor, f, s), X \cup S)
    BY <1>3, <2>1, <2>2, <2>3, <2>4, <2>5, RecordsOfUnit
  <2>7. QED
    BY <1>1, <2>6 DEF f
<1>6. TypesRead(q.types, U \cup {unit})
  <2> DEFINE t == p.types
             b == VisitFiles(unit, t)
             Y == DefinedIn(X)
  <2>1. TypesRead(t, U)
    BY DEF Read
  <2>2. DOMAIN t = TypeFields /\ Covers(t.types, Y)
    BY <2>1 DEF TypesRead, X
  <2>3. OneType(S)
    BY <1>3, ProgramFacts DEF OneType
  <2>4. /\ b.deps = t.deps /\ t.units \subseteq b.units
        /\ unit.file \in ProjectFiles => unit.file \in b.units
    BY <2>2 DEF VisitFiles, TypeFields
  <2> HIDE DEF t, b, Y
  <2>5. FactsRead(b, VisitTypeFacts(t, unit), unit, Y, S)
    BY <1>3, <2>2, <2>3, FactsOfUnit DEF b
  <2>6. FactsRead(b, q.types, unit, Y, S)
    BY <1>1, <2>5 DEF t
  <2>7. Y \cup DefinedIn(S) = DefinedIn(X \cup S)
    BY DEF Y, DefinedIn
  <2> HIDE DEF S
  <2>8. /\ DOMAIN q.types = TypeFields /\ Covers(q.types.types, DefinedIn(X \cup S))
        /\ b.deps \subseteq q.types.deps /\ q.types.units = b.units /\ EdgesHold(q.types.deps, unit, S)
    BY <2>6, <2>7 DEF FactsRead
  <2>9. ASSUME NEW v \in U
        PROVE  /\ EdgesHold(q.types.deps, v, ToSet(v.cursors))
               /\ v.file \in ProjectFiles => v.file \in q.types.units
    <3>1. EdgesHold(t.deps, v, ToSet(v.cursors)) /\ (v.file \in ProjectFiles => v.file \in t.units)
      BY <2>1 DEF TypesRead
    <3>2. t.deps \subseteq q.types.deps /\ t.units \subseteq q.types.units
      BY <2>4, <2>8
    <3>3. QED
      BY <3>1, <3>2 DEF EdgesHold
  <2>10. EdgesHold(q.types.deps, unit, ToSet(unit.cursors))
         /\ (unit.file \in ProjectFiles => unit.file \in q.types.units)
    BY <2>4, <2>8 DEF S
  <2>11. QED
    BY <1>2, <2>8, <2>9, <2>10 DEF TypesRead
<1>7. Read(program, q, U \cup {unit})
  BY <1>2, <1>4, <1>5, <1>6 DEF Read
<1>8. QED
  BY <1>7 DEF q

-----------------------------------------------------------------------------
(* The finishing passes rename, prune and guard what was merged: no entry  *)
(* moves, comes, goes, or changes whether it is a definition.              *)
SameUsrs(s, r) == DOMAIN r = DOMAIN s /\ r \in Seq(ToSet(r)) /\ \A i \in DOMAIN s : r[i].usr = s[i].usr

LEMMA StaysList ==
  ASSUME NEW s, NEW r, List(s), SameUsrs(s, r)
  PROVE  List(r)
BY DEF List, SameUsrs

Restyled(s, r) ==
  /\ SameUsrs(s, r)
  /\ \A i \in DOMAIN s : Ir(r[i]) /\ r[i].def = s[i].def /\ r[i].dflt = s[i].dflt

LEMMA StaysKept ==
  ASSUME NEW s, NEW r, NEW F, Restyled(s, r)
  PROVE  /\ Kept(s, F) => Kept(r, F)
         /\ Matches(s, F) => Matches(r, F)
<1>1. Irs(s) => Irs(r)
  <2>1. List(s) => List(r)
    BY StaysList DEF Restyled
  <2>2. \A e \in ToSet(r) : Ir(e)
    BY DEF Restyled, SameUsrs, ToSet
  <2>3. QED
    BY <2>1, <2>2 DEF Irs
<1>2. \A e \in ToSet(s) : \E d \in ToSet(r) : d.usr = e.usr /\ d.def = e.def /\ d.dflt = e.dflt
  BY DEF Restyled, SameUsrs, ToSet
<1>3. \A d \in ToSet(r) : \E e \in ToSet(s) : d.usr = e.usr /\ d.def = e.def /\ d.dflt = e.dflt
  BY DEF Restyled, SameUsrs, ToSet
<1>4. Matches(s, F) => Matches(r, F)
  <2>1. ASSUME Matches(s, F)
        PROVE  Matches(r, F)
    <3>1. \A d \in ToSet(r) : \E f \in F : f.usr = d.usr /\ f.def = d.def
      BY <1>3, <2>1 DEF Matches
    <3>2. \A f \in F : \E d \in ToSet(r) : d.usr = f.usr /\ d.def = f.def
      BY <1>2, <2>1 DEF Matches
    <3>3. QED
      BY <1>1, <2>1, <3>1, <3>2 DEF Matches
  <2>2. QED
    BY <2>1
<1>5. Kept(s, F) => Kept(r, F)
  <2>1. ASSUME Kept(s, F)
        PROVE  Kept(r, F)
    <3>1. \A d \in ToSet(r) : \E f \in F : f.usr = d.usr /\ f.def = d.def
      BY <1>3, <2>1 DEF Kept
    <3>2. \A f \in F : \E d \in ToSet(r) : d.usr = f.usr /\ (f.def => d.def)
      <4>1. ASSUME NEW f \in F
            PROVE  \E d \in ToSet(r) : d.usr = f.usr /\ (f.def => d.def)
        <5>1. PICK e \in ToSet(s) : e.usr = f.usr /\ (f.def => e.def)
          BY <2>1 DEF Kept
        <5>2. PICK d \in ToSet(r) : d.usr = e.usr /\ d.def = e.def
          BY <1>2
        <5>3. QED
          BY <5>1, <5>2
      <4>2. QED
        BY <4>1
    <3>3. ASSUME Agreeing(F), NEW d \in ToSet(r)
          PROVE  d.dflt <=> \E f \in F : f.usr = d.usr /\ f.dflt
      <4>1. PICK e \in ToSet(s) : d.usr = e.usr /\ d.dflt = e.dflt
        BY <1>3
      <4>2. e.dflt <=> \E f \in F : f.usr = e.usr /\ f.dflt
        BY <2>1, <3>3 DEF Kept
      <4>3. QED
        BY <4>1, <4>2
    <3>4. QED
      BY <1>1, <2>1, <3>1, <3>2, <3>3 DEF Kept
  <2>2. QED
    BY <2>1
<1>6. QED
  BY <1>4, <1>5

LEMMA Renames ==
  ASSUME NEW renames, NEW s, Irs(s)
  PROVE  Restyled(s, RenameAll(renames, s))
<1> DEFINE r == RenameAll(renames, s)
<1>1. r = [i \in DOMAIN s |-> Rename(renames, s[i])]
  BY DEF RenameAll
<1> HIDE DEF r
<1>2. DOMAIN r = DOMAIN s /\ r = [i \in DOMAIN s |-> r[i]]
  BY <1>1
<1>3. r \in Seq(ToSet(r))
  BY <1>2, Mapped DEF Irs, List
<1>4. ASSUME NEW i \in DOMAIN s
      PROVE  Ir(r[i]) /\ r[i].usr = s[i].usr /\ r[i].def = s[i].def /\ r[i].dflt = s[i].dflt
  <2> DEFINE f == s[i]
             nameOf(k) == IF k.usr \in DOMAIN renames THEN renames[k.usr] ELSE k.name
             named == nameOf(f)
             calls == {[k EXCEPT !.name = nameOf(k)] : k \in f.calls}
             g == [f EXCEPT !.name = named]
  <2>1. Ir(f)
    BY DEF Irs, ToSet
  <2>2. r[i] = [f EXCEPT !.name = named, !.calls = calls]
    <3>1. r[i] = Rename(renames, f)
      BY <1>1
    <3>2. Rename(renames, f) = [f EXCEPT !.name = named, !.calls = calls]
      BY DEF Rename
    <3> HIDE DEF r, f, named, calls
    <3>3. QED
      BY <3>1, <3>2
  <2> HIDE DEF f, named, calls
  <2>3. Ir(g) /\ g.usr = f.usr /\ g.def = f.def /\ g.dflt = f.dflt
    BY <2>1 DEF Ir
  <2>4. r[i] = [g EXCEPT !.calls = calls]
    BY <2>2
  <2> HIDE DEF g
  <2>5. Ir(r[i]) /\ r[i].usr = g.usr /\ r[i].def = g.def /\ r[i].dflt = g.dflt
    BY <2>3, <2>4 DEF Ir
  <2>6. QED
    BY <2>3, <2>5 DEF f
<1>5. Restyled(s, r)
  BY <1>2, <1>3, <1>4 DEF Restyled, SameUsrs
<1>6. QED
  BY <1>5 DEF r

LEMMA RejectsEnums ==
  ASSUME NEW declared, NEW s, s \in Seq(ToSet(s))
  PROVE  LET r == RejectEnums(declared, s)
         IN /\ DOMAIN r = DOMAIN s /\ r \in Seq(ToSet(r))
            /\ Irs(s) => Restyled(s, r)
<1> DEFINE r == RejectEnums(declared, s)
<1>1. r = [i \in DOMAIN s |-> [s[i] EXCEPT !.enums = @ \cap declared]]
  BY DEF RejectEnums
<1> HIDE DEF r
<1>2. DOMAIN r = DOMAIN s /\ r = [i \in DOMAIN s |-> r[i]]
  BY <1>1
<1>3. r \in Seq(ToSet(r))
  BY <1>2, Mapped
<1>4. ASSUME Irs(s), NEW i \in DOMAIN s
      PROVE  Ir(r[i]) /\ r[i].usr = s[i].usr /\ r[i].def = s[i].def /\ r[i].dflt = s[i].dflt
  <2> DEFINE f == s[i]
  <2>1. Ir(f)
    BY <1>4 DEF Irs, ToSet
  <2>2. r[i] = [f EXCEPT !.enums = @ \cap declared]
    BY <1>1
  <2> HIDE DEF f
  <2>3. Ir(r[i]) /\ r[i].usr = f.usr /\ r[i].def = f.def /\ r[i].dflt = f.dflt
    BY <2>1, <2>2 DEF Ir
  <2>4. QED
    BY <2>3 DEF f
<1>5. Irs(s) => Restyled(s, r)
  BY <1>2, <1>3, <1>4 DEF Restyled, SameUsrs
<1>6. QED
  BY <1>2, <1>3, <1>5 DEF r

LEMMA Guards ==
  ASSUME NEW records, NEW s, Irs(s)
  PROVE  Restyled(s, Guard(records, s))
<1> DEFINE r == Guard(records, s)
<1>1. r = [i \in DOMAIN s |-> [s[i] EXCEPT !.teardown = Teardown(records, s[i])]]
  BY DEF Guard
<1> HIDE DEF r
<1>2. DOMAIN r = DOMAIN s /\ r = [i \in DOMAIN s |-> r[i]]
  BY <1>1
<1>3. r \in Seq(ToSet(r))
  BY <1>2, Mapped DEF Irs, List
<1>4. ASSUME NEW i \in DOMAIN s
      PROVE  Ir(r[i]) /\ r[i].usr = s[i].usr /\ r[i].def = s[i].def /\ r[i].dflt = s[i].dflt
  <2> DEFINE f == s[i]
             teardown == Teardown(records, s[i])
  <2>1. Ir(f)
    BY DEF Irs, ToSet
  <2>2. r[i] = [f EXCEPT !.teardown = teardown]
    BY <1>1
  <2> HIDE DEF f, teardown
  <2>3. Ir(r[i]) /\ r[i].usr = f.usr /\ r[i].def = f.def /\ r[i].dflt = f.dflt
    BY <2>1, <2>2 DEF Ir
  <2>4. QED
    BY <2>3 DEF f
<1>5. Restyled(s, r)
  BY <1>2, <1>3, <1>4 DEF Restyled, SameUsrs
<1>6. QED
  BY <1>5 DEF r

\* A pass over the records that leaves each as faithful as it was.
LEMMA RecordsStayUnited ==
  ASSUME NEW s, NEW r, NEW X, United(s, X), SameUsrs(s, r), \A i \in DOMAIN s : Faithful(r[i], X)
  PROVE  United(r, X)
<1>1. List(r)
  BY StaysList DEF United
<1>2. \A e \in ToSet(r) : Faithful(e, X) /\ \E d \in ToSet(s) : d.usr = e.usr
  BY DEF SameUsrs, ToSet
<1>3. \A d \in ToSet(s) : \E e \in ToSet(r) : d.usr = e.usr
  BY DEF SameUsrs, ToSet
<1>4. QED
  BY <1>1, <1>2, <1>3 DEF United

LEMMA MembersRenamed ==
  ASSUME NEW s, NEW X, NEW renames, United(s, X)
  PROVE  United(RenameMembers(renames, s), X)
<1> DEFINE r == RenameMembers(renames, s)
           new(i) == [s[i] EXCEPT !.methods = RenameAll(renames, @), !.ctors = RenameAll(renames, @)]
<1>1. r = [i \in DOMAIN s |-> new(i)]
  BY DEF RenameMembers
<1> HIDE DEF r, new
<1>2. DOMAIN r = DOMAIN s /\ r = [i \in DOMAIN s |-> r[i]]
  BY <1>1
<1>3. r \in Seq(ToSet(r))
  BY <1>2, Mapped DEF United, List
<1>4. ASSUME NEW i \in DOMAIN s
      PROVE  Faithful(r[i], X) /\ r[i].usr = s[i].usr
  <2> DEFINE e == s[i]
             m == RenameAll(renames, e.methods)
             k == RenameAll(renames, e.ctors)
             g == [e EXCEPT !.methods = m]
  <2>1. Faithful(e, X)
    BY DEF United, ToSet
  <2>2. r[i] = [e EXCEPT !.methods = m, !.ctors = k]
    <3>1. r[i] = new(i)
      BY <1>1
    <3>2. new(i) = [e EXCEPT !.methods = m, !.ctors = k]
      BY DEF new
    <3> HIDE DEF e, m, k
    <3>3. QED
      BY <3>1, <3>2
  <2>3. /\ Matches(e.methods, MembersOf(X, "method", e.usr)) => Matches(m, MembersOf(X, "method", e.usr))
        /\ Matches(e.ctors, MembersOf(X, "ctor", e.usr)) => Matches(k, MembersOf(X, "ctor", e.usr))
    <3> HIDE DEF e
    <3>1. Restyled(e.methods, m) /\ Restyled(e.ctors, k)
      BY <2>1, Renames DEF Faithful, Matches
    <3>2. QED
      BY <3>1, StaysKept
  <2> HIDE DEF e, m, k
  <2>4. Record(g) /\ g.usr = e.usr /\ g.methods = m /\ g.ctors = e.ctors /\ g.dtor = e.dtor
    BY <2>1 DEF Faithful, Record
  <2>5. r[i] = [g EXCEPT !.ctors = k]
    BY <2>2
  <2> HIDE DEF g
  <2>6. Record(r[i]) /\ r[i].usr = e.usr /\ r[i].methods = m /\ r[i].ctors = k /\ r[i].dtor = e.dtor
    BY <2>4, <2>5 DEF Record
  <2>7. Faithful(r[i], X)
    BY <2>1, <2>3, <2>6 DEF Faithful
  <2>8. QED
    BY <2>6, <2>7 DEF e
<1>5. SameUsrs(s, r)
  BY <1>2, <1>3, <1>4 DEF SameUsrs
<1>6. United(r, X)
  BY <1>4, <1>5, RecordsStayUnited
<1>7. QED
  BY <1>6 DEF r

LEMMA ClassesRenamed ==
  ASSUME NEW s, NEW X, United(s, X)
  PROVE  United(Disambiguate(s), X)
<1> DEFINE r == Disambiguate(s)
<1>1. r = [i \in DOMAIN s |-> [s[i] EXCEPT !.name = DartName(s, i)]]
  BY DEF Disambiguate
<1> HIDE DEF r
<1>2. DOMAIN r = DOMAIN s /\ r = [i \in DOMAIN s |-> r[i]]
  BY <1>1
<1>3. r \in Seq(ToSet(r))
  BY <1>2, Mapped DEF United, List
<1>4. ASSUME NEW i \in DOMAIN s
      PROVE  Faithful(r[i], X) /\ r[i].usr = s[i].usr
  <2> DEFINE e == s[i]
             named == DartName(s, i)
  <2>1. Faithful(e, X)
    BY DEF United, ToSet
  <2>2. r[i] = [e EXCEPT !.name = named]
    BY <1>1
  <2> HIDE DEF e, named
  <2>3. /\ Record(r[i]) /\ r[i].usr = e.usr /\ r[i].methods = e.methods /\ r[i].ctors = e.ctors
        /\ r[i].dtor = e.dtor
    BY <2>1, <2>2 DEF Faithful, Record
  <2>4. Faithful(r[i], X)
    BY <2>1, <2>3 DEF Faithful
  <2>5. QED
    BY <2>3, <2>4 DEF e
<1>5. SameUsrs(s, r)
  BY <1>2, <1>3, <1>4 DEF SameUsrs
<1>6. United(r, X)
  BY <1>4, <1>5, RecordsStayUnited
<1>7. QED
  BY <1>6 DEF r

LEMMA MembersPruned ==
  ASSUME NEW s, NEW X, NEW declared, United(s, X)
  PROVE  United(RejectInMembers(declared, s), X)
<1> DEFINE r == RejectInMembers(declared, s)
           new(i) == [s[i] EXCEPT !.methods = RejectEnums(declared, @),
                                   !.ctors = RejectEnums(declared, @),
                                   !.dtor = RejectEnums(declared, @)]
<1>1. r = [i \in DOMAIN s |-> new(i)]
  BY DEF RejectInMembers
<1> HIDE DEF r, new
<1>2. DOMAIN r = DOMAIN s /\ r = [i \in DOMAIN s |-> r[i]]
  BY <1>1
<1>3. r \in Seq(ToSet(r))
  BY <1>2, Mapped DEF United, List
<1>4. ASSUME NEW i \in DOMAIN s
      PROVE  Faithful(r[i], X) /\ r[i].usr = s[i].usr
  <2> DEFINE e == s[i]
             m == RejectEnums(declared, e.methods)
             k == RejectEnums(declared, e.ctors)
             d == RejectEnums(declared, e.dtor)
             g == [e EXCEPT !.methods = m]
             h == [g EXCEPT !.ctors = k]
  <2>1. Faithful(e, X)
    BY DEF United, ToSet
  <2>2. r[i] = [e EXCEPT !.methods = m, !.ctors = k, !.dtor = d]
    <3>1. r[i] = new(i)
      BY <1>1
    <3>2. new(i) = [e EXCEPT !.methods = m, !.ctors = k, !.dtor = d]
      BY DEF new
    <3> HIDE DEF e, m, k, d
    <3>3. QED
      BY <3>1, <3>2
  <2> HIDE DEF e
  <2>3. /\ Matches(e.methods, MembersOf(X, "method", e.usr)) => Matches(m, MembersOf(X, "method", e.usr))
        /\ Matches(e.ctors, MembersOf(X, "ctor", e.usr)) => Matches(k, MembersOf(X, "ctor", e.usr))
    <3>1. Irs(e.methods) /\ Irs(e.ctors)
      BY <2>1 DEF Faithful, Matches
    <3>2. Restyled(e.methods, m) /\ Restyled(e.ctors, k)
      BY <3>1, RejectsEnums DEF Irs, List
    <3>3. QED
      BY <3>2, StaysKept
  <2>4. d \in Seq(ToSet(d)) /\ (d # <<>> <=> e.dtor # <<>>)
    <3>1. e.dtor \in Seq(ToSet(e.dtor))
      BY <2>1 DEF Faithful
    <3>2. DOMAIN d = DOMAIN e.dtor /\ d \in Seq(ToSet(d))
      BY <3>1, RejectsEnums
    <3> DEFINE q == e.dtor
               Q == ToSet(q)
               D == ToSet(d)
    <3>3. q \in Seq(Q) /\ d \in Seq(D) /\ DOMAIN d = DOMAIN q
      BY <3>1, <3>2
    <3> HIDE DEF q, Q, d, D
    <3>4. d # <<>> <=> q # <<>>
      BY <3>3
    <3>5. QED
      BY <3>2, <3>4 DEF q
  <2> HIDE DEF m, k, d
  <2>5. Record(g) /\ g.usr = e.usr /\ g.methods = m /\ g.ctors = e.ctors /\ g.dtor = e.dtor
    BY <2>1 DEF Faithful, Record
  <2>6. r[i] = [h EXCEPT !.dtor = d]
    BY <2>2
  <2> HIDE DEF g
  <2>7. Record(h) /\ h.usr = e.usr /\ h.methods = m /\ h.ctors = k
    BY <2>5 DEF Record
  <2> HIDE DEF h
  <2>8. Record(r[i]) /\ r[i].usr = e.usr /\ r[i].methods = m /\ r[i].ctors = k /\ r[i].dtor = d
    BY <2>6, <2>7 DEF Record
  <2>9. Faithful(r[i], X)
    BY <2>1, <2>3, <2>4, <2>8 DEF Faithful
  <2>10. QED
    BY <2>8, <2>9 DEF e
<1>5. SameUsrs(s, r)
  BY <1>2, <1>3, <1>4 DEF SameUsrs
<1>6. United(r, X)
  BY <1>4, <1>5, RecordsStayUnited
<1>7. QED
  BY <1>6 DEF r

-----------------------------------------------------------------------------
(* What the merge makes of the partials, when the workers have read every  *)
(* unit between them.                                                      *)
Shared(units, p, read) ==
  /\ p \in Seq(ToSet(p)) /\ DOMAIN read = DOMAIN p
  /\ \A w \in DOMAIN p : read[w] \subseteq ToSet(units) /\ Read(units, p[w], read[w])

FunctionPartials(p) == [w \in DOMAIN p |-> p[w].functions]
TypePartials(p) == [w \in DOMAIN p |-> p[w].types]

LEMMA Partials ==
  ASSUME NEW p, p \in Seq(ToSet(p))
  PROVE  LET fs == FunctionPartials(p)
             ts == TypePartials(p)
         IN /\ DOMAIN fs = DOMAIN p /\ fs \in Seq(ToSet(fs)) /\ Len(fs) = Len(p)
            /\ DOMAIN ts = DOMAIN p /\ ts \in Seq(ToSet(ts)) /\ Len(ts) = Len(p)
            /\ \A w \in DOMAIN p : fs[w] = p[w].functions /\ ts[w] = p[w].types
            /\ ToSet(fs) = {p[w].functions : w \in DOMAIN p}
            /\ ToSet(ts) = {p[w].types : w \in DOMAIN p}
<1> DEFINE fs == FunctionPartials(p)
           ts == TypePartials(p)
           F == ToSet(fs)
           T == ToSet(ts)
<1>1. Len(p) \in Nat /\ DOMAIN p = 1 .. Len(p)
  OBVIOUS
<1>2. fs = [w \in DOMAIN p |-> p[w].functions] /\ ts = [w \in DOMAIN p |-> p[w].types]
  BY DEF FunctionPartials, TypePartials
<1> HIDE DEF fs, ts
<1>3. F = {p[w].functions : w \in DOMAIN p} /\ T = {p[w].types : w \in DOMAIN p}
  BY <1>2 DEF ToSet
<1>4. DOMAIN fs = DOMAIN p /\ DOMAIN ts = DOMAIN p
      /\ \A w \in DOMAIN p : fs[w] = p[w].functions /\ ts[w] = p[w].types
  BY <1>2
<1>5. \A w \in DOMAIN p : fs[w] \in F /\ ts[w] \in T
  BY <1>3, <1>4
<1> HIDE DEF F, T
<1>6. fs \in Seq(F) /\ Len(fs) = Len(p)
  <2>1. fs \in [1 .. Len(p) -> F]
    BY <1>1, <1>2, <1>4, <1>5
  <2>2. QED
    BY <1>1, <2>1
<1>7. ts \in Seq(T) /\ Len(ts) = Len(p)
  <2>1. ts \in [1 .. Len(p) -> T]
    BY <1>1, <1>2, <1>4, <1>5
  <2>2. QED
    BY <1>1, <2>1
<1>8. QED
  BY <1>3, <1>4, <1>6, <1>7 DEF F, T, fs, ts

LEMMA MergedFields ==
  ASSUME NEW p
  PROVE  LET c == FinishCatalog(p)
             fs == FunctionPartials(p)
         IN /\ c.decls = FoldLeft(MergeDecls, <<>>, fs)
            /\ \E declared, renames, records :
                 /\ c.records = RejectInMembers(declared, Disambiguate(
                                  RenameMembers(renames, FoldLeft(MergeRecords, <<>>, fs))))
                 /\ c.fns = Guard(records, RejectEnums(declared,
                              RenameAll(renames, FoldLeft(MergeFunctions, <<>>, fs))))
            /\ c.types = FinishTypeFacts(TypePartials(p))
<1> DEFINE c == FinishCatalog(p)
           fs == FunctionPartials(p)
           functions == FinishFunctions(fs)
           decls == FoldLeft(MergeDecls, <<>>, fs)
           merged == FoldLeft(MergeRecords, <<>>, fs)
           lowered == FoldLeft(MergeFunctions, <<>>, fs)
           declared == UNION {q.enums : q \in ToSet(fs)}
           renames == RenamesOf(decls, merged)
           records == RejectInMembers(declared, Disambiguate(RenameMembers(renames, merged)))
           fns == Guard(records, RejectEnums(declared, RenameAll(renames, lowered)))
<1>1. c.decls = functions.decls /\ c.records = functions.records /\ c.fns = functions.fns
      /\ c.types = FinishTypeFacts(TypePartials(p))
  BY DEF FinishCatalog, FunctionPartials, TypePartials
<1>2. functions.decls = decls /\ functions.records = records /\ functions.fns = fns
  BY DEF FinishFunctions
<1> HIDE DEF c, functions, decls, merged, lowered, declared, renames
<1>3. c.records = RejectInMembers(declared, Disambiguate(RenameMembers(renames, merged)))
      /\ c.fns = Guard(records, RejectEnums(declared, RenameAll(renames, lowered)))
  BY <1>1, <1>2
<1> HIDE DEF records, fns
<1>4. QED
  BY <1>1, <1>2, <1>3 DEF c, decls, merged, lowered, fs

LEMMA AllCursorsRead ==
  ASSUME program \in Programs, NEW p, NEW read, Shared(program, p, read),
         UNION {read[w] : w \in DOMAIN p} = ToSet(program)
  PROVE  CursorsIn(program) = UNION {CursorsOfUnits(read[w]) : w \in DOMAIN p}
<1>1. CursorsIn(program) = CursorsOfUnits(UNION {read[w] : w \in DOMAIN p})
  BY ProgramFacts
<1>2. QED
  BY <1>1 DEF CursorsOfUnits

LEMMA MergedDecls ==
  ASSUME program \in Programs, NEW p, NEW read, Shared(program, p, read),
         UNION {read[w] : w \in DOMAIN p} = ToSet(program)
  PROVE  Upserted(FinishCatalog(p).decls, {DeclarationOf(c) : c \in Functions(CursorsIn(program))})
<1> DEFINE fs == FunctionPartials(p)
           X == CursorsIn(program)
           D == {DeclarationOf(c) : c \in Functions(X)}
           Dw(w) == {DeclarationOf(c) : c \in Functions(CursorsOfUnits(read[w]))}
           R == UNION {ToSet(q.decls) : q \in ToSet(fs)}
           r == FinishCatalog(p).decls
<1>1. r = FoldLeft(MergeDecls, <<>>, fs)
  BY MergedFields
<1>2. fs \in Seq(ToSet(fs)) /\ ToSet(fs) = {p[w].functions : w \in DOMAIN p}
  BY Partials DEF Shared
<1>3. \A w \in DOMAIN p : Upserted(p[w].functions.decls, Dw(w))
  BY DEF Shared, Read, FunctionsRead
<1>4. X = UNION {CursorsOfUnits(read[w]) : w \in DOMAIN p}
  BY AllCursorsRead
<1>5. D = UNION {Dw(w) : w \in DOMAIN p}
  BY <1>4 DEF Functions
<1> HIDE DEF fs, D, Dw, r
<1>6. Upserted(<<>>, {})
  BY EmptyList DEF Upserted
<1>7. \A q \in ToSet(fs) : q.decls \in Seq(ToSet(q.decls))
  BY <1>2, <1>3 DEF Upserted, List
<1>8. Upserted(FoldLeft(MergeDecls, <<>>, fs), {} \cup R)
  BY <1>2, <1>6, <1>7, DeclsUpserted
<1>9. Upserted(r, R)
  <2>1. {} \cup R = R
    OBVIOUS
  <2> HIDE DEF R
  <2>2. QED
    BY <1>1, <1>8, <2>1
<1>10. R \subseteq D
  BY <1>2, <1>3, <1>5 DEF Upserted
<1>11. \A d \in D : \E e \in R : e.usr = d.usr /\ (d.def => e.def)
  <2>1. ASSUME NEW w \in DOMAIN p, NEW d \in Dw(w)
        PROVE  \E e \in R : e.usr = d.usr /\ (d.def => e.def)
    <3>1. PICK e \in ToSet(p[w].functions.decls) : e.usr = d.usr /\ (d.def => e.def)
      BY <1>3 DEF Upserted
    <3>2. e \in R
      BY <1>2
    <3>3. QED
      BY <3>1, <3>2
  <2>2. QED
    BY <1>5, <2>1
<1> HIDE DEF R
<1>12. Upserted(r, D)
  <2>1. List(r) /\ ToSet(r) \subseteq D
    BY <1>9, <1>10 DEF Upserted
  <2>2. ASSUME NEW d \in D
        PROVE  \E e \in ToSet(r) : e.usr = d.usr /\ (d.def => e.def)
    <3>1. PICK e \in R : e.usr = d.usr /\ (d.def => e.def)
      BY <1>11
    <3>2. PICK f \in ToSet(r) : f.usr = e.usr /\ (e.def => f.def)
      BY <1>9 DEF Upserted
    <3>3. QED
      BY <3>1, <3>2
  <2>3. QED
    BY <2>1, <2>2 DEF Upserted
<1>13. QED
  BY <1>12 DEF D, r

LEMMA FunctionsMerged ==
  ASSUME program \in Programs, NEW p, NEW read, Shared(program, p, read),
         UNION {read[w] : w \in DOMAIN p} = ToSet(program)
  PROVE  Kept(FoldLeft(MergeFunctions, <<>>, FunctionPartials(p)), {IrOf(c) : c \in OfKind(CursorsIn(program), "fn")})
<1> DEFINE fs == FunctionPartials(p)
           X == CursorsIn(program)
           F == {IrOf(c) : c \in OfKind(X, "fn")}
           Fw(w) == {IrOf(c) : c \in OfKind(CursorsOfUnits(read[w]), "fn")}
           R == UNION {ToSet(q.fns) : q \in ToSet(fs)}
           lowered == FoldLeft(MergeFunctions, <<>>, fs)
<1>1. fs \in Seq(ToSet(fs)) /\ ToSet(fs) = {p[w].functions : w \in DOMAIN p}
  BY Partials DEF Shared
<1>2. \A w \in DOMAIN p : LET s == p[w].functions.fns IN s \in Seq(ToSet(s)) /\ ToSet(s) = Fw(w)
  BY DEF Shared, Read, FunctionsRead
<1>3. X = UNION {CursorsOfUnits(read[w]) : w \in DOMAIN p}
  BY AllCursorsRead
<1>4. F = UNION {Fw(w) : w \in DOMAIN p}
  BY <1>3 DEF OfKind
<1>5. \A f \in F : Ir(f)
  <2>1. \A c \in OfKind(X, "fn") : c.def \in BOOLEAN /\ c.dflt \in BOOLEAN
    BY ProgramFacts DEF OfKind, Typed, FunctionLike
  <2>2. QED
    BY <2>1, IrOfCursor
<1> HIDE DEF fs, F, Fw
<1>6. Kept(<<>>, {})
  BY EmptyList DEF Kept, Irs
<1>7. R = F
  BY <1>1, <1>2, <1>4
<1>8. \A q \in ToSet(fs) : q.fns \in Seq(ToSet(q.fns)) /\ \A f \in ToSet(q.fns) : Ir(f)
  <2>1. \A q \in ToSet(fs) : q.fns \in Seq(ToSet(q.fns))
    BY <1>1, <1>2
  <2>2. \A q \in ToSet(fs) : \A f \in ToSet(q.fns) : Ir(f)
    BY <1>5, <1>7
  <2>3. QED
    BY <2>1, <2>2
<1>9. Kept(lowered, {} \cup R)
  BY <1>1, <1>6, <1>8, FunctionsKept
<1>10. Kept(lowered, F)
  <2>1. {} \cup R = F
    BY <1>7
  <2> HIDE DEF R, lowered
  <2>2. QED
    BY <1>9, <2>1
<1>11. QED
  BY <1>10 DEF F, lowered, fs

LEMMA MergedLowered ==
  ASSUME program \in Programs, NEW p, NEW read, Shared(program, p, read),
         UNION {read[w] : w \in DOMAIN p} = ToSet(program)
  PROVE  Kept(FinishCatalog(p).fns, {IrOf(c) : c \in OfKind(CursorsIn(program), "fn")})
<1> DEFINE F == {IrOf(c) : c \in OfKind(CursorsIn(program), "fn")}
           lowered == FoldLeft(MergeFunctions, <<>>, FunctionPartials(p))
<1>1. PICK declared, renames, records :
        FinishCatalog(p).fns = Guard(records, RejectEnums(declared, RenameAll(renames, lowered)))
  BY MergedFields
<1>2. Kept(lowered, F)
  BY FunctionsMerged
<1> HIDE DEF F, lowered
<1> DEFINE renamed == RenameAll(renames, lowered)
           pruned == RejectEnums(declared, renamed)
<1>3. Kept(renamed, F)
  <2>1. Restyled(lowered, renamed)
    BY <1>2, Renames DEF Kept
  <2> HIDE DEF renamed
  <2>2. QED
    BY <1>2, <2>1, StaysKept
<1>4. Kept(pruned, F)
  <2> HIDE DEF renamed
  <2>1. Irs(renamed) /\ renamed \in Seq(ToSet(renamed))
    BY <1>3 DEF Kept, Irs, List
  <2>2. Restyled(renamed, pruned)
    BY <2>1, RejectsEnums
  <2> HIDE DEF pruned
  <2>3. QED
    BY <1>3, <2>2, StaysKept
<1> HIDE DEF renamed, pruned
<1>5. Kept(Guard(records, pruned), F)
  <2>1. Restyled(pruned, Guard(records, pruned))
    BY <1>4, Guards DEF Kept
  <2>2. QED
    BY <1>4, <2>1, StaysKept
<1>6. QED
  BY <1>1, <1>5 DEF F, pruned, renamed

LEMMA RecordsMerged ==
  ASSUME program \in Programs, NEW p, NEW read, Shared(program, p, read),
         UNION {read[w] : w \in DOMAIN p} = ToSet(program),
         NoPureBodies(program), ClassFirst(program)
  PROVE  United(FoldLeft(MergeRecords, <<>>, FunctionPartials(p)), CursorsIn(program))
<1> DEFINE fs == FunctionPartials(p)
           X == CursorsIn(program)
           xs == [w \in DOMAIN p |-> CursorsOfUnits(read[w])]
           merged == FoldLeft(MergeRecords, <<>>, fs)
<1>1. fs \in Seq(ToSet(fs)) /\ Len(fs) = Len(p) /\ \A w \in DOMAIN p : fs[w] = p[w].functions
  BY Partials DEF Shared
<1>2. DOMAIN p = 1 .. Len(fs)
  BY <1>1 DEF Shared
<1>3. \A w \in DOMAIN p : xs[w] = CursorsOfUnits(read[w])
  OBVIOUS
<1>4. X = UNION {xs[w] : w \in DOMAIN p}
  BY <1>3, AllCursorsRead
<1>5. OneFormEach(X)
  BY ProgramFacts
<1>6. \A w \in DOMAIN p : United(fs[w].records, xs[w])
  BY <1>1, <1>3 DEF Shared, Read, RecordsRead
<1> HIDE DEF fs, xs, X
<1>7. United(merged, X)
  <2>1. OneFormEach(UNION {xs[i] : i \in 1 .. Len(fs)})
    BY <1>2, <1>4, <1>5
  <2>2. \A i \in 1 .. Len(fs) : United(fs[i].records, xs[i])
    BY <1>2, <1>6
  <2>3. United(merged, UNION {xs[i] : i \in 1 .. Len(fs)})
    BY <1>1, <2>1, <2>2, AllUnited
  <2> HIDE DEF merged
  <2>4. QED
    BY <1>2, <1>4, <2>3
<1>8. QED
  BY <1>7 DEF X, fs

LEMMA MergedRecords ==
  ASSUME program \in Programs, NEW p, NEW read, Shared(program, p, read),
         UNION {read[w] : w \in DOMAIN p} = ToSet(program),
         NoPureBodies(program), ClassFirst(program)
  PROVE  United(FinishCatalog(p).records, CursorsIn(program))
<1> DEFINE X == CursorsIn(program)
           merged == FoldLeft(MergeRecords, <<>>, FunctionPartials(p))
<1>1. PICK declared, renames :
        FinishCatalog(p).records = RejectInMembers(declared, Disambiguate(RenameMembers(renames, merged)))
  BY MergedFields
<1>2. United(merged, X)
  BY RecordsMerged
<1> HIDE DEF merged, X
<1>3. United(RenameMembers(renames, merged), X)
  BY <1>2, MembersRenamed
<1>4. United(Disambiguate(RenameMembers(renames, merged)), X)
  BY <1>3, ClassesRenamed
<1>5. United(FinishCatalog(p).records, X)
  BY <1>1, <1>4, MembersPruned
<1>6. QED
  BY <1>5 DEF X

LEMMA MergedTypes ==
  ASSUME program \in Programs, NEW p, NEW read, Shared(program, p, read),
         UNION {read[w] : w \in DOMAIN p} = ToSet(program)
  PROVE  LET c == FinishCatalog(p).types
         IN /\ \E s : c.types = ToSet(s) /\ Covers(s, DefinedIn(CursorsIn(program)))
            /\ \A unit \in ToSet(program) : EdgesHold(c.deps, unit, ToSet(unit.cursors))
            /\ \E units, headers :
                 /\ c.files = SourceFiles(units, headers)
                 /\ \A unit \in ToSet(program) : unit.file \in ProjectFiles => unit.file \in units
<1> DEFINE ts == TypePartials(p)
           c == FinishCatalog(p).types
           X == CursorsIn(program)
           Xw(w) == CursorsOfUnits(read[w])
           s == FoldLeft(MergeTypes, <<>>, ts)
           units == UNION {q.units : q \in ToSet(ts)}
           headers == UNION {q.headers : q \in ToSet(ts)}
           deps == UNION {q.deps : q \in ToSet(ts)}
           R == UNION {ToSet(q.types) : q \in ToSet(ts)}
<1>1. c.types = ToSet(s) /\ c.deps = deps /\ c.files = SourceFiles(units, headers)
  <2>1. c = FinishTypeFacts(ts)
    BY MergedFields
  <2> HIDE DEF c, ts
  <2>2. QED
    BY <2>1 DEF FinishTypeFacts
<1>2. ts \in Seq(ToSet(ts)) /\ ToSet(ts) = {p[w].types : w \in DOMAIN p}
  BY Partials DEF Shared
<1>3. \A w \in DOMAIN p : TypesRead(p[w].types, read[w])
  BY DEF Shared, Read
<1>4. X = UNION {Xw(w) : w \in DOMAIN p}
  BY AllCursorsRead
<1>5. DefinedIn(X) = UNION {DefinedIn(Xw(w)) : w \in DOMAIN p}
  <2> HIDE DEF X, Xw
  <2>1. QED
    BY <1>4 DEF DefinedIn
<1>6. \A w \in DOMAIN p : Covers(p[w].types.types, DefinedIn(Xw(w)))
  BY <1>3 DEF TypesRead
<1>7. \A unit \in ToSet(program) : \E w \in DOMAIN p : unit \in read[w]
  OBVIOUS
<1> HIDE DEF ts, c, X, Xw
<1>8. Covers(s, DefinedIn(X))
  <2>1. Covers(<<>>, {})
    BY EmptyList DEF Covers
  <2>2. \A q \in ToSet(ts) : q.types \in Seq(ToSet(q.types))
    BY <1>2, <1>6 DEF Covers, List
  <2>3. Covers(s, {} \cup R)
    BY <1>2, <2>1, <2>2, TypesCovered
  <2>4. \A e \in R : \E d \in DefinedIn(X) : d.usr = e.usr
    <3>1. ASSUME NEW w \in DOMAIN p, NEW e \in ToSet(p[w].types.types)
          PROVE  \E d \in DefinedIn(X) : d.usr = e.usr
      <4>1. \E d \in DefinedIn(Xw(w)) : d.usr = e.usr
        BY <1>6 DEF Covers
      <4>2. QED
        BY <1>5, <4>1
    <3>2. QED
      BY <1>2, <3>1
  <2>5. \A d \in DefinedIn(X) : \E e \in R : d.usr = e.usr
    <3>1. ASSUME NEW w \in DOMAIN p, NEW d \in DefinedIn(Xw(w))
          PROVE  \E e \in R : d.usr = e.usr
      <4>1. PICK e \in ToSet(p[w].types.types) : d.usr = e.usr
        BY <1>6 DEF Covers
      <4>2. e \in R
        BY <1>2
      <4>3. QED
        BY <4>1, <4>2
    <3>2. QED
      BY <1>5, <3>1
  <2> HIDE DEF s, R
  <2>6. Covers(s, R)
    <3>1. {} \cup R = R
      OBVIOUS
    <3>2. QED
      BY <2>3, <3>1
  <2>7. \A e \in ToSet(s) : \E d \in DefinedIn(X) : d.usr = e.usr
    <3>1. ASSUME NEW e \in ToSet(s)
          PROVE  \E d \in DefinedIn(X) : d.usr = e.usr
      <4>1. PICK f \in R : f.usr = e.usr
        BY <2>6 DEF Covers
      <4>2. QED
        BY <2>4, <4>1
    <3>2. QED
      BY <3>1
  <2>8. \A d \in DefinedIn(X) : \E e \in ToSet(s) : e.usr = d.usr
    <3>1. ASSUME NEW d \in DefinedIn(X)
          PROVE  \E e \in ToSet(s) : e.usr = d.usr
      <4>1. PICK f \in R : d.usr = f.usr
        BY <2>5
      <4>2. \E e \in ToSet(s) : e.usr = f.usr
        BY <2>6 DEF Covers
      <4>3. QED
        BY <4>1, <4>2
    <3>2. QED
      BY <3>1
  <2>9. QED
    BY <2>6, <2>7, <2>8 DEF Covers
<1>9. ASSUME NEW unit \in ToSet(program)
      PROVE  /\ EdgesHold(c.deps, unit, ToSet(unit.cursors))
             /\ unit.file \in ProjectFiles => unit.file \in units
  <2>1. PICK w \in DOMAIN p : unit \in read[w]
    BY <1>7
  <2>2. /\ EdgesHold(p[w].types.deps, unit, ToSet(unit.cursors))
        /\ unit.file \in ProjectFiles => unit.file \in p[w].types.units
    BY <1>3, <2>1 DEF TypesRead
  <2>3. p[w].types.deps \subseteq deps /\ p[w].types.units \subseteq units
    BY <1>2
  <2> HIDE DEF deps, units
  <2>4. QED
    BY <1>1, <2>2, <2>3 DEF EdgesHold
<1> HIDE DEF s, units, headers
<1>10. QED
  BY <1>1, <1>8, <1>9 DEF c, X

-----------------------------------------------------------------------------
(* The inductive invariant: the units taken so far are shared out between  *)
(* the workers, somehow, and what each has is what its share says.         *)
UnitsTaken == {program[i] : i \in 1 .. nextUnit - 1}

CatalogInv ==
  /\ program \in Programs
  /\ nextUnit \in 1 .. Len(program) + 1
  /\ \E read \in [Workers -> SUBSET ToSet(program)] :
       /\ UNION {read[w] : w \in Workers} = UnitsTaken
       /\ Shared(program, partial, read)
  /\ Merged => nextUnit > Len(program) /\ catalog = FinishCatalog(partial)

LEMMA InitInv ==
  ASSUME Init
  PROVE  CatalogInv
<1> DEFINE read == [w \in Workers |-> {}]
<1>1. program \in Programs /\ nextUnit = 1 /\ partial = [w \in Workers |-> EmptyPartial]
      /\ ~Merged
  BY DEF Init, Merged
<1>2. nextUnit \in 1 .. Len(program) + 1 /\ UnitsTaken = {}
  BY <1>1, ProgramFacts DEF UnitsTaken
<1>3. read \in [Workers -> SUBSET ToSet(program)] /\ UNION {read[w] : w \in Workers} = {}
  OBVIOUS
<1>4. \A w \in Workers : read[w] = {} /\ partial[w] = EmptyPartial
  BY <1>1
<1>5. DOMAIN partial = Workers /\ DOMAIN read = Workers
  BY <1>1
<1>6. partial \in Seq(ToSet(partial))
  <2>1. DOMAIN partial = 1 .. WorkerCount /\ WorkerCount \in Nat
    BY <1>5, MergeAssumption DEF Workers
  <2>2. \A w \in 1 .. WorkerCount : partial[w] \in ToSet(partial)
    BY <2>1 DEF ToSet
  <2>3. partial \in [1 .. WorkerCount -> ToSet(partial)]
    BY <1>1, <2>1, <2>2 DEF Workers
  <2>4. QED
    BY <2>1, <2>3
<1> HIDE DEF read
<1>7. Shared(program, partial, read)
  BY <1>4, <1>5, <1>6, NothingRead DEF Shared
<1>8. QED
  BY <1>1, <1>2, <1>3, <1>7 DEF CatalogInv

LEMMA TakeInv ==
  ASSUME CatalogInv, NEW w \in Workers, Take(w)
  PROVE  CatalogInv'
<1> DEFINE unit == program[nextUnit]
<1>1. /\ nextUnit \in Nat /\ 1 <= nextUnit /\ nextUnit <= Len(program) /\ nextUnit' = nextUnit + 1
      /\ partial' = [partial EXCEPT ![w] = VisitUnit(partial[w], unit)]
      /\ program' = program /\ catalog' = catalog
      /\ program \in Programs
  <2>1. Len(program) \in Nat
    BY ProgramFacts DEF CatalogInv
  <2>2. QED
    BY <2>1 DEF Take, CatalogInv
<1>2. ~Merged
  <2>1. Len(program) \in Nat
    BY ProgramFacts DEF CatalogInv
  <2>2. Merged => nextUnit > Len(program)
    BY DEF CatalogInv
  <2>3. QED
    BY <1>1, <2>1, <2>2
<1>3. PICK read \in [Workers -> SUBSET ToSet(program)] :
        UNION {read[v] : v \in Workers} = UnitsTaken /\ Shared(program, partial, read)
  BY DEF CatalogInv
<1> DEFINE next == [read EXCEPT ![w] = read[w] \cup {unit}]
<1>4. unit \in ToSet(program) /\ Len(program) \in Nat
  BY <1>1, ProgramFacts DEF ToSet
<1>5. UnitsTaken' = UnitsTaken \cup {unit}
  <2>1. UnitsTaken' = {program[i] : i \in 1 .. nextUnit}
    BY <1>1 DEF UnitsTaken
  <2>2. \A i \in 1 .. nextUnit : i \in 1 .. nextUnit - 1 \/ i = nextUnit
    BY <1>1
  <2>3. nextUnit \in 1 .. nextUnit /\ \A i \in 1 .. nextUnit - 1 : i \in 1 .. nextUnit
    BY <1>1
  <2>4. QED
    BY <2>1, <2>2, <2>3 DEF UnitsTaken
<1> HIDE DEF unit
<1>6. /\ next \in [Workers -> SUBSET ToSet(program)]
      /\ next[w] = read[w] \cup {unit} /\ \A v \in Workers \ {w} : next[v] = read[v]
  BY <1>3, <1>4
<1>7. /\ DOMAIN partial = Workers /\ DOMAIN partial' = Workers
      /\ partial'[w] = VisitUnit(partial[w], unit) /\ \A v \in Workers \ {w} : partial'[v] = partial[v]
  <2>1. DOMAIN partial = Workers
    BY <1>3 DEF Shared
  <2>2. QED
    BY <1>1, <2>1 DEF unit
<1>8. UNION {next[v] : v \in Workers} = UnitsTaken \cup {unit}
  <2> HIDE DEF next
  <2>1. \A v \in Workers : next[v] \subseteq read[v] \cup {unit} /\ read[v] \subseteq next[v]
    BY <1>6
  <2>2. UNION {next[v] : v \in Workers} \subseteq UnitsTaken \cup {unit}
    BY <1>3, <2>1
  <2>3. unit \in next[w]
    BY <1>6
  <2>4. UnitsTaken \cup {unit} \subseteq UNION {next[v] : v \in Workers}
    BY <1>3, <2>1, <2>3
  <2>5. QED
    BY <2>2, <2>4
<1> HIDE DEF next
<1>9. Shared(program, partial', next)
  <2>1. ASSUME NEW v \in Workers
        PROVE  next[v] \subseteq ToSet(program) /\ Read(program, partial'[v], next[v])
    <3>1. read[v] \in SUBSET ToSet(program) /\ Read(program, partial[v], read[v])
      BY <1>3 DEF Shared
    <3>2. CASE v = w
      <4> DEFINE p == partial[v]
                 U == read[v]
      <4>1. partial'[v] = VisitUnit(p, unit) /\ next[v] = U \cup {unit}
        BY <1>6, <1>7, <3>2
      <4>2. U \in SUBSET ToSet(program) /\ Read(program, p, U)
        BY <3>1
      <4> HIDE DEF p, U
      <4>3. Read(program, VisitUnit(p, unit), U \cup {unit})
        BY <1>1, <1>4, <4>2, UnitVisited
      <4>4. QED
        BY <1>4, <4>1, <4>2, <4>3
    <3>3. CASE v # w
      <4>1. partial'[v] = partial[v] /\ next[v] = read[v]
        BY <1>6, <1>7, <3>3
      <4>2. QED
        BY <3>1, <4>1
    <3>4. QED
      BY <3>2, <3>3
  <2>2. DOMAIN next = Workers
    BY <1>6
  <2>3. partial' \in Seq(ToSet(partial'))
    <3>1. partial \in Seq(ToSet(partial))
      BY <1>3 DEF Shared
    <3>2. DOMAIN partial' = DOMAIN partial /\ partial' = [v \in DOMAIN partial |-> partial'[v]]
      BY <1>1, <1>7
    <3>3. QED
      BY <3>1, <3>2, Mapped
  <2>4. QED
    BY <1>7, <2>1, <2>2, <2>3 DEF Shared
<1>10. nextUnit' \in 1 .. Len(program) + 1
  BY <1>1, <1>4
<1>11. ~Merged'
  BY <1>1, <1>2 DEF Merged
<1>12. QED
  <2>1. program' \in Programs /\ nextUnit' \in 1 .. Len(program') + 1
    BY <1>1, <1>10
  <2>2. Shared(program', partial', next) /\ next \in [Workers -> SUBSET ToSet(program')]
    BY <1>1, <1>6, <1>9
  <2>3. UNION {next[v] : v \in Workers} = UnitsTaken'
    BY <1>5, <1>8
  <2>4. QED
    BY <1>11, <2>1, <2>2, <2>3 DEF CatalogInv

LEMMA MergeInv ==
  ASSUME CatalogInv, Merge
  PROVE  CatalogInv'
<1>1. /\ program' = program /\ nextUnit' = nextUnit /\ partial' = partial
      /\ nextUnit > Len(program) /\ catalog' = FinishCatalog(partial)
  BY DEF Merge
<1>2. PICK read \in [Workers -> SUBSET ToSet(program)] :
        UNION {read[v] : v \in Workers} = UnitsTaken /\ Shared(program, partial, read)
  BY DEF CatalogInv
<1>3. Shared(program', partial', read) /\ read \in [Workers -> SUBSET ToSet(program')]
  BY <1>1, <1>2
<1>4. UNION {read[v] : v \in Workers} = UnitsTaken'
  BY <1>1, <1>2 DEF UnitsTaken
<1>5. program' \in Programs /\ nextUnit' \in 1 .. Len(program') + 1
  BY <1>1 DEF CatalogInv
<1>6. nextUnit' > Len(program') /\ catalog' = FinishCatalog(partial')
  BY <1>1
<1>7. QED
  BY <1>3, <1>4, <1>5, <1>6 DEF CatalogInv

LEMMA StutterInv ==
  ASSUME CatalogInv, UNCHANGED vars
  PROVE  CatalogInv'
<1>1. program' = program /\ nextUnit' = nextUnit /\ partial' = partial /\ catalog' = catalog
  BY DEF vars
<1>2. QED
  BY <1>1 DEF CatalogInv, UnitsTaken, Merged

(* However the units fall to the workers, each has in its partial what the *)
(* units it read say of declarations, bodies, members and types; all units *)
(* taken are read; and the catalog is the merge of the partials.           *)
THEOREM CatalogShared == Spec => []CatalogInv
<1>1. Init => CatalogInv
  BY InitInv
<1>2. CatalogInv /\ [Next]_vars => CatalogInv'
  <2>1. SUFFICES ASSUME CatalogInv, [Next]_vars
                 PROVE  CatalogInv'
    OBVIOUS
  <2>2. CASE \E w \in Workers : Take(w)
    BY <2>1, <2>2, TakeInv
  <2>3. CASE Merge
    BY <2>1, <2>3, MergeInv
  <2>4. CASE UNCHANGED vars
    BY <2>1, <2>4, StutterInv
  <2>5. QED
    BY <2>1, <2>2, <2>3, <2>4 DEF Next
<1>3. QED
  BY <1>1, <1>2, PTL DEF Spec

-----------------------------------------------------------------------------
(* The properties.                                                         *)
LEMMA MergedAll ==
  ASSUME CatalogInv, Merged
  PROVE  /\ program \in Programs /\ catalog = FinishCatalog(partial)
         /\ \E read : /\ Shared(program, partial, read)
                      /\ UNION {read[w] : w \in DOMAIN partial} = ToSet(program)
<1>1. program \in Programs /\ catalog = FinishCatalog(partial) /\ nextUnit > Len(program)
      /\ nextUnit \in 1 .. Len(program) + 1
  BY DEF CatalogInv
<1>2. nextUnit - 1 = Len(program) /\ DOMAIN program = 1 .. Len(program)
  BY <1>1, ProgramFacts
<1>3. UnitsTaken = ToSet(program)
  BY <1>2 DEF UnitsTaken, ToSet
<1>4. PICK read \in [Workers -> SUBSET ToSet(program)] :
        UNION {read[w] : w \in Workers} = UnitsTaken /\ Shared(program, partial, read)
  BY DEF CatalogInv
<1>5. DOMAIN partial = Workers
  BY <1>4 DEF Shared
<1>6. QED
  BY <1>1, <1>3, <1>4, <1>5

LEMMA DefinitionsWinNow ==
  ASSUME CatalogInv, DefaultsAgree(program)
  PROVE  DefinitionsWin
<1> DEFINE X == CursorsIn(program)
           F == {IrOf(c) : c \in OfKind(X, "fn")}
           fns == catalog.fns
<1>1. SUFFICES ASSUME Merged, NEW c \in Cursors("fn"), c.def
               PROVE  /\ DeclarationOf(c) \in ToSet(catalog.decls)
                      /\ {[def |-> f.def, dflt |-> f.dflt] : f \in {e \in ToSet(catalog.fns) : e.usr = c.usr}}
                           = {[def |-> TRUE, dflt |-> \E d \in Cursors("fn") : d.usr = c.usr /\ d.dflt]}
                      /\ Cardinality({i \in DOMAIN catalog.fns : catalog.fns[i].usr = c.usr}) = 1
  BY DEF DefinitionsWin
<1>2. PICK read : /\ program \in Programs /\ catalog = FinishCatalog(partial)
                  /\ Shared(program, partial, read)
                  /\ UNION {read[w] : w \in DOMAIN partial} = ToSet(program)
  BY <1>1, MergedAll
<1>3. /\ Upserted(catalog.decls, {DeclarationOf(d) : d \in Functions(X)})
      /\ Kept(catalog.fns, F)
  BY <1>2, MergedDecls, MergedLowered
<1>4. c \in X /\ c.kind = "fn"
  BY DEF Cursors
<1>5. \A d, e \in X : d.kind = "fn" /\ e.kind \in FunctionLike /\ d.usr = e.usr =>
        d.kind = e.kind /\ (d.def /\ e.def => d = e)
  <2>1. OneDefinition(program)
    BY <1>2, MergeAssumption, Zenon
  <2> QED BY <2>1 DEF OneDefinition, FunctionLike
<1>6. DeclarationOf(c) \in ToSet(catalog.decls)
  <2>1. c \in Functions(X) /\ DeclarationOf(c).usr = c.usr /\ DeclarationOf(c).def = c.def
    BY <1>4 DEF Functions, FunctionLike, DeclarationOf
  <2>2. PICK e \in ToSet(catalog.decls) : e.usr = c.usr /\ e.def
    BY <1>1, <1>3, <2>1 DEF Upserted
  <2>3. PICK d \in Functions(X) : e = DeclarationOf(d)
    BY <1>3, <2>2 DEF Upserted
  <2>4. e.usr = d.usr /\ e.def = d.def /\ d \in X /\ d.kind \in FunctionLike
    BY <2>3 DEF DeclarationOf, Functions
  <2>5. c = d
    BY <1>1, <1>4, <1>5, <2>2, <2>4
  <2>6. QED
    BY <2>2, <2>3, <2>5
<1>7. \A d \in Cursors("fn") : d \in X /\ d.kind = "fn" /\ d.def \in BOOLEAN /\ d.dflt \in BOOLEAN
        /\ IrOf(d) \in F /\ IrOf(d).usr = d.usr /\ IrOf(d).def = d.def /\ IrOf(d).dflt = d.dflt
  <2>1. \A d \in Cursors("fn") : d \in X /\ d.kind = "fn"
    BY DEF Cursors
  <2>2. \A d \in Cursors("fn") : d.def \in BOOLEAN /\ d.dflt \in BOOLEAN
    BY <1>2, <2>1, ProgramFacts DEF Typed, FunctionLike
  <2>3. \A d \in Cursors("fn") : IrOf(d) \in F
    BY <2>1 DEF OfKind
  <2>4. QED
    BY <2>1, <2>2, <2>3, IrOfCursor
<1>8. \A f \in F : \E d \in Cursors("fn") : f = IrOf(d)
  BY DEF OfKind, Cursors
<1> HIDE DEF F
<1>9. Agreeing(F)
  <2>1. ASSUME NEW d \in Cursors("fn"), NEW e \in Cursors("fn"), d.usr = e.usr, d.def = e.def
        PROVE  d.dflt = e.dflt
    <3>1. CASE d.def
      <4>1. d = e
        BY <1>5, <1>7, <2>1, <3>1 DEF FunctionLike
      <4>2. QED
        BY <4>1
    <3>2. CASE ~d.def
      BY <1>7, <2>1, <3>2 DEF DefaultsAgree
    <3>3. QED
      BY <3>1, <3>2
  <2>2. ASSUME NEW f \in F, NEW g \in F, f.usr = g.usr, f.def = g.def
        PROVE  f.dflt = g.dflt
    <3>1. PICK d \in Cursors("fn") : f = IrOf(d)
      BY <1>8
    <3>2. PICK e \in Cursors("fn") : g = IrOf(e)
      BY <1>8
    <3>3. d.usr = e.usr /\ d.def = e.def /\ f.dflt = d.dflt /\ g.dflt = e.dflt
      BY <1>7, <2>2, <3>1, <3>2
    <3>4. QED
      BY <2>1, <3>3
  <2>3. QED
    BY <2>2 DEF Agreeing
<1>10. PICK k \in DOMAIN fns : fns[k].usr = c.usr /\ fns[k].def
  <2>1. IrOf(c) \in F /\ IrOf(c).usr = c.usr /\ IrOf(c).def
    BY <1>1, <1>7
  <2>2. PICK e \in ToSet(fns) : e.usr = c.usr /\ e.def
    BY <1>3, <2>1 DEF Kept
  <2>3. QED
    BY <2>2 DEF ToSet
<1>11. fns[k] \in ToSet(fns) /\ \A e \in ToSet(fns) : e.usr = c.usr => e = fns[k]
  <2>1. List(fns)
    BY <1>3 DEF Kept, Irs
  <2>2. QED
    BY <1>10, <2>1 DEF List, ToSet
<1>12. {i \in DOMAIN fns : fns[i].usr = c.usr} = {k}
  <2>1. List(fns)
    BY <1>3 DEF Kept, Irs
  <2>2. QED
    BY <1>10, <2>1 DEF List
<1>13. Cardinality({i \in DOMAIN fns : fns[i].usr = c.usr}) = 1
  BY <1>12, FS_Singleton
<1> DEFINE f == fns[k]
           given == \E d \in Cursors("fn") : d.usr = c.usr /\ d.dflt
<1>14. f.def \in BOOLEAN /\ f.dflt \in BOOLEAN
  BY <1>3, <1>11 DEF Kept, Irs, Ir
<1>15. f.def = TRUE
  BY <1>10, <1>14
<1>16. f.dflt = given
  <2>1. f.dflt <=> \E g \in F : g.usr = f.usr /\ g.dflt
    BY <1>3, <1>9, <1>11 DEF Kept
  <2>2. f.usr = c.usr
    BY <1>10
  <2>3. (\E g \in F : g.usr = c.usr /\ g.dflt) => given
    BY <1>7, <1>8
  <2>4. given => \E g \in F : g.usr = c.usr /\ g.dflt
    BY <1>7
  <2> HIDE DEF f, given
  <2>5. f.dflt <=> given
    BY <2>1, <2>2, <2>3, <2>4
  <2>6. given \in BOOLEAN
    BY DEF given
  <2>7. QED
    BY <1>14, <2>5, <2>6
<1>17. {e \in ToSet(fns) : e.usr = c.usr} = {f}
  BY <1>10, <1>11
<1>18. {[def |-> e.def, dflt |-> e.dflt] : e \in {e \in ToSet(fns) : e.usr = c.usr}}
         = {[def |-> TRUE, dflt |-> given]}
  <2> HIDE DEF f, given
  <2>1. {[def |-> e.def, dflt |-> e.dflt] : e \in {f}} = {[def |-> f.def, dflt |-> f.dflt]}
    OBVIOUS
  <2>2. QED
    BY <1>15, <1>16, <1>17, <2>1
<1>19. QED
  BY <1>6, <1>13, <1>18

\* Where the members of a class stand when its constructors follow its methods.
LEMMA Joined ==
  ASSUME NEW s, NEW t, s \in Seq(ToSet(s)), t \in Seq(ToSet(t))
  PROVE  /\ \A i \in DOMAIN s : i \in DOMAIN (s \o t) /\ (s \o t)[i] = s[i]
         /\ \A i \in DOMAIN t : Len(s) + i \in DOMAIN (s \o t) /\ (s \o t)[Len(s) + i] = t[i]
         /\ \A i \in DOMAIN (s \o t) :
              \/ i \in DOMAIN s /\ (s \o t)[i] = s[i]
              \/ i - Len(s) \in DOMAIN t /\ (s \o t)[i] = t[i - Len(s)]
         /\ Len(s) \in Nat /\ DOMAIN s \subseteq Nat /\ DOMAIN t \subseteq Nat
         /\ DOMAIN (s \o t) \subseteq Nat
<1> DEFINE A == ToSet(s) \cup ToSet(t)
           r == s \o t
<1>1. s \in Seq(A) /\ t \in Seq(A)
  OBVIOUS
<1> HIDE DEF A
<1>2. /\ Len(s) \in Nat /\ Len(t) \in Nat /\ DOMAIN s = 1 .. Len(s) /\ DOMAIN t = 1 .. Len(t)
      /\ r \in Seq(A) /\ DOMAIN r = 1 .. Len(s) + Len(t)
      /\ \A i \in 1 .. Len(s) + Len(t) : r[i] = IF i <= Len(s) THEN s[i] ELSE t[i - Len(s)]
  BY <1>1
<1> HIDE DEF r
<1>3. \A i \in DOMAIN s : i \in DOMAIN r /\ r[i] = s[i]
  BY <1>2
<1>4. \A i \in DOMAIN t : Len(s) + i \in DOMAIN r /\ r[Len(s) + i] = t[i]
  <2>1. ASSUME NEW i \in DOMAIN t
        PROVE  Len(s) + i \in DOMAIN r /\ r[Len(s) + i] = t[i]
    <3>1. Len(s) + i \in 1 .. Len(s) + Len(t) /\ ~(Len(s) + i <= Len(s)) /\ (Len(s) + i) - Len(s) = i
      BY <1>2
    <3>2. QED
      BY <1>2, <3>1
  <2>2. QED
    BY <2>1
<1>5. \A i \in DOMAIN r : \/ i \in DOMAIN s /\ r[i] = s[i]
                          \/ i - Len(s) \in DOMAIN t /\ r[i] = t[i - Len(s)]
  BY <1>2
<1>6. QED
  BY <1>2, <1>3, <1>4, <1>5 DEF r

PlacesOf(s, usr) == {i \in DOMAIN s : s[i].usr = usr}

\* One entry under usr in one of two lists and none in the other.
LEMMA OneInJoined ==
  ASSUME NEW s, NEW t, s \in Seq(ToSet(s)), t \in Seq(ToSet(t)), NEW usr,
         \/ /\ List(s) /\ \E e \in ToSet(s) : e.usr = usr
            /\ \A e \in ToSet(t) : e.usr # usr
         \/ /\ List(t) /\ \E e \in ToSet(t) : e.usr = usr
            /\ \A e \in ToSet(s) : e.usr # usr
  PROVE  Cardinality(PlacesOf(s \o t, usr)) = 1
<1> DEFINE r == s \o t
           n == Len(s)
           P == {i \in DOMAIN r : r[i].usr = usr}
<1>1. /\ \A i \in DOMAIN s : i \in DOMAIN r /\ r[i] = s[i]
      /\ \A i \in DOMAIN t : n + i \in DOMAIN r /\ r[n + i] = t[i]
      /\ \A i \in DOMAIN r : \/ i \in DOMAIN s /\ r[i] = s[i]
                             \/ i - n \in DOMAIN t /\ r[i] = t[i - n]
      /\ n \in Nat /\ DOMAIN s \subseteq Nat /\ DOMAIN t \subseteq Nat /\ DOMAIN r \subseteq Nat
  BY Joined
<1> HIDE DEF r, n
<1>2. \E k : P = {k}
  <2>1. CASE /\ List(s) /\ \E e \in ToSet(s) : e.usr = usr
             /\ \A e \in ToSet(t) : e.usr # usr
    <3>1. PICK k \in DOMAIN s : s[k].usr = usr
      BY <2>1 DEF ToSet
    <3>2. k \in P
      BY <1>1, <3>1
    <3>3. \A i \in P : i = k
      <4>1. ASSUME NEW i \in P
            PROVE  i = k
        <5>1. ~(i - n \in DOMAIN t /\ r[i] = t[i - n])
          BY <2>1 DEF ToSet
        <5>2. i \in DOMAIN s /\ s[i].usr = usr
          BY <1>1, <5>1
        <5>3. QED
          BY <2>1, <3>1, <5>2 DEF List
      <4>2. QED
        BY <4>1
    <3> HIDE DEF P
    <3>4. P = {k}
      BY <3>2, <3>3
    <3>5. QED
      BY <3>4
  <2>2. CASE /\ List(t) /\ \E e \in ToSet(t) : e.usr = usr
             /\ \A e \in ToSet(s) : e.usr # usr
    <3>1. PICK k \in DOMAIN t : t[k].usr = usr
      BY <2>2 DEF ToSet
    <3>2. n + k \in P
      BY <1>1, <3>1
    <3>3. \A i \in P : i = n + k
      <4>1. ASSUME NEW i \in P
            PROVE  i = n + k
        <5>1. ~(i \in DOMAIN s /\ r[i] = s[i])
          BY <2>2 DEF ToSet
        <5>2. i - n \in DOMAIN t /\ t[i - n].usr = usr
          BY <1>1, <5>1
        <5>3. i - n = k
          BY <2>2, <3>1, <5>2 DEF List
        <5>4. i \in Nat /\ k \in Nat
          BY <1>1, <3>1
        <5>5. QED
          BY <1>1, <5>3, <5>4
      <4>2. QED
        BY <4>1
    <3> DEFINE m == n + k
    <3> HIDE DEF P, m
    <3>4. P = {m}
      BY <3>2, <3>3 DEF m
    <3>5. QED
      BY <3>4
  <2>3. QED
    BY <2>1, <2>2
<1>3. Cardinality(P) = 1
  BY <1>2, FS_Singleton
<1>4. QED
  BY <1>3 DEF r, PlacesOf

LEMMA MembersUnitedNow ==
  ASSUME CatalogInv, NoPureBodies(program), ClassFirst(program)
  PROVE  MembersUnited
<1> DEFINE X == CursorsIn(program)
<1>1. SUFFICES ASSUME Merged
               PROVE  /\ \A c \in Cursors("method") \cup Cursors("ctor") :
                           \E r \in ToSet(catalog.records) :
                             /\ r.usr = c.owner
                             /\ LET ms == r.methods \o r.ctors
                                IN /\ Cardinality({i \in DOMAIN ms : ms[i].usr = c.usr}) = 1
                                   /\ c.def => \E m \in ToSet(ms) : m.usr = c.usr /\ m.def
                      /\ \A c \in Cursors("dtor") :
                           \E r \in ToSet(catalog.records) : r.usr = c.owner /\ r.dtor # <<>>
  BY DEF MembersUnited
<1>2. PICK read : /\ program \in Programs /\ catalog = FinishCatalog(partial)
                  /\ Shared(program, partial, read)
                  /\ UNION {read[w] : w \in DOMAIN partial} = ToSet(program)
  BY <1>1, MergedAll
<1>3. United(catalog.records, X)
  BY <1>2, MergedRecords
<1>4. OneOwner(X)
  BY <1>2, ProgramFacts
<1>5. ASSUME NEW c \in Cursors("method") \cup Cursors("ctor")
      PROVE  \E r \in ToSet(catalog.records) :
               /\ r.usr = c.owner
               /\ LET ms == r.methods \o r.ctors
                  IN /\ Cardinality({i \in DOMAIN ms : ms[i].usr = c.usr}) = 1
                     /\ c.def => \E m \in ToSet(ms) : m.usr = c.usr /\ m.def
  <2>1. c \in X /\ c.kind \in {"method", "ctor"} /\ c.kind \in ClassLike /\ Class(c) = c.owner
    BY DEF Cursors, ClassLike, Class
  <2>2. PICK r \in ToSet(catalog.records) : r.usr = c.owner
    BY <1>3, <2>1 DEF United
  <2>3. Faithful(r, X)
    BY <1>3 DEF United
  <2> DEFINE s == r.methods
             t == r.ctors
             S == MembersOf(X, "method", c.owner)
             T == MembersOf(X, "ctor", c.owner)
  <2>4. Matches(s, S) /\ Matches(t, T)
    BY <2>2, <2>3 DEF Faithful
  <2>5. \A d \in S \cup T : d \in X /\ d.kind \in {"method", "ctor"}
    BY DEF MembersOf
  <2>6. \A d \in S : d.kind = "method"
    BY DEF MembersOf
  <2>7. \A d \in T : d.kind = "ctor"
    BY DEF MembersOf
  <2>8. (c.kind = "method" => c \in S) /\ (c.kind = "ctor" => c \in T)
    BY <2>1 DEF MembersOf
  <2>9. \A d \in S \cup T : d.usr = c.usr => d.kind = c.kind
    BY <1>4, <2>1, <2>5 DEF OneOwner
  <2> HIDE DEF s, t, S, T
  <2>10. s \in Seq(ToSet(s)) /\ t \in Seq(ToSet(t)) /\ List(s) /\ List(t)
    BY <2>4 DEF Matches, Irs, List
  <2>11. c.kind = "method" => /\ \E e \in ToSet(s) : e.usr = c.usr /\ e.def = c.def
                              /\ \A e \in ToSet(t) : e.usr # c.usr
    BY <2>4, <2>7, <2>8, <2>9 DEF Matches
  <2>12. c.kind = "ctor" => /\ \E e \in ToSet(t) : e.usr = c.usr /\ e.def = c.def
                            /\ \A e \in ToSet(s) : e.usr # c.usr
    BY <2>4, <2>6, <2>8, <2>9 DEF Matches
  <2>13. Cardinality(PlacesOf(s \o t, c.usr)) = 1
    <3> DEFINE usr == c.usr
    <3>1. \/ /\ List(s) /\ \E e \in ToSet(s) : e.usr = usr
             /\ \A e \in ToSet(t) : e.usr # usr
          \/ /\ List(t) /\ \E e \in ToSet(t) : e.usr = usr
             /\ \A e \in ToSet(s) : e.usr # usr
      BY <2>1, <2>10, <2>11, <2>12
    <3> HIDE DEF usr
    <3>2. Cardinality(PlacesOf(s \o t, usr)) = 1
      BY <2>10, <3>1, OneInJoined
    <3>3. QED
      BY <3>2 DEF usr
  <2>14. \A e \in ToSet(s) \cup ToSet(t) : e \in ToSet(s \o t)
    <3>1. /\ \A i \in DOMAIN s : i \in DOMAIN (s \o t) /\ (s \o t)[i] = s[i]
          /\ \A i \in DOMAIN t : Len(s) + i \in DOMAIN (s \o t) /\ (s \o t)[Len(s) + i] = t[i]
      BY <2>10, Joined
    <3> DEFINE ms == s \o t
    <3> HIDE DEF ms
    <3>2. QED
      BY <3>1 DEF ToSet, ms
  <2>15. c.def => \E m \in ToSet(s \o t) : m.usr = c.usr /\ m.def
    BY <2>1, <2>11, <2>12, <2>14
  <2>16. QED
    BY <2>2, <2>13, <2>15 DEF s, t, PlacesOf
<1>6. ASSUME NEW c \in Cursors("dtor")
      PROVE  \E r \in ToSet(catalog.records) : r.usr = c.owner /\ r.dtor # <<>>
  <2>1. c \in X /\ c.kind = "dtor" /\ c.kind \in ClassLike /\ Class(c) = c.owner
    BY DEF Cursors, ClassLike, Class
  <2>2. PICK r \in ToSet(catalog.records) : r.usr = c.owner
    BY <1>3, <2>1 DEF United
  <2>3. c \in MembersOf(X, "dtor", r.usr)
    BY <2>1, <2>2 DEF MembersOf
  <2>4. r.dtor # <<>>
    BY <1>3, <2>3 DEF United, Faithful
  <2>5. QED
    BY <2>2, <2>4
<1>7. QED
  BY <1>5, <1>6

LEMMA TypesUnitedNow ==
  ASSUME CatalogInv
  PROVE  TypesUnited
<1> DEFINE X == CursorsIn(program)
           defined == {c \in Cursors("record") \cup Cursors("alias") : InProject(c)}
           facts == catalog.types
<1>1. SUFFICES ASSUME Merged
               PROVE  /\ {t.usr : t \in facts.types} = {c.usr : c \in defined}
                      /\ \A t, s \in facts.types : t.usr = s.usr => t = s
                      /\ \A u \in DOMAIN program : \A c \in CursorsOf(program[u], "mention") :
                           \A a, b \in {d \in CursorsOf(program[u], "record") : InProject(d)} :
                             (c.use \in {"field", "inheritance"} /\ c.owner = a.usr /\ c.type = b.usr /\ a # b) =>
                               <<[usr |-> a.usr, site |-> a.site], [usr |-> b.usr, site |-> b.site]>>
                                 \in facts.deps
                      /\ \A f, g \in facts.files : f.path = g.path => f = g
                      /\ \A u \in DOMAIN program : program[u].file \in ProjectFiles =>
                           [path |-> program[u].file, kind |-> "translation_unit"] \in facts.files
  BY DEF TypesUnited
<1>2. PICK read : /\ program \in Programs /\ catalog = FinishCatalog(partial)
                  /\ Shared(program, partial, read)
                  /\ UNION {read[w] : w \in DOMAIN partial} = ToSet(program)
  BY <1>1, MergedAll
<1>3. /\ \E s : facts.types = ToSet(s) /\ Covers(s, DefinedIn(X))
      /\ \A unit \in ToSet(program) : EdgesHold(facts.deps, unit, ToSet(unit.cursors))
      /\ \E units, headers :
           /\ facts.files = SourceFiles(units, headers)
           /\ \A unit \in ToSet(program) : unit.file \in ProjectFiles => unit.file \in units
  BY <1>2, MergedTypes
<1>4. PICK s : facts.types = ToSet(s) /\ Covers(s, DefinedIn(X))
  BY <1>3
<1>5. PICK units, headers :
        /\ facts.files = SourceFiles(units, headers)
        /\ \A unit \in ToSet(program) : unit.file \in ProjectFiles => unit.file \in units
  BY <1>3
<1>6. defined = DefinedIn(X)
  BY DEF Cursors, DefinedIn, Definition
<1> HIDE DEF defined, facts
<1>7. {t.usr : t \in facts.types} = {c.usr : c \in defined}
  BY <1>4, <1>6 DEF Covers
<1>8. \A t, e \in facts.types : t.usr = e.usr => t = e
  BY <1>4 DEF Covers, List, ToSet
<1>9. ASSUME NEW u \in DOMAIN program, NEW c \in CursorsOf(program[u], "mention"),
             NEW a \in {d \in CursorsOf(program[u], "record") : InProject(d)},
             NEW b \in {d \in CursorsOf(program[u], "record") : InProject(d)},
             c.use \in {"field", "inheritance"}, c.owner = a.usr, c.type = b.usr, a # b
      PROVE  <<[usr |-> a.usr, site |-> a.site], [usr |-> b.usr, site |-> b.site]>> \in facts.deps
  <2> DEFINE unit == program[u]
  <2>1. unit \in ToSet(program)
    BY DEF ToSet
  <2>2. EdgesHold(facts.deps, unit, ToSet(unit.cursors))
    BY <1>3, <2>1
  <2>3. /\ c \in ToSet(unit.cursors) /\ c.kind = "mention"
        /\ a \in ToSet(unit.cursors) /\ a.kind = "record" /\ InProject(a)
        /\ b \in ToSet(unit.cursors) /\ b.kind = "record" /\ InProject(b)
    BY DEF CursorsOf
  <2> HIDE DEF unit
  <2>4. <<DescriptionOf(a), DescriptionOf(b)>> \in facts.deps
    BY <1>9, <2>2, <2>3 DEF EdgesHold
  <2>5. QED
    BY <2>4 DEF DescriptionOf
<1>10. \A f, g \in facts.files : f.path = g.path => f = g
  BY <1>5 DEF SourceFiles
<1>11. ASSUME NEW u \in DOMAIN program, program[u].file \in ProjectFiles
       PROVE  [path |-> program[u].file, kind |-> "translation_unit"] \in facts.files
  <2>1. program[u].file \in units
    BY <1>5, <1>11 DEF ToSet
  <2>2. QED
    BY <1>5, <2>1 DEF SourceFiles
<1>12. QED
  BY <1>7, <1>8, <1>9, <1>10, <1>11

(* Whichever worker saw which half, a function some unit defines is        *)
(* cataloged once, as its definition, with the default arguments any       *)
(* prototype gives it: if its prototypes agree on them, because of two     *)
(* that do not the merge keeps the first.                                  *)
THEOREM DefinitionsAlwaysWin == Spec => [](DefaultsAgree(program) => DefinitionsWin)
<1>1. CatalogInv => (DefaultsAgree(program) => DefinitionsWin)
  BY DefinitionsWinNow
<1>2. QED
  BY <1>1, CatalogShared, PTL

(* Whichever worker saw which part of a class, the cataloged class has     *)
(* every member any unit gives it, once, and with its body: if the class   *)
(* stands before its members in every unit, as clang visits it, and no     *)
(* pure virtual method has a body, which the worker would have skipped.    *)
THEOREM MembersStayUnited ==
  Spec => [](NoPureBodies(program) /\ ClassFirst(program) => MembersUnited)
<1>1. CatalogInv => (NoPureBodies(program) /\ ClassFirst(program) => MembersUnited)
  BY MembersUnitedNow
<1>2. QED
  BY <1>1, CatalogShared, PTL

(* Whatever unit a worker saw a type, an edge or a file from, the merged   *)
(* lists have each defined type once, every edge between two of them, and  *)
(* each file under one kind.                                               *)
THEOREM TypesStayUnited == Spec => []TypesUnited
<1>1. CatalogInv => TypesUnited
  BY TypesUnitedNow
<1>2. QED
  BY <1>1, CatalogShared, PTL

-----------------------------------------------------------------------------
(* The other way round: a record says nothing that no cursor in X said,    *)
(* and the calls and enums noted are those of X.                           *)
Told(r, X) ==
  /\ Record(r)
  /\ \E c \in X : c.kind = "record" /\ c.usr = r.usr /\ c.name = r.name /\ c.ns = r.ns
  /\ r.methods \in Seq({IrOf(c) : c \in MembersOf(X, "method", r.usr)})
  /\ r.ctors \in Seq({IrOf(c) : c \in MembersOf(X, "ctor", r.usr)})
  /\ r.dtor = <<>> \/ \E c \in MembersOf(X, "dtor", r.usr) : r.dtor = <<IrOf(c)>>

CallsOf(c) == {<<c.usr, k.usr>> : k \in c.calls}

FunctionsNoted(p, X) ==
  /\ DOMAIN p = Fields
  /\ p.records \in Seq(ToSet(p.records)) /\ \A r \in ToSet(p.records) : Told(r, X)
  /\ p.calls = UNION {CallsOf(c) : c \in Functions(X)}
  /\ p.enums = {c.usr : c \in OfKind(X, "enum")}

LEMMA Found ==
  ASSUME NEW s, s \in Seq(ToSet(s)), NEW u, IndexOfUsr(s, u) # 0
  PROVE  LET i == IndexOfUsr(s, u) IN i \in DOMAIN s /\ s[i] \in ToSet(s) /\ s[i].usr = u
<1> DEFINE found == {i \in DOMAIN s : s[i].usr = u}
<1>1. found # {}
  BY DEF IndexOfUsr
<1>2. IndexOfUsr(s, u) = CHOOSE k \in found : TRUE
  BY <1>1 DEF IndexOfUsr
<1>3. IndexOfUsr(s, u) \in found
  BY <1>1, <1>2
<1>4. QED
  BY <1>3 DEF ToSet

LEMMA Placed ==
  ASSUME NEW s, s \in Seq(ToSet(s)), NEW i \in DOMAIN s, NEW x
  PROVE  LET r == ReplaceAt(s, i, x) IN r \in Seq(ToSet(r)) /\ ToSet(r) \subseteq ToSet(s) \cup {x}
<1> DEFINE r == ReplaceAt(s, i, x)
<1>1. DOMAIN r = DOMAIN s /\ r = [j \in DOMAIN s |-> r[j]] /\ \A j \in DOMAIN s : r[j] = x \/ r[j] = s[j]
  BY DEF ReplaceAt
<1> HIDE DEF r
<1>2. r \in Seq(ToSet(r))
  BY <1>1, Mapped
<1>3. ToSet(r) \subseteq ToSet(s) \cup {x}
  BY <1>1 DEF ToSet
<1>4. QED
  BY <1>2, <1>3 DEF r

LEMMA ToldMore ==
  ASSUME NEW r, NEW X, NEW Y, X \subseteq Y, Told(r, X)
  PROVE  Told(r, Y)
<1>1. \A k : MembersOf(X, k, r.usr) \subseteq MembersOf(Y, k, r.usr)
  BY DEF MembersOf
<1>2. ASSUME NEW k, NEW s \in Seq({IrOf(c) : c \in MembersOf(X, k, r.usr)})
      PROVE  s \in Seq({IrOf(c) : c \in MembersOf(Y, k, r.usr)})
  <2> DEFINE A == {IrOf(c) : c \in MembersOf(X, k, r.usr)}
             B == {IrOf(c) : c \in MembersOf(Y, k, r.usr)}
  <2>1. A \subseteq B
    BY <1>1
  <2> HIDE DEF A, B
  <2>2. s \in Seq(A)
    BY <1>2 DEF A
  <2>3. s \in Seq(B)
    BY <2>1, <2>2
  <2>4. QED
    BY <2>3 DEF B
<1>3. QED
  BY <1>1, <1>2 DEF Told

LEMMA Attached ==
  ASSUME NEW r, NEW X, Told(r, X), NEW c \in X, c.owner = r.usr
  PROVE  /\ c.kind \in {"method", "ctor"} => Told(Attach(r, c), X)
         /\ c.kind = "dtor" => Told([r EXCEPT !.dtor = <<IrOf(c)>>], X)
<1> DEFINE Of(k) == {IrOf(d) : d \in MembersOf(X, k, r.usr)}
<1>1. IrOf(c) \in Of(c.kind)
  BY DEF MembersOf
<1>2. r.methods \in Seq(Of("method")) /\ r.ctors \in Seq(Of("ctor"))
  BY DEF Told
<1> HIDE DEF Of
<1>3. CASE c.kind = "ctor"
  <2> DEFINE list == Append(r.ctors, IrOf(c))
             q == [r EXCEPT !.ctors = list]
  <2>1. Attach(r, c) = q
    BY <1>3 DEF Attach
  <2>2. Append(r.ctors, IrOf(c)) \in Seq(Of("ctor"))
    BY <1>1, <1>2, <1>3
  <2>3. /\ Record(q) /\ q.usr = r.usr /\ q.name = r.name /\ q.ns = r.ns /\ q.methods = r.methods
        /\ q.ctors = list /\ q.dtor = r.dtor
    <3> HIDE DEF list
    <3>1. Record(r)
      BY DEF Told
    <3>2. QED
      BY <3>1 DEF Record
  <2> HIDE DEF q
  <2>4. q.ctors \in Seq(Of("ctor")) /\ q.methods \in Seq(Of("method"))
    BY <1>2, <2>2, <2>3
  <2>5. Told(q, X)
    BY <2>3, <2>4 DEF Told, Of
  <2>6. QED
    BY <1>3, <2>1, <2>5
<1>4. CASE c.kind = "method"
  <2> DEFINE list == Append(r.methods, IrOf(c))
             q == [r EXCEPT !.methods = list]
  <2>1. Attach(r, c) = q
    BY <1>4 DEF Attach
  <2>2. Append(r.methods, IrOf(c)) \in Seq(Of("method"))
    BY <1>1, <1>2, <1>4
  <2>3. /\ Record(q) /\ q.usr = r.usr /\ q.name = r.name /\ q.ns = r.ns /\ q.ctors = r.ctors
        /\ q.methods = list /\ q.dtor = r.dtor
    <3> HIDE DEF list
    <3>1. Record(r)
      BY DEF Told
    <3>2. QED
      BY <3>1 DEF Record
  <2> HIDE DEF q
  <2>4. q.ctors \in Seq(Of("ctor")) /\ q.methods \in Seq(Of("method"))
    BY <1>2, <2>2, <2>3
  <2>5. Told(q, X)
    BY <2>3, <2>4 DEF Told, Of
  <2>6. QED
    BY <1>4, <2>1, <2>5
<1>5. CASE c.kind = "dtor"
  <2> DEFINE q == [r EXCEPT !.dtor = <<IrOf(c)>>]
  <2>1. /\ Record(q) /\ q.usr = r.usr /\ q.name = r.name /\ q.ns = r.ns /\ q.ctors = r.ctors
        /\ q.methods = r.methods /\ q.dtor = <<IrOf(c)>>
    BY DEF Told, Record
  <2>2. c \in MembersOf(X, "dtor", r.usr)
    BY <1>5 DEF MembersOf
  <2> HIDE DEF q
  <2>3. Told(q, X)
    BY <1>2, <2>1, <2>2 DEF Told, Of
  <2>4. QED
    BY <1>5, <2>3 DEF q
<1>6. QED
  BY <1>3, <1>4, <1>5

LEMMA NotedTurn ==
  ASSUME NEW p, NEW X, NEW c, FunctionsNoted(p, X)
  PROVE  FunctionsNoted(VisitCursor(p, c), X \cup {c})
<1> DEFINE q == VisitCursor(p, c)
           s == p.records
           Y == X \cup {c}
           i == IndexOfUsr(s, c.owner)
<1>1. /\ DOMAIN q = Fields
      /\ q.calls = IF c.kind \in FunctionLike THEN p.calls \cup CallsOf(c) ELSE p.calls
      /\ q.enums = IF c.kind = "enum" THEN p.enums \cup {c.usr} ELSE p.enums
      /\ c.kind \notin ClassLike => q.records = s
      /\ c.kind = "record" => q.records = IF IndexOfUsr(s, c.usr) # 0 THEN s ELSE Append(s, NewRecord(c))
      /\ c.kind \in {"method", "ctor"} =>
           q.records = IF c.usr \in p.members \/ i = 0 THEN s ELSE ReplaceAt(s, i, Attach(s[i], c))
      /\ c.kind = "dtor" =>
           q.records = IF i = 0 THEN s ELSE ReplaceAt(s, i, [s[i] EXCEPT !.dtor = <<IrOf(c)>>])
  BY CursorVisited DEF FunctionsNoted, CallsOf
<1> HIDE DEF q, i
<1>2. q.calls = UNION {CallsOf(d) : d \in Functions(Y)}
  <2>1. Functions(Y) = IF c.kind \in FunctionLike THEN Functions(X) \cup {c} ELSE Functions(X)
    BY DEF Functions
  <2>2. UNION {CallsOf(d) : d \in Functions(X) \cup {c}} = (UNION {CallsOf(d) : d \in Functions(X)}) \cup CallsOf(c)
    OBVIOUS
  <2>3. p.calls = UNION {CallsOf(d) : d \in Functions(X)}
    BY DEF FunctionsNoted
  <2>4. CASE c.kind \in FunctionLike
    BY <1>1, <2>1, <2>2, <2>3, <2>4
  <2>5. CASE c.kind \notin FunctionLike
    BY <1>1, <2>1, <2>3, <2>5
  <2>6. QED
    BY <2>4, <2>5
<1>3. q.enums = {d.usr : d \in OfKind(Y, "enum")}
  <2>1. p.enums = {d.usr : d \in OfKind(X, "enum")}
    BY DEF FunctionsNoted
  <2>2. OfKind(Y, "enum") = IF c.kind = "enum" THEN OfKind(X, "enum") \cup {c} ELSE OfKind(X, "enum")
    BY DEF OfKind
  <2>3. QED
    BY <1>1, <2>1, <2>2
<1>4. s \in Seq(ToSet(s)) /\ \A r \in ToSet(s) : Told(r, Y)
  <2>1. X \subseteq Y
    OBVIOUS
  <2> HIDE DEF Y
  <2>2. QED
    BY <2>1, ToldMore DEF FunctionsNoted
<1>5. c \in Y
  OBVIOUS
<1> HIDE DEF s, Y
<1>6. q.records \in Seq(ToSet(q.records)) /\ \A r \in ToSet(q.records) : Told(r, Y)
  <2>1. CASE c.kind = "record" /\ IndexOfUsr(s, c.usr) = 0
    <3>1. Told(NewRecord(c), Y)
      <4>1. \A A : <<>> \in Seq(A)
        OBVIOUS
      <4>2. QED
        BY <1>5, <2>1, <4>1 DEF Told, Record, NewRecord
    <3>2. q.records = Append(s, NewRecord(c))
      BY <1>1, <2>1
    <3>3. q.records \in Seq(ToSet(q.records)) /\ ToSet(q.records) = ToSet(s) \cup {NewRecord(c)}
      BY <1>4, <3>2, Appended
    <3>4. QED
      BY <1>4, <3>1, <3>3
  <2>2. ASSUME NEW x, i # 0, c.owner = s[i].usr => Told(x, Y), q.records = ReplaceAt(s, i, x)
        PROVE  q.records \in Seq(ToSet(q.records)) /\ \A r \in ToSet(q.records) : Told(r, Y)
    <3>1. i \in DOMAIN s /\ s[i].usr = c.owner
      BY <1>4, <2>2, Found DEF i
    <3>2. q.records \in Seq(ToSet(q.records)) /\ ToSet(q.records) \subseteq ToSet(s) \cup {x}
      BY <1>4, <2>2, <3>1, Placed
    <3>3. QED
      BY <1>4, <2>2, <3>1, <3>2
  <2>3. i # 0 => Told(s[i], Y) /\ s[i].usr = c.owner
    BY <1>4, Found DEF i
  <2>4. CASE c.kind \in {"method", "ctor"} /\ c.usr \notin p.members /\ i # 0
    <3>1. Told(Attach(s[i], c), Y) /\ q.records = ReplaceAt(s, i, Attach(s[i], c))
      BY <1>1, <1>5, <2>3, <2>4, Attached
    <3>2. QED
      BY <2>2, <2>4, <3>1
  <2>5. CASE c.kind = "dtor" /\ i # 0
    <3>1. Told([s[i] EXCEPT !.dtor = <<IrOf(c)>>], Y) /\ q.records = ReplaceAt(s, i, [s[i] EXCEPT !.dtor = <<IrOf(c)>>])
      BY <1>1, <1>5, <2>3, <2>5, Attached
    <3>2. QED
      BY <2>2, <2>5, <3>1
  <2>6. CASE q.records = s
    BY <1>4, <2>6
  <2>7. QED
    BY <1>1, <2>1, <2>4, <2>5, <2>6 DEF ClassLike
<1>7. FunctionsNoted(q, Y)
  BY <1>1, <1>2, <1>3, <1>6 DEF FunctionsNoted
<1>8. QED
  BY <1>7 DEF q, Y

NotedTurns(X, p, c) == VisitCursor(p, c)
NotedHolds(X, p, Y) == FunctionsNoted(p, X \cup Y)
NotedLoop == INSTANCE Folding WITH Op <- NotedTurns, Holds <- NotedHolds

LEMMA NotedOfUnit ==
  ASSUME NEW base, NEW X, NEW s, s \in Seq(ToSet(s)), FunctionsNoted(base, X)
  PROVE  FunctionsNoted(FoldLeft(VisitCursor, base, s), X \cup ToSet(s))
<1>1. FoldLeft(VisitCursor, base, s) = NotedLoop!Fold(X, base, s)
  BY DEF NotedTurns, NotedLoop!Fold, FoldLeft, MapThenFoldSet, NotedLoop!MapThenFoldSet,
         Max, NotedLoop!Last
<1>2. NotedHolds(X, base, {})
  BY DEF NotedHolds
<1>3. ASSUME NEW built, NEW Y, NEW c, NotedHolds(X, built, Y)
      PROVE  NotedHolds(X, NotedTurns(X, built, c), Y \cup {c})
  <2>1. FunctionsNoted(VisitCursor(built, c), (X \cup Y) \cup {c})
    BY <1>3, NotedTurn DEF NotedHolds
  <2>2. QED
    BY <2>1 DEF NotedHolds, NotedTurns
<1> HIDE DEF NotedHolds, NotedTurns
<1>4. NotedHolds(X, NotedLoop!Fold(X, base, s), ToSet(s))
  BY <1>2, <1>3, NotedLoop!Invariance DEF ToSet
<1>5. QED
  BY <1>1, <1>4 DEF NotedHolds

-----------------------------------------------------------------------------
(* Merging adds nothing.  The entries of a list come from T: for functions *)
(* T has every entry with either default argument, for members it has one  *)
(* entry under each usr.                                                   *)
EitherDefault(T) == \A e \in T : Ir(e) /\ \A b \in BOOLEAN : [e EXCEPT !.dflt = b] \in T
OneEach(T) == \A e, f \in T : Ir(e) /\ (e.usr = f.usr => e = f)

LEMMA FoundIn ==
  ASSUME NEW T, NEW s \in Seq(T), NEW u, IndexOfUsr(s, u) # 0
  PROVE  LET i == IndexOfUsr(s, u) IN i \in DOMAIN s /\ s[i] \in T /\ s[i].usr = u
<1> DEFINE found == {i \in DOMAIN s : s[i].usr = u}
<1>1. found # {}
  BY DEF IndexOfUsr
<1>2. IndexOfUsr(s, u) = CHOOSE k \in found : TRUE
  BY <1>1 DEF IndexOfUsr
<1>3. IndexOfUsr(s, u) \in found
  BY <1>1, <1>2
<1> QED BY <1>3

LEMMA PlacedIn ==
  ASSUME NEW T, NEW s \in Seq(T), NEW i \in DOMAIN s, NEW x \in T
  PROVE  ReplaceAt(s, i, x) \in Seq(T)
BY DEF ReplaceAt

LEMMA FunctionPut ==
  ASSUME NEW T, EitherDefault(T), NEW s \in Seq(T), NEW f \in T
  PROVE  MergeFunction(s, f) \in Seq(T)
<1> DEFINE i == IndexOfUsr(s, f.usr)
           g == [f EXCEPT !.dflt = @ \/ s[i].dflt]
           h == [s[i] EXCEPT !.dflt = @ \/ f.dflt]
<1>1. MergeFunction(s, f) =
        IF i = 0 THEN Append(s, f)
        ELSE IF f.def /\ ~s[i].def THEN ReplaceAt(s, i, g)
        ELSE IF ~f.def /\ s[i].def THEN ReplaceAt(s, i, h)
        ELSE s
  BY DEF MergeFunction
<1>2. i # 0 => i \in DOMAIN s /\ s[i] \in T
  BY FoundIn
<1>3. Append(s, f) \in Seq(T)
  OBVIOUS
<1>4. i # 0 => g \in T /\ h \in T
  <2> DEFINE e == s[i]
  <2>1. SUFFICES ASSUME e \in T
                 PROVE  g \in T /\ h \in T
    BY <1>2
  <2> HIDE DEF e
  <2>2. (f.dflt \/ e.dflt) \in BOOLEAN /\ (e.dflt \/ f.dflt) \in BOOLEAN
    OBVIOUS
  <2>3. [f EXCEPT !.dflt = f.dflt \/ e.dflt] \in T /\ [e EXCEPT !.dflt = e.dflt \/ f.dflt] \in T
    BY <2>1, <2>2 DEF EitherDefault
  <2> QED BY <2>3 DEF e
<1> HIDE DEF i, g, h
<1>5. i # 0 => ReplaceAt(s, i, g) \in Seq(T) /\ ReplaceAt(s, i, h) \in Seq(T)
  BY <1>2, <1>4, PlacedIn
<1> QED BY <1>1, <1>3, <1>5

LEMMA MemberPut ==
  ASSUME NEW T, OneEach(T), NEW s \in Seq(T), NEW f \in T
  PROVE  MergeMethod(s, f) \in Seq(T) /\ MergeConstructor(s, f) \in Seq(T)
<1> DEFINE i == IndexOfUsr(s, f.usr)
           h == [s[i] EXCEPT !.dflt = @ \/ f.dflt]
<1>1. CASE i = 0
  BY <1>1 DEF MergeMethod, MergeFunction, MergeConstructor
<1>2. CASE i # 0
  <2>1. i \in DOMAIN s /\ s[i] = f
    <3>1. i \in DOMAIN s /\ s[i] \in T /\ s[i].usr = f.usr
      BY <1>2, FoundIn
    <3> QED BY <3>1 DEF OneEach
  <2>2. MergeMethod(s, f) = s
    BY <1>2, <2>1 DEF MergeMethod, MergeFunction
  <2>3. MergeConstructor(s, f) = ReplaceAt(s, i, h)
    BY <1>2 DEF MergeConstructor
  <2>4. h = f
    <3>1. Ir(f) /\ h = [f EXCEPT !.dflt = f.dflt \/ f.dflt]
      BY <2>1 DEF OneEach
    <3>2. (f.dflt \/ f.dflt) = f.dflt
      BY <3>1 DEF Ir
    <3>3. [f EXCEPT !.dflt = f.dflt] = f
      BY <3>1 DEF Ir
    <3> QED BY <3>1, <3>2, <3>3
  <2> HIDE DEF i, h
  <2>5. ReplaceAt(s, i, f) \in Seq(T)
    BY <2>1, PlacedIn
  <2> QED BY <2>2, <2>3, <2>4, <2>5
<1> QED BY <1>1, <1>2

PutFunctionTurns(T, s, f) == MergeFunction(s, f)
PutMethodTurns(T, s, f) == MergeMethod(s, f)
PutConstructorTurns(T, s, f) == MergeConstructor(s, f)
PutHolds(T, s, F) == s \in Seq(T)
PutFunctionLoop == INSTANCE Folding WITH Op <- PutFunctionTurns, Holds <- PutHolds
PutMethodLoop == INSTANCE Folding WITH Op <- PutMethodTurns, Holds <- PutHolds
PutConstructorLoop == INSTANCE Folding WITH Op <- PutConstructorTurns, Holds <- PutHolds

LEMMA FunctionsPut ==
  ASSUME NEW T, EitherDefault(T), NEW base \in Seq(T), NEW s \in Seq(T)
  PROVE  FoldLeft(MergeFunction, base, s) \in Seq(T)
<1>1. FoldLeft(MergeFunction, base, s) = PutFunctionLoop!Fold(T, base, s)
  BY DEF PutFunctionTurns, PutFunctionLoop!Fold, FoldLeft, MapThenFoldSet,
         PutFunctionLoop!MapThenFoldSet, Max, PutFunctionLoop!Last
<1>2. s \in Seq(ToSet(s)) /\ ToSet(s) \subseteq T
  BY Within
<1>3. PutHolds(T, base, {})
  BY DEF PutHolds
<1>4. ASSUME NEW built, NEW F, NEW f \in ToSet(s), PutHolds(T, built, F)
      PROVE  PutHolds(T, PutFunctionTurns(T, built, f), F \cup {f})
  BY <1>2, <1>4, FunctionPut DEF PutHolds, PutFunctionTurns
<1> HIDE DEF PutHolds, PutFunctionTurns
<1>5. PutHolds(T, PutFunctionLoop!Fold(T, base, s), ToSet(s))
  BY <1>2, <1>3, <1>4, PutFunctionLoop!Invariance DEF ToSet
<1> QED BY <1>1, <1>5 DEF PutHolds

LEMMA MethodsPut ==
  ASSUME NEW T, OneEach(T), NEW base \in Seq(T), NEW s \in Seq(T)
  PROVE  FoldLeft(MergeMethod, base, s) \in Seq(T)
<1>1. FoldLeft(MergeMethod, base, s) = PutMethodLoop!Fold(T, base, s)
  BY DEF PutMethodTurns, PutMethodLoop!Fold, FoldLeft, MapThenFoldSet,
         PutMethodLoop!MapThenFoldSet, Max, PutMethodLoop!Last
<1>2. s \in Seq(ToSet(s)) /\ ToSet(s) \subseteq T
  BY Within
<1>3. PutHolds(T, base, {})
  BY DEF PutHolds
<1>4. ASSUME NEW built, NEW F, NEW f \in ToSet(s), PutHolds(T, built, F)
      PROVE  PutHolds(T, PutMethodTurns(T, built, f), F \cup {f})
  BY <1>2, <1>4, MemberPut DEF PutHolds, PutMethodTurns
<1> HIDE DEF PutHolds, PutMethodTurns
<1>5. PutHolds(T, PutMethodLoop!Fold(T, base, s), ToSet(s))
  BY <1>2, <1>3, <1>4, PutMethodLoop!Invariance DEF ToSet
<1> QED BY <1>1, <1>5 DEF PutHolds

LEMMA ConstructorsPut ==
  ASSUME NEW T, OneEach(T), NEW base \in Seq(T), NEW s \in Seq(T)
  PROVE  FoldLeft(MergeConstructor, base, s) \in Seq(T)
<1>1. FoldLeft(MergeConstructor, base, s) = PutConstructorLoop!Fold(T, base, s)
  BY DEF PutConstructorTurns, PutConstructorLoop!Fold, FoldLeft, MapThenFoldSet,
         PutConstructorLoop!MapThenFoldSet, Max, PutConstructorLoop!Last
<1>2. s \in Seq(ToSet(s)) /\ ToSet(s) \subseteq T
  BY Within
<1>3. PutHolds(T, base, {})
  BY DEF PutHolds
<1>4. ASSUME NEW built, NEW F, NEW f \in ToSet(s), PutHolds(T, built, F)
      PROVE  PutHolds(T, PutConstructorTurns(T, built, f), F \cup {f})
  BY <1>2, <1>4, MemberPut DEF PutHolds, PutConstructorTurns
<1> HIDE DEF PutHolds, PutConstructorTurns
<1>5. PutHolds(T, PutConstructorLoop!Fold(T, base, s), ToSet(s))
  BY <1>2, <1>3, <1>4, PutConstructorLoop!Invariance DEF ToSet
<1> QED BY <1>1, <1>5 DEF PutHolds

\* The same for records.
ToldAll(s, X) == s \in Seq(ToSet(s)) /\ \A r \in ToSet(s) : Told(r, X)
OneMember(X) ==
  \A kind \in {"method", "ctor"} : \A usr : OneEach({IrOf(c) : c \in MembersOf(X, kind, usr)})

LEMMA RecordPut ==
  ASSUME NEW X, OneMember(X), NEW s, ToldAll(s, X), NEW x, Told(x, X)
  PROVE  ToldAll(MergeRecord(s, x), X)
<1> DEFINE i == IndexOfUsr(s, x.usr)
           e == s[i]
           Of(kind) == {IrOf(c) : c \in MembersOf(X, kind, x.usr)}
           ms == FoldLeft(MergeMethod, e.methods, x.methods)
           cs == FoldLeft(MergeConstructor, e.ctors, x.ctors)
           ds == IF e.dtor = <<>> THEN x.dtor ELSE e.dtor
           g == [e EXCEPT !.methods = ms, !.ctors = cs, !.dtor = ds]
<1>1. s \in Seq(ToSet(s))
  BY DEF ToldAll
<1>2. CASE i = 0
  <2>1. MergeRecord(s, x) = Append(s, x)
    BY <1>2 DEF MergeRecord
  <2>2. LET r == Append(s, x) IN r \in Seq(ToSet(r)) /\ ToSet(r) = ToSet(s) \cup {x}
    BY <1>1, Appended
  <2> QED BY <2>1, <2>2 DEF ToldAll
<1>3. CASE i # 0
  <2>1. MergeRecord(s, x) = ReplaceAt(s, i, g)
    BY <1>3 DEF MergeRecord
  <2>2. i \in DOMAIN s /\ e \in ToSet(s) /\ e.usr = x.usr
    BY <1>1, <1>3, Found
  <2>3. Told(e, X)
    BY <2>2 DEF ToldAll
  <2>4. OneEach(Of("method")) /\ OneEach(Of("ctor"))
    BY DEF OneMember
  <2> HIDE DEF e
  <2>5. /\ e.methods \in Seq(Of("method")) /\ x.methods \in Seq(Of("method"))
        /\ e.ctors \in Seq(Of("ctor")) /\ x.ctors \in Seq(Of("ctor"))
        /\ ds = <<>> \/ \E c \in MembersOf(X, "dtor", x.usr) : ds = <<IrOf(c)>>
        /\ Record(e)
        /\ \E c \in X : c.kind = "record" /\ c.usr = e.usr /\ c.name = e.name /\ c.ns = e.ns
    BY <2>2, <2>3 DEF Told
  <2> HIDE DEF Of
  <2>6. ms \in Seq(Of("method")) /\ cs \in Seq(Of("ctor"))
    BY <2>4, <2>5, MethodsPut, ConstructorsPut
  <2> HIDE DEF ms, cs, ds
  <2>7. Record(g) /\ g.usr = x.usr /\ g.name = e.name /\ g.ns = e.ns
        /\ g.methods = ms /\ g.ctors = cs /\ g.dtor = ds
    <3> DEFINE a == [e EXCEPT !.methods = ms]
               b == [a EXCEPT !.ctors = cs]
    <3>1. Record(a) /\ a.usr = e.usr /\ a.name = e.name /\ a.ns = e.ns /\ a.methods = ms /\ a.dtor = e.dtor
      BY <2>5 DEF Record
    <3> HIDE DEF a
    <3>2. Record(b) /\ b.usr = a.usr /\ b.name = a.name /\ b.ns = a.ns /\ b.methods = a.methods /\ b.ctors = cs
      BY <3>1 DEF Record
    <3>3. g = [b EXCEPT !.dtor = ds]
      BY DEF a
    <3> HIDE DEF b, g
    <3>4. Record(g) /\ g.usr = b.usr /\ g.name = b.name /\ g.ns = b.ns /\ g.methods = b.methods
          /\ g.ctors = b.ctors /\ g.dtor = ds
      BY <3>2, <3>3 DEF Record
    <3> QED BY <2>2, <3>1, <3>2, <3>4
  <2> HIDE DEF g
  <2>8. Told(g, X)
    BY <2>2, <2>5, <2>6, <2>7 DEF Told, Of
  <2>9. LET r == ReplaceAt(s, i, g) IN r \in Seq(ToSet(r)) /\ ToSet(r) \subseteq ToSet(s) \cup {g}
    BY <1>1, <2>2, Placed
  <2> QED BY <2>1, <2>8, <2>9 DEF ToldAll
<1> QED BY <1>2, <1>3

PutRecordTurns(X, s, r) == MergeRecord(s, r)
PutRecordHolds(X, s, R) == ToldAll(s, X)
PutRecordLoop == INSTANCE Folding WITH Op <- PutRecordTurns, Holds <- PutRecordHolds

LEMMA RecordsPut ==
  ASSUME NEW X, OneMember(X), NEW base, ToldAll(base, X), NEW s, ToldAll(s, X)
  PROVE  ToldAll(FoldLeft(MergeRecord, base, s), X)
<1>1. FoldLeft(MergeRecord, base, s) = PutRecordLoop!Fold(X, base, s)
  BY DEF PutRecordTurns, PutRecordLoop!Fold, FoldLeft, MapThenFoldSet,
         PutRecordLoop!MapThenFoldSet, Max, PutRecordLoop!Last
<1>2. s \in Seq(ToSet(s)) /\ \A r \in ToSet(s) : Told(r, X)
  BY DEF ToldAll
<1>3. PutRecordHolds(X, base, {})
  BY DEF PutRecordHolds
<1>4. ASSUME NEW built, NEW R, NEW r \in ToSet(s), PutRecordHolds(X, built, R)
      PROVE  PutRecordHolds(X, PutRecordTurns(X, built, r), R \cup {r})
  BY <1>2, <1>4, RecordPut DEF PutRecordHolds, PutRecordTurns
<1> HIDE DEF PutRecordHolds, PutRecordTurns
<1>5. PutRecordHolds(X, PutRecordLoop!Fold(X, base, s), ToSet(s))
  BY <1>2, <1>3, <1>4, PutRecordLoop!Invariance DEF ToSet
<1> QED BY <1>1, <1>5 DEF PutRecordHolds

\* The partials, one after the other.
PutPartialTurns(X, s, p) == MergeRecords(s, p)
PutPartialHolds(X, s, P) == ToldAll(s, X)
PutPartialLoop == INSTANCE Folding WITH Op <- PutPartialTurns, Holds <- PutPartialHolds

LEMMA PartialRecordsPut ==
  ASSUME NEW X, OneMember(X), NEW s, s \in Seq(ToSet(s)), \A p \in ToSet(s) : ToldAll(p.records, X)
  PROVE  ToldAll(FoldLeft(MergeRecords, <<>>, s), X)
<1> DEFINE base == <<>>
<1>1. FoldLeft(MergeRecords, base, s) = PutPartialLoop!Fold(X, base, s)
  BY DEF PutPartialTurns, PutPartialLoop!Fold, FoldLeft, MapThenFoldSet,
         PutPartialLoop!MapThenFoldSet, Max, PutPartialLoop!Last
<1>2. PutPartialHolds(X, base, {})
  BY EmptyList DEF PutPartialHolds, ToldAll, List
<1>3. ASSUME NEW built, NEW P, NEW p \in ToSet(s), PutPartialHolds(X, built, P)
      PROVE  PutPartialHolds(X, PutPartialTurns(X, built, p), P \cup {p})
  BY <1>3, RecordsPut DEF PutPartialHolds, PutPartialTurns, MergeRecords
<1> HIDE DEF PutPartialHolds, PutPartialTurns, base
<1>4. PutPartialHolds(X, PutPartialLoop!Fold(X, base, s), ToSet(s))
  BY <1>2, <1>3, PutPartialLoop!Invariance DEF ToSet
<1> QED BY <1>1, <1>4 DEF PutPartialHolds, base

PutLoweredTurns(T, s, p) == MergeFunctions(s, p)
PutLoweredHolds(T, s, P) == s \in Seq(T)
PutLoweredLoop == INSTANCE Folding WITH Op <- PutLoweredTurns, Holds <- PutLoweredHolds

LEMMA PartialFunctionsPut ==
  ASSUME NEW T, EitherDefault(T), NEW s, s \in Seq(ToSet(s)), \A p \in ToSet(s) : p.fns \in Seq(T)
  PROVE  FoldLeft(MergeFunctions, <<>>, s) \in Seq(T)
<1> DEFINE base == <<>>
<1>1. FoldLeft(MergeFunctions, base, s) = PutLoweredLoop!Fold(T, base, s)
  BY DEF PutLoweredTurns, PutLoweredLoop!Fold, FoldLeft, MapThenFoldSet,
         PutLoweredLoop!MapThenFoldSet, Max, PutLoweredLoop!Last
<1>2. PutLoweredHolds(T, base, {})
  BY DEF PutLoweredHolds
<1>3. ASSUME NEW built, NEW P, NEW p \in ToSet(s), PutLoweredHolds(T, built, P)
      PROVE  PutLoweredHolds(T, PutLoweredTurns(T, built, p), P \cup {p})
  BY <1>3, FunctionsPut DEF PutLoweredHolds, PutLoweredTurns, MergeFunctions
<1> HIDE DEF PutLoweredHolds, PutLoweredTurns, base
<1>4. PutLoweredHolds(T, PutLoweredLoop!Fold(T, base, s), ToSet(s))
  BY <1>2, <1>3, PutLoweredLoop!Invariance DEF ToSet
<1> QED BY <1>1, <1>4 DEF PutLoweredHolds, base

-----------------------------------------------------------------------------
(* What a worker has noted of the types: the edges, the uses, the pointers *)
(* and the files of the units it has read, and descriptions of the types   *)
(* these define.                                                           *)
PointersIn(unit, X) == {PointerOf(unit, c) : c \in {d \in X : IsPointer(d)}}
DescriptionsOf(X) == {DescriptionOf(c) : c \in DefinedIn(X)}

FactsNoted(base, p, unit, X) ==
  /\ DOMAIN p = TypeFields
  /\ p.units = base.units /\ p.headers = base.headers
  /\ p.types \in Seq(ToSet(p.types)) /\ ToSet(p.types) \subseteq ToSet(base.types) \cup DescriptionsOf(X)
  /\ p.deps = base.deps \cup UNION {DepsOf(unit, c) : c \in X}
  /\ p.uses = base.uses \cup UNION {UsesOf(unit, c) : c \in X}
  /\ p.pointers \in Seq(ToSet(p.pointers)) /\ ToSet(p.pointers) = ToSet(base.pointers) \cup PointersIn(unit, X)

\* A list stays one when an entry is added to it or not.
LEMMA SeenFirst ==
  ASSUME NEW s, s \in Seq(ToSet(s)), NEW e
  PROVE  LET r == FirstSeen(s, e) IN r \in Seq(ToSet(r)) /\ ToSet(r) \subseteq ToSet(s) \cup {e}
<1>1. LET r == Append(s, e) IN r \in Seq(ToSet(r)) /\ ToSet(r) = ToSet(s) \cup {e}
  BY Appended
<1> QED BY <1>1 DEF FirstSeen

LEMMA FactsNotedTurn ==
  ASSUME NEW unit, NEW base, NEW p, NEW X, NEW c, FactsNoted(base, p, unit, X)
  PROVE  FactsNoted(base, VisitFacts(unit, p, c), unit, X \cup {c})
<1> DEFINE q == VisitFacts(unit, p, c)
           Y == X \cup {c}
<1>1. /\ DOMAIN q = TypeFields
      /\ q.types = IF Definition(c) THEN FirstSeen(p.types, DescriptionOf(c)) ELSE p.types
      /\ q.units = p.units /\ q.headers = p.headers
      /\ q.deps = p.deps \cup DepsOf(unit, c)
      /\ q.uses = p.uses \cup UsesOf(unit, c)
      /\ q.pointers = IF IsPointer(c) THEN Append(p.pointers, PointerOf(unit, c)) ELSE p.pointers
  BY FactVisited DEF FactsNoted
<1>2. /\ UNION {DepsOf(unit, d) : d \in Y} = (UNION {DepsOf(unit, d) : d \in X}) \cup DepsOf(unit, c)
      /\ UNION {UsesOf(unit, d) : d \in Y} = (UNION {UsesOf(unit, d) : d \in X}) \cup UsesOf(unit, c)
  OBVIOUS
<1>3. /\ DescriptionsOf(Y) = IF Definition(c) THEN DescriptionsOf(X) \cup {DescriptionOf(c)} ELSE DescriptionsOf(X)
      /\ PointersIn(unit, Y) = IF IsPointer(c) THEN PointersIn(unit, X) \cup {PointerOf(unit, c)}
                               ELSE PointersIn(unit, X)
  BY DEF DescriptionsOf, PointersIn, DefinedIn
<1> HIDE DEF q, Y
<1>4. q.types \in Seq(ToSet(q.types)) /\ ToSet(q.types) \subseteq ToSet(base.types) \cup DescriptionsOf(Y)
  <2> DEFINE s == p.types
             e == DescriptionOf(c)
             r == FirstSeen(s, e)
  <2>1. s \in Seq(ToSet(s)) /\ ToSet(s) \subseteq ToSet(base.types) \cup DescriptionsOf(X)
    BY DEF FactsNoted
  <2>2. q.types = IF Definition(c) THEN r ELSE s
    BY <1>1
  <2>3. DescriptionsOf(Y) = IF Definition(c) THEN DescriptionsOf(X) \cup {e} ELSE DescriptionsOf(X)
    BY <1>3
  <2> HIDE DEF s, e
  <2>4. r \in Seq(ToSet(r)) /\ ToSet(r) \subseteq ToSet(s) \cup {e}
    BY <2>1, SeenFirst
  <2> HIDE DEF r
  <2> QED BY <2>1, <2>2, <2>3, <2>4
<1>5. q.pointers \in Seq(ToSet(q.pointers)) /\ ToSet(q.pointers) = ToSet(base.pointers) \cup PointersIn(unit, Y)
  <2> DEFINE s == p.pointers
             e == PointerOf(unit, c)
             r == Append(s, e)
  <2>1. s \in Seq(ToSet(s)) /\ ToSet(s) = ToSet(base.pointers) \cup PointersIn(unit, X)
    BY DEF FactsNoted
  <2>2. q.pointers = IF IsPointer(c) THEN r ELSE s
    BY <1>1
  <2>3. PointersIn(unit, Y) = IF IsPointer(c) THEN PointersIn(unit, X) \cup {e} ELSE PointersIn(unit, X)
    BY <1>3
  <2> HIDE DEF s, e
  <2>4. r \in Seq(ToSet(r)) /\ ToSet(r) = ToSet(s) \cup {e}
    BY <2>1, Appended
  <2> HIDE DEF r
  <2> QED BY <2>1, <2>2, <2>3, <2>4
<1>6. /\ q.deps = base.deps \cup UNION {DepsOf(unit, d) : d \in Y}
      /\ q.uses = base.uses \cup UNION {UsesOf(unit, d) : d \in Y}
      /\ q.units = base.units /\ q.headers = base.headers
  BY <1>1, <1>2 DEF FactsNoted
<1>7. FactsNoted(base, q, unit, Y)
  BY <1>1, <1>4, <1>5, <1>6 DEF FactsNoted
<1> QED BY <1>7 DEF q, Y

\* x has the unit and what there was before it.
FactsNotedTurns(x, p, c) == VisitFacts(x.unit, p, c)
FactsNotedHolds(x, p, X) == FactsNoted(x.base, p, x.unit, X)
FactsNotedLoop == INSTANCE Folding WITH Op <- FactsNotedTurns, Holds <- FactsNotedHolds

LEMMA FactsNotedOfUnit ==
  ASSUME NEW unit, unit.cursors \in Seq(ToSet(unit.cursors)), NEW base, DOMAIN base = TypeFields,
         base.types \in Seq(ToSet(base.types)), base.pointers \in Seq(ToSet(base.pointers))
  PROVE  FactsNoted(base, FoldLeft(LAMBDA q, c : VisitFacts(unit, q, c), base, unit.cursors), unit, ToSet(unit.cursors))
<1> DEFINE s == unit.cursors
           x == [unit |-> unit, base |-> base]
           r == FoldLeft(LAMBDA q, c : VisitFacts(unit, q, c), base, s)
<1>1. r = FactsNotedLoop!Fold(x, base, s)
  BY DEF FactsNotedTurns, FactsNotedLoop!Fold, FoldLeft, MapThenFoldSet,
         FactsNotedLoop!MapThenFoldSet, Max, FactsNotedLoop!Last
<1> HIDE DEF r
<1>2. FactsNotedHolds(x, base, {})
  <2>1. /\ UNION {DepsOf(unit, c) : c \in {}} = {} /\ UNION {UsesOf(unit, c) : c \in {}} = {}
        /\ DescriptionsOf({}) = {} /\ PointersIn(unit, {}) = {}
    BY DEF DescriptionsOf, DefinedIn, PointersIn
  <2>2. FactsNoted(base, base, unit, {})
    BY <2>1 DEF FactsNoted
  <2> QED BY <2>2 DEF FactsNotedHolds
<1>3. ASSUME NEW built, NEW X, NEW c, FactsNotedHolds(x, built, X)
      PROVE  FactsNotedHolds(x, FactsNotedTurns(x, built, c), X \cup {c})
  <2>1. FactsNoted(base, built, unit, X)
    BY <1>3 DEF FactsNotedHolds
  <2>2. FactsNoted(base, VisitFacts(unit, built, c), unit, X \cup {c})
    BY <2>1, FactsNotedTurn
  <2> QED BY <2>2 DEF FactsNotedHolds, FactsNotedTurns
<1>4. FactsNotedHolds(x, FactsNotedLoop!Fold(x, base, s), ToSet(s))
  <2>1. s \in Seq(ToSet(s))
    OBVIOUS
  <2> HIDE DEF FactsNotedHolds, FactsNotedTurns, x, s
  <2> QED BY <1>2, <1>3, <2>1, FactsNotedLoop!Invariance DEF ToSet
<1>5. FactsNotedHolds(x, r, ToSet(s))
  BY <1>1, <1>4
<1> QED BY <1>5 DEF FactsNotedHolds, r

-----------------------------------------------------------------------------
(* What a worker that has read the units U has noted.                      *)
TypesNoted(p, U) ==
  /\ DOMAIN p = TypeFields
  /\ p.types \in Seq(ToSet(p.types)) /\ ToSet(p.types) \subseteq DescriptionsOf(CursorsOfUnits(U))
  /\ p.deps = UNION {UNION {DepsOf(unit, c) : c \in ToSet(unit.cursors)} : unit \in U}
  /\ p.uses = UNION {UNION {UsesOf(unit, c) : c \in ToSet(unit.cursors)} : unit \in U}
  /\ p.pointers \in Seq(ToSet(p.pointers))
  /\ ToSet(p.pointers) = UNION {PointersIn(unit, ToSet(unit.cursors)) : unit \in U}
  /\ p.units = {unit.file : unit \in U} \cap ProjectFiles
  /\ p.headers = (UNION {{unit.file} \cup unit.includes : unit \in U}) \cap ProjectFiles

Noted(p, U) == FunctionsNoted(p.functions, CursorsOfUnits(U)) /\ TypesNoted(p.types, U)

LEMMA NothingNoted == Noted(EmptyPartial, {})
<1>1. CursorsOfUnits({}) = {} /\ Functions({}) = {} /\ \A kind : OfKind({}, kind) = {}
  BY DEF CursorsOfUnits, Functions, OfKind
<1>2. EmptyPartial.functions = NoFunctions /\ EmptyPartial.types = EmptyTypeFacts
  BY DEF EmptyPartial
<1>3. <<>> \in Seq(ToSet(<<>>)) /\ ToSet(<<>>) = {}
  BY EmptyList DEF List
<1>4. FunctionsNoted(NoFunctions, {})
  <2>1. DOMAIN NoFunctions = Fields /\ NoFunctions.records = <<>> /\ NoFunctions.calls = {} /\ NoFunctions.enums = {}
    BY DEF NoFunctions, Fields
  <2>2. UNION {CallsOf(c) : c \in {}} = {} /\ {c.usr : c \in {}} = {}
    OBVIOUS
  <2> QED BY <1>1, <1>3, <2>1, <2>2 DEF FunctionsNoted
<1>5. TypesNoted(EmptyTypeFacts, {})
  <2> DEFINE t == EmptyTypeFacts
  <2>1. /\ DOMAIN t = TypeFields /\ t.types = <<>> /\ t.pointers = <<>>
        /\ t.deps = {} /\ t.uses = {} /\ t.units = {} /\ t.headers = {}
    BY DEF EmptyTypeFacts, TypeFields
  <2> HIDE DEF t
  <2>2. /\ UNION {UNION {DepsOf(unit, c) : c \in ToSet(unit.cursors)} : unit \in {}} = {}
        /\ UNION {UNION {UsesOf(unit, c) : c \in ToSet(unit.cursors)} : unit \in {}} = {}
        /\ UNION {PointersIn(unit, ToSet(unit.cursors)) : unit \in {}} = {}
        /\ {unit.file : unit \in {}} \cap ProjectFiles = {}
        /\ (UNION {{unit.file} \cup unit.includes : unit \in {}}) \cap ProjectFiles = {}
    OBVIOUS
  <2>3. TypesNoted(t, {})
    BY <1>3, <2>1, <2>2 DEF TypesNoted
  <2> QED BY <2>3 DEF t
<1> QED BY <1>1, <1>2, <1>4, <1>5 DEF Noted

LEMMA UnitNoted ==
  ASSUME NEW unit, unit.cursors \in Seq(ToSet(unit.cursors)), NEW p, NEW U, Noted(p, U)
  PROVE  Noted(VisitUnit(p, unit), U \cup {unit})
<1> DEFINE q == VisitUnit(p, unit)
           s == unit.cursors
           X == CursorsOfUnits(U)
           f == p.functions
           t == p.types
           base == VisitFiles(unit, t)
           r == FoldLeft(LAMBDA built, c : VisitFacts(unit, built, c), base, s)
           V == U \cup {unit}
<1>1. q.functions = FoldLeft(VisitCursor, f, s) /\ q.types = r
  BY DEF VisitUnit, VisitTypeFacts
<1>2. CursorsOfUnits(V) = X \cup ToSet(s)
  BY DEF CursorsOfUnits
<1>3. FunctionsNoted(f, X) /\ TypesNoted(t, U)
  BY DEF Noted
<1>4. s \in Seq(ToSet(s))
  OBVIOUS
<1>5. FunctionsNoted(FoldLeft(VisitCursor, f, s), X \cup ToSet(s))
  <2> HIDE DEF f, s, X
  <2> QED BY <1>3, <1>4, NotedOfUnit
<1>6. /\ DOMAIN base = TypeFields /\ base.types = t.types /\ base.pointers = t.pointers
      /\ base.deps = t.deps /\ base.uses = t.uses
      /\ base.units = t.units \cup ({unit.file} \cap ProjectFiles)
      /\ base.headers = t.headers \cup (({unit.file} \cup unit.includes) \cap ProjectFiles)
  <2>1. DOMAIN t = TypeFields
    BY <1>3 DEF TypesNoted
  <2> HIDE DEF t
  <2> QED BY <2>1 DEF VisitFiles, TypeFields
<1> HIDE DEF base, t
<1>7. base.types \in Seq(ToSet(base.types)) /\ base.pointers \in Seq(ToSet(base.pointers))
  BY <1>3, <1>6 DEF TypesNoted
<1>8. FactsNoted(base, r, unit, ToSet(s))
  BY <1>4, <1>6, <1>7, FactsNotedOfUnit
<1> HIDE DEF r
<1>9. TypesNoted(r, V)
  <2> DEFINE Deps(v) == UNION {DepsOf(v, c) : c \in ToSet(v.cursors)}
             Used(v) == UNION {UsesOf(v, c) : c \in ToSet(v.cursors)}
             Pointers(v) == PointersIn(v, ToSet(v.cursors))
  <2>1. /\ DOMAIN r = TypeFields /\ r.types \in Seq(ToSet(r.types)) /\ r.pointers \in Seq(ToSet(r.pointers))
        /\ r.units = base.units /\ r.headers = base.headers
        /\ ToSet(r.types) \subseteq ToSet(t.types) \cup DescriptionsOf(ToSet(s))
        /\ r.deps = t.deps \cup Deps(unit)
        /\ r.uses = t.uses \cup Used(unit)
        /\ ToSet(r.pointers) = ToSet(t.pointers) \cup Pointers(unit)
    BY <1>6, <1>8 DEF FactsNoted
  <2>2. /\ ToSet(t.types) \subseteq DescriptionsOf(X)
        /\ t.deps = UNION {Deps(v) : v \in U} /\ t.uses = UNION {Used(v) : v \in U}
        /\ ToSet(t.pointers) = UNION {Pointers(v) : v \in U}
        /\ t.units = {v.file : v \in U} \cap ProjectFiles
        /\ t.headers = (UNION {{v.file} \cup v.includes : v \in U}) \cap ProjectFiles
    BY <1>3 DEF TypesNoted
  <2>3. DescriptionsOf(X) \cup DescriptionsOf(ToSet(s)) = DescriptionsOf(CursorsOfUnits(V))
    BY <1>2 DEF DescriptionsOf, DefinedIn
  <2> HIDE DEF Deps, Used, Pointers
  <2>4. /\ UNION {Deps(v) : v \in V} = (UNION {Deps(v) : v \in U}) \cup Deps(unit)
        /\ UNION {Used(v) : v \in V} = (UNION {Used(v) : v \in U}) \cup Used(unit)
        /\ UNION {Pointers(v) : v \in V} = (UNION {Pointers(v) : v \in U}) \cup Pointers(unit)
    OBVIOUS
  <2>5. {v.file : v \in V} \cap ProjectFiles = ({v.file : v \in U} \cap ProjectFiles) \cup ({unit.file} \cap ProjectFiles)
    OBVIOUS
  <2>6. (UNION {{v.file} \cup v.includes : v \in V}) \cap ProjectFiles
          = ((UNION {{v.file} \cup v.includes : v \in U}) \cap ProjectFiles)
              \cup (({unit.file} \cup unit.includes) \cap ProjectFiles)
    OBVIOUS
  <2> HIDE DEF V
  <2>7. /\ ToSet(r.types) \subseteq DescriptionsOf(CursorsOfUnits(V))
        /\ r.deps = UNION {Deps(v) : v \in V} /\ r.uses = UNION {Used(v) : v \in V}
        /\ ToSet(r.pointers) = UNION {Pointers(v) : v \in V}
        /\ r.units = {v.file : v \in V} \cap ProjectFiles
        /\ r.headers = (UNION {{v.file} \cup v.includes : v \in V}) \cap ProjectFiles
    BY <1>6, <2>1, <2>2, <2>3, <2>4, <2>5, <2>6
  <2> QED BY <2>1, <2>7 DEF TypesNoted, Deps, Used, Pointers
<1> HIDE DEF q, V
<1>10. Noted(q, V)
  BY <1>1, <1>2, <1>5, <1>9 DEF Noted
<1> QED BY <1>10 DEF q, V

-----------------------------------------------------------------------------
(* The inductive invariant: what the one worker that reads every unit has  *)
(* is what the units taken say, and the same holds of the workers' shares. *)
SharesNoted(units, p, read) == \A w \in DOMAIN p : read[w] \subseteq ToSet(units) /\ Noted(p[w], read[w])

ScheduleInv ==
  /\ CatalogInv
  /\ Read(program, alone, UnitsTaken)
  /\ Noted(alone, UnitsTaken)
  /\ DOMAIN partial = Workers
  /\ \E read \in [Workers -> SUBSET ToSet(program)] :
       UNION {read[w] : w \in Workers} = UnitsTaken /\ SharesNoted(program, partial, read)

LEMMA InitSchedule ==
  ASSUME Init
  PROVE  ScheduleInv
<1> DEFINE read == [w \in Workers |-> {}]
<1>1. CatalogInv
  BY InitInv
<1>2. nextUnit = 1 /\ partial = [w \in Workers |-> EmptyPartial] /\ alone = EmptyPartial
  BY DEF Init
<1>3. UnitsTaken = {}
  BY <1>2 DEF UnitsTaken
<1>4. read \in [Workers -> SUBSET ToSet(program)] /\ UNION {read[w] : w \in Workers} = {}
  OBVIOUS
<1>5. SharesNoted(program, partial, read)
  BY <1>2, NothingNoted DEF SharesNoted
<1> HIDE DEF read
<1> QED BY <1>1, <1>2, <1>3, <1>4, <1>5, NothingRead, NothingNoted DEF ScheduleInv

LEMMA TakeSchedule ==
  ASSUME ScheduleInv, NEW w \in Workers, Take(w)
  PROVE  ScheduleInv'
<1> DEFINE unit == program[nextUnit]
<1>1. /\ program \in Programs /\ program' = program
      /\ nextUnit \in 1 .. Len(program) /\ nextUnit' = nextUnit + 1 /\ Len(program) \in Nat
      /\ partial' = [partial EXCEPT ![w] = VisitUnit(partial[w], unit)]
      /\ alone' = VisitUnit(alone, unit)
      /\ DOMAIN partial = Workers
  <2>1. program \in Programs /\ nextUnit \in 1 .. Len(program) + 1 /\ DOMAIN partial = Workers
    BY DEF ScheduleInv, CatalogInv
  <2>2. Len(program) \in Nat
    BY <2>1, ProgramFacts
  <2> QED BY <2>1, <2>2 DEF Take
<1>2. unit \in ToSet(program) /\ unit.cursors \in Seq(ToSet(unit.cursors))
  <2>1. unit \in ToSet(program)
    BY <1>1, ProgramFacts DEF ToSet
  <2> QED BY <1>1, <2>1, ProgramFacts
<1>3. UnitsTaken' = UnitsTaken \cup {unit}
  <2>1. UnitsTaken' = {program[i] : i \in 1 .. nextUnit}
    BY <1>1 DEF UnitsTaken
  <2>2. \A i \in 1 .. nextUnit : i \in 1 .. nextUnit - 1 \/ i = nextUnit
    BY <1>1
  <2>3. nextUnit \in 1 .. nextUnit /\ \A i \in 1 .. nextUnit - 1 : i \in 1 .. nextUnit
    BY <1>1
  <2> QED BY <2>1, <2>2, <2>3 DEF UnitsTaken
<1>4. UnitsTaken \in SUBSET ToSet(program)
  BY <1>1, ProgramFacts DEF UnitsTaken, ToSet
<1> HIDE DEF unit
<1>5. CatalogInv'
  BY TakeInv DEF ScheduleInv
<1>6. Read(program', alone', UnitsTaken')
  <2>1. Read(program, VisitUnit(alone, unit), UnitsTaken \cup {unit})
    BY <1>1, <1>2, <1>4, UnitVisited DEF ScheduleInv
  <2> QED BY <1>1, <1>3, <2>1
<1>7. Noted(alone', UnitsTaken')
  <2>1. Noted(VisitUnit(alone, unit), UnitsTaken \cup {unit})
    BY <1>2, UnitNoted DEF ScheduleInv
  <2> QED BY <1>1, <1>3, <2>1
<1>8. PICK read \in [Workers -> SUBSET ToSet(program)] :
        UNION {read[v] : v \in Workers} = UnitsTaken /\ SharesNoted(program, partial, read)
  BY DEF ScheduleInv
<1> DEFINE next == [read EXCEPT ![w] = read[w] \cup {unit}]
<1>9. /\ next \in [Workers -> SUBSET ToSet(program)]
      /\ next[w] = read[w] \cup {unit} /\ \A v \in Workers \ {w} : next[v] = read[v]
  BY <1>2, <1>8
<1>10. UNION {next[v] : v \in Workers} = UnitsTaken \cup {unit}
  <2> HIDE DEF next
  <2>1. \A v \in Workers : next[v] \subseteq read[v] \cup {unit} /\ read[v] \subseteq next[v]
    BY <1>9
  <2>2. unit \in next[w]
    BY <1>9
  <2>3. UNION {next[v] : v \in Workers} \subseteq UnitsTaken \cup {unit}
    BY <1>8, <2>1
  <2>4. UnitsTaken \cup {unit} \subseteq UNION {next[v] : v \in Workers}
    BY <1>8, <2>1, <2>2
  <2> QED BY <2>3, <2>4
<1> HIDE DEF next
<1>11. DOMAIN partial' = Workers /\ partial'[w] = VisitUnit(partial[w], unit)
       /\ \A v \in Workers \ {w} : partial'[v] = partial[v]
  BY <1>1
<1>12. SharesNoted(program', partial', next)
  <2>1. ASSUME NEW v \in Workers
        PROVE  next[v] \subseteq ToSet(program) /\ Noted(partial'[v], next[v])
    <3>1. read[v] \subseteq ToSet(program) /\ Noted(partial[v], read[v])
      BY <1>1, <1>8 DEF SharesNoted
    <3>2. CASE v = w
      <4>1. Noted(VisitUnit(partial[v], unit), read[v] \cup {unit})
        BY <1>2, <3>1, UnitNoted
      <4> QED BY <1>2, <1>9, <1>11, <3>1, <3>2, <4>1
    <3>3. CASE v # w
      BY <1>9, <1>11, <3>1, <3>3
    <3> QED BY <3>2, <3>3
  <2> QED BY <1>1, <1>11, <2>1 DEF SharesNoted
<1>13. /\ next \in [Workers -> SUBSET ToSet(program')]
       /\ UNION {next[v] : v \in Workers} = UnitsTaken'
  BY <1>1, <1>3, <1>9, <1>10
<1> QED BY <1>5, <1>6, <1>7, <1>11, <1>12, <1>13 DEF ScheduleInv

LEMMA MergeSchedule ==
  ASSUME ScheduleInv, Merge \/ UNCHANGED vars
  PROVE  ScheduleInv'
<1>1. program' = program /\ nextUnit' = nextUnit /\ partial' = partial /\ alone' = alone
  BY DEF Merge, vars
<1>2. CatalogInv'
  BY MergeInv, StutterInv DEF ScheduleInv
<1>3. UnitsTaken' = UnitsTaken
  BY <1>1 DEF UnitsTaken
<1>4. PICK read \in [Workers -> SUBSET ToSet(program)] :
        UNION {read[w] : w \in Workers} = UnitsTaken /\ SharesNoted(program, partial, read)
  BY DEF ScheduleInv
<1>5. /\ read \in [Workers -> SUBSET ToSet(program')] /\ UNION {read[w] : w \in Workers} = UnitsTaken'
      /\ SharesNoted(program', partial', read)
  BY <1>1, <1>3, <1>4
<1>6. Read(program', alone', UnitsTaken') /\ Noted(alone', UnitsTaken') /\ DOMAIN partial' = Workers
  BY <1>1, <1>3 DEF ScheduleInv
<1> QED BY <1>2, <1>5, <1>6 DEF ScheduleInv

LEMMA ScheduleKept == Spec => []ScheduleInv
<1>1. Init => ScheduleInv
  BY InitSchedule
<1>2. ScheduleInv /\ [Next]_vars => ScheduleInv'
  BY TakeSchedule, MergeSchedule DEF Next
<1> QED BY <1>1, <1>2, PTL DEF Spec
=============================================================================
