------------------------------- MODULE Folding -------------------------------
(***************************************************************************)
(* Induction, and what a fold over a list computes.  The lists of the      *)
(* system are built by loops over lists; the models write such a loop as   *)
(* FoldLeft, and the theorems about the models need its two equations: the *)
(* fold of the empty list is the base, and one more element is one more    *)
(* turn of the loop.  A function defined by recursion on 1 .. n is, to a   *)
(* proof, a choice whose equation has to be proved.  A module that needs   *)
(* these facts for a loop body, or the body of a recursive function, of    *)
(* its own instantiates this one with that body for Op.                    *)
(***************************************************************************)
EXTENDS Integers, Sequences, Folds, NaturalsInduction, WellFoundedInduction, TLAPS

CONSTANT Op(_, _, _),     \* the body: a parameter, what was built so far, the next element
         Holds(_, _, _)   \* its invariant: the parameter, what was built so far, the elements seen

\* What FoldLeft of SequencesExt computes with the body Op.  It is written out so
\* that an instance for a loop does not bring in all that SequencesExt extends.
Last(U) == CHOOSE i \in U : \A j \in U : i >= j

Fold(c, base, s) ==
  MapThenFoldSet(LAMBDA x, built : Op(c, built, x), base, LAMBDA i : s[i], LAMBDA U : Last(U), DOMAIN s)

-----------------------------------------------------------------------------
LEMMA LessThanRelation == OpToRel(<, Nat) = {p \in Nat \X Nat : p[1] < p[2]}
BY DEF OpToRel

(* A set of numbers with 0 and with the successor of each of its members   *)
(* has them all.                                                           *)
LEMMA Induction ==
  ASSUME NEW T, 0 \in T, \A n \in Nat : n \in T => n + 1 \in T
  PROVE  \A n \in Nat : n \in T
<1> DEFINE Missing == {n \in Nat : n \notin T}
<1>1. ASSUME Missing # {}
      PROVE  FALSE
  <2>1. IsWellFoundedOn(OpToRel(<, Nat), Nat)
    BY NatLessThanWellFounded
  <2>2. PICK n \in Missing : \A m \in Missing : ~(<<m, n>> \in OpToRel(<, Nat))
    <3>1. Missing \subseteq Nat
      OBVIOUS
    <3>2. QED
      BY <1>1, <2>1, <3>1, WFMin
  <2>3. n # 0 /\ n \in Nat /\ n - 1 \in Nat /\ n - 1 < n
    <3>1. n \in Nat /\ n \notin T
      OBVIOUS
    <3>2. n # 0
      BY <3>1
    <3>3. QED
      BY <3>1, <3>2
  <2>4. <<n - 1, n>> \in OpToRel(<, Nat)
    BY <2>3, LessThanRelation
  <2>5. n - 1 \in T
    BY <2>2, <2>3, <2>4
  <2>6. n \in T
    BY <2>3, <2>5
  <2>7. QED
    BY <2>2, <2>6
<1>2. QED
  BY <1>1

(* The same for lists, which grow at their end.                            *)
LEMMA ListInduction ==
  ASSUME NEW S, NEW T, <<>> \in T, \A s \in Seq(S), x \in S : s \in T => Append(s, x) \in T
  PROVE  \A s \in Seq(S) : s \in T
<1> DEFINE L == {n \in Nat : \A s \in Seq(S) : Len(s) = n => s \in T}
<1>1. 0 \in L
  <2>1. \A s \in Seq(S) : Len(s) = 0 => s = <<>>
    OBVIOUS
  <2>2. QED
    BY <2>1
<1>2. ASSUME NEW n \in Nat, n \in L
      PROVE  n + 1 \in L
  <2>1. ASSUME NEW s \in Seq(S), Len(s) = n + 1
        PROVE  s \in T
    <3> DEFINE r == [i \in 1 .. n |-> s[i]]
    <3>1. r \in Seq(S) /\ Len(r) = n /\ s[n + 1] \in S
      BY <2>1
    <3>2. s = Append(r, s[n + 1])
      BY <2>1, <3>1
    <3>3. r \in T
      BY <1>2, <3>1
    <3>4. QED
      BY <3>1, <3>2, <3>3
  <2>2. QED
    BY <2>1
<1>3. \A n \in Nat : n \in L
  <2> HIDE DEF L
  <2>1. QED
    BY <1>1, <1>2, Induction
<1>4. QED
  BY <1>3

-----------------------------------------------------------------------------
(* The function on sets of positions that the fold's definition chooses    *)
(* exists.                                                                 *)
Turns(c, base, s, n, turn) ==
  turn = [U \in SUBSET (1 .. n) |->
            IF U = {} THEN base ELSE Op(c, turn[U \ {Last(U)}], s[Last(U)])]

LEMMA LastPosition ==
  ASSUME NEW n \in Nat, NEW U \in SUBSET (1 .. n + 1), n + 1 \in U
  PROVE  Last(U) = n + 1
<1>1. n + 1 \in U /\ \A i \in U : n + 1 >= i
  OBVIOUS
<1>2. \A m \in U : (\A i \in U : m >= i) => m = n + 1
  OBVIOUS
<1>3. QED
  BY <1>1, <1>2 DEF Last

LEMMA TurnsExist ==
  ASSUME NEW c, NEW base, NEW s
  PROVE  \A n \in Nat : \E turn : Turns(c, base, s, n, turn)
<1> DEFINE T == {n \in Nat : \E turn : Turns(c, base, s, n, turn)}
<1>1. 0 \in T
  <2> DEFINE turn == [U \in SUBSET (1 .. 0) |-> base]
  <2>1. \A U \in SUBSET (1 .. 0) : U = {}
    OBVIOUS
  <2>2. Turns(c, base, s, 0, turn)
    BY <2>1 DEF Turns
  <2>3. QED
    BY <2>2
<1>2. ASSUME NEW n \in Nat, n \in T
      PROVE  n + 1 \in T
  <2>1. PICK old : Turns(c, base, s, n, old)
    BY <1>2
  <2> DEFINE turn == [U \in SUBSET (1 .. n + 1) |->
                        IF n + 1 \in U THEN Op(c, old[U \ {n + 1}], s[n + 1]) ELSE old[U]]
  <2>2. ASSUME NEW U \in SUBSET (1 .. n + 1)
        PROVE  turn[U] = IF U = {} THEN base ELSE Op(c, turn[U \ {Last(U)}], s[Last(U)])
    <3>1. CASE n + 1 \in U
      <4>1. Last(U) = n + 1
        BY <3>1, LastPosition
      <4>2. U \ {n + 1} \in SUBSET (1 .. n + 1) /\ n + 1 \notin U \ {n + 1}
        OBVIOUS
      <4>3. turn[U \ {n + 1}] = old[U \ {n + 1}]
        BY <4>2
      <4>4. QED
        BY <3>1, <4>1, <4>3
    <3>2. CASE n + 1 \notin U
      <4>1. U \in SUBSET (1 .. n)
        <5>1. \A i \in U : i \in 1 .. n + 1 /\ i # n + 1
          BY <3>2
        <5>2. \A i \in U : i \in 1 .. n
          BY <5>1
        <5>3. QED
          BY <5>2
      <4> DEFINE V == U \ {Last(U)}
      <4>4. V \in SUBSET (1 .. n + 1) /\ n + 1 \notin V
        BY <3>2, Zenon
      <4>2. turn[U] = old[U] /\ turn[V] = old[V]
        <5> HIDE DEF V
        <5>1. QED
          BY <3>2, <4>4
      <4>3. QED
        BY <2>1, <4>1, <4>2 DEF Turns
    <3>3. QED
      BY <3>1, <3>2
  <2>3. Turns(c, base, s, n + 1, turn)
    BY <2>2 DEF Turns
  <2>4. QED
    BY <2>3
<1>3. QED
  <2> HIDE DEF T
  <2>1. \A n \in Nat : n \in T
    BY <1>1, <1>2, Induction
  <2>2. QED
    BY <2>1 DEF T

(* The fold, turn by turn.                                                 *)
LEMMA FoldByTurns ==
  ASSUME NEW c, NEW base, NEW S, NEW s \in Seq(S)
  PROVE  \E built : /\ built[0] = base
                    /\ \A i \in 1 .. Len(s) : built[i] = Op(c, built[i - 1], s[i])
                    /\ Fold(c, base, s) = built[Len(s)]
<1> DEFINE n == Len(s)
           turn == CHOOSE t : Turns(c, base, s, n, t)
           built == [i \in 0 .. n |-> turn[1 .. i]]
<1>1. n \in Nat /\ DOMAIN s = 1 .. n
  OBVIOUS
<1>2. Fold(c, base, s) = turn[DOMAIN s]
  BY <1>1 DEF Fold, MapThenFoldSet, Turns
<1>3. Turns(c, base, s, n, turn)
  BY <1>1, TurnsExist
<1> HIDE DEF turn
<1>4. built[0] = base
  BY <1>1, <1>3 DEF Turns
<1>5. ASSUME NEW i \in 1 .. n
      PROVE  built[i] = Op(c, built[i - 1], s[i])
  <2>1. i - 1 \in Nat /\ 1 .. i \in SUBSET (1 .. n) /\ i \in 1 .. i /\ (1 .. i) \ {i} = 1 .. (i - 1)
    BY <1>1
  <2>2. Last(1 .. i) = i
    BY <2>1 DEF Last
  <2>3. turn[1 .. i] = Op(c, turn[1 .. (i - 1)], s[i])
    BY <1>3, <2>1, <2>2 DEF Turns
  <2>4. QED
    BY <1>1, <2>1, <2>3
<1>6. Fold(c, base, s) = built[n]
  BY <1>1, <1>2
<1> HIDE DEF built
<1>7. QED
  BY <1>4, <1>5, <1>6

(* The loop over no element does nothing.                                  *)
THEOREM FoldEmpty ==
  ASSUME NEW c, NEW base
  PROVE  Fold(c, base, <<>>) = base
<1>1. ASSUME NEW s \in Seq(Nat), Len(s) = 0
      PROVE  Fold(c, base, s) = base
  <2>1. PICK built : /\ built[0] = base
                     /\ \A i \in 1 .. Len(s) : built[i] = Op(c, built[i - 1], s[i])
                     /\ Fold(c, base, s) = built[Len(s)]
    BY FoldByTurns
  <2>2. QED
    BY <1>1, <2>1
<1>2. <<>> \in Seq(Nat) /\ Len(<<>>) = 0
  OBVIOUS
<1>3. QED
  BY <1>1, <1>2, Zenon

(* The loop over one element more does one turn more.                      *)
THEOREM FoldAppend ==
  ASSUME NEW c, NEW base, NEW S, NEW s \in Seq(S), NEW x \in S
  PROVE  Fold(c, base, Append(s, x)) = Op(c, Fold(c, base, s), x)
<1> DEFINE n == Len(s)
           r == Append(s, x)
<1>1. n \in Nat /\ r \in Seq(S) /\ Len(r) = n + 1 /\ r[n + 1] = x /\ \A i \in 1 .. n : r[i] = s[i]
  OBVIOUS
<1>2. PICK a : /\ a[0] = base
               /\ \A i \in 1 .. n : a[i] = Op(c, a[i - 1], s[i])
               /\ Fold(c, base, s) = a[n]
  BY FoldByTurns
<1> HIDE DEF r
<1>3. PICK b : /\ b[0] = base
               /\ \A i \in 1 .. Len(r) : b[i] = Op(c, b[i - 1], r[i])
               /\ Fold(c, base, r) = b[Len(r)]
  BY <1>1, FoldByTurns
<1> DEFINE T == {i \in Nat : i <= n => a[i] = b[i]}
<1>4. 0 \in T
  BY <1>2, <1>3
<1>5. ASSUME NEW i \in Nat, i \in T
      PROVE  i + 1 \in T
  <2>1. ASSUME i + 1 <= n
        PROVE  a[i + 1] = b[i + 1]
    <3>1. i + 1 \in 1 .. n /\ i + 1 \in 1 .. Len(r) /\ (i + 1) - 1 = i
      BY <1>1, <2>1
    <3>2. a[i + 1] = Op(c, a[i], s[i + 1]) /\ b[i + 1] = Op(c, b[i], s[i + 1])
      BY <1>1, <1>2, <1>3, <3>1
    <3>3. a[i] = b[i]
      BY <1>1, <1>5, <2>1
    <3>4. QED
      BY <3>2, <3>3
  <2>2. QED
    BY <2>1
<1>6. \A i \in Nat : i \in T
  <2> HIDE DEF T
  <2>1. QED
    BY <1>4, <1>5, Induction
<1>7. a[n] = b[n]
  BY <1>1, <1>6
<1>8. b[n + 1] = Op(c, b[n], x)
  <2>1. n + 1 \in 1 .. Len(r) /\ (n + 1) - 1 = n
    BY <1>1
  <2>2. QED
    BY <1>1, <1>3, <2>1
<1>9. QED
  BY <1>1, <1>2, <1>3, <1>7, <1>8 DEF r

-----------------------------------------------------------------------------
(* What a loop has seen after i turns, and induction on its turns.         *)
Seen(s, i) == {s[j] : j \in 1 .. i}

LEMMA SeenGrows ==
  ASSUME NEW S, NEW s \in Seq(S)
  PROVE  /\ Seen(s, 0) = {}
         /\ \A i \in 1 .. Len(s) : Seen(s, i) = Seen(s, i - 1) \cup {s[i]} /\ s[i] \in Seen(s, Len(s))
         /\ Seen(s, Len(s)) = {s[i] : i \in DOMAIN s}
<1>1. Len(s) \in Nat /\ DOMAIN s = 1 .. Len(s)
  OBVIOUS
<1>2. Seen(s, 0) = {}
  BY DEF Seen
<1>3. Seen(s, Len(s)) = {s[i] : i \in DOMAIN s}
  BY <1>1 DEF Seen
<1>4. ASSUME NEW i \in 1 .. Len(s)
      PROVE  Seen(s, i) = Seen(s, i - 1) \cup {s[i]} /\ s[i] \in Seen(s, Len(s))
  <2>1. \A j \in 1 .. i : j \in 1 .. i - 1 \/ j = i
    OBVIOUS
  <2>2. i \in 1 .. i /\ \A j \in 1 .. i - 1 : j \in 1 .. i
    OBVIOUS
  <2>3. Seen(s, i) = Seen(s, i - 1) \cup {s[i]}
    BY <2>1, <2>2 DEF Seen
  <2>4. QED
    BY <1>1, <2>3 DEF Seen
<1>5. QED
  BY <1>2, <1>3, <1>4

LEMMA TurnByTurn ==
  ASSUME NEW n \in Nat, NEW T, 0 \in T, \A i \in 1 .. n : i - 1 \in T => i \in T
  PROVE  n \in T
<1> DEFINE R == {i \in Nat : i <= n => i \in T}
<1>1. 0 \in R
  OBVIOUS
<1>2. ASSUME NEW i \in Nat, i \in R
      PROVE  i + 1 \in R
  <2>1. ASSUME i + 1 <= n
        PROVE  i + 1 \in T
    <3>1. i + 1 \in 1 .. n /\ (i + 1) - 1 = i /\ i \in T
      BY <1>2, <2>1
    <3>2. QED
      BY <3>1
  <2>2. QED
    BY <2>1
<1>3. \A i \in Nat : i \in R
  <2> HIDE DEF R
  <2>1. QED
    BY <1>1, <1>2, Induction
<1>4. QED
  BY <1>3
(* An invariant of the loop holds of what it builds.                       *)
THEOREM Invariance ==
  ASSUME NEW c, NEW base, NEW s, s \in Seq({s[i] : i \in DOMAIN s}),
         Holds(c, base, {}),
         \A built, seen, x : /\ seen \subseteq {s[i] : i \in DOMAIN s} /\ x \in {s[i] : i \in DOMAIN s}
                             /\ Holds(c, built, seen)
                             => Holds(c, Op(c, built, x), seen \cup {x})
  PROVE  Holds(c, Fold(c, base, s), {s[i] : i \in DOMAIN s})
<1> DEFINE n == Len(s)
           S == {s[i] : i \in DOMAIN s}
           seen(i) == Seen(s, i)
<1>1. s \in Seq(S) /\ n \in Nat /\ \A i \in 1 .. n : s[i] \in S
  OBVIOUS
<1>2. \A built, Y, x : Y \subseteq S /\ x \in S /\ Holds(c, built, Y) => Holds(c, Op(c, built, x), Y \cup {x})
  OBVIOUS
<1> HIDE DEF S
<1>3. PICK built : /\ built[0] = base
                   /\ \A i \in 1 .. n : built[i] = Op(c, built[i - 1], s[i])
                   /\ Fold(c, base, s) = built[n]
  BY <1>1, FoldByTurns
<1>4. seen(0) = {} /\ seen(n) = S /\ \A i \in 1 .. n : seen(i) = seen(i - 1) \cup {s[i]}
  BY <1>1, SeenGrows DEF S
<1> HIDE DEF seen
<1> DEFINE T == {i \in 0 .. n : seen(i) \subseteq S /\ Holds(c, built[i], seen(i))}
<1>5. 0 \in T
  <2>1. Holds(c, built[0], seen(0))
    BY <1>3, <1>4
  <2>2. QED
    BY <1>1, <1>4, <2>1
<1>6. ASSUME NEW i \in 1 .. n, i - 1 \in T
      PROVE  i \in T
  <2>1. s[i] \in S /\ seen(i - 1) \subseteq S /\ Holds(c, built[i - 1], seen(i - 1))
    BY <1>1, <1>6
  <2>2. Holds(c, Op(c, built[i - 1], s[i]), seen(i - 1) \cup {s[i]})
    BY <1>2, <2>1
  <2>3. Holds(c, built[i], seen(i)) /\ seen(i) \subseteq S
    BY <1>3, <1>4, <2>1, <2>2
  <2>4. QED
    BY <2>3
<1>7. n \in T
  <2> HIDE DEF T
  <2>1. QED
    BY <1>1, <1>5, <1>6, TurnByTurn
<1>8. Holds(c, Fold(c, base, s), S)
  BY <1>3, <1>4, <1>7
<1>9. QED
  BY <1>8 DEF S

-----------------------------------------------------------------------------
(* A function on 1 .. n is defined by recursion when its body at v asks    *)
(* only for values below v.  The definition chooses some function that is  *)
(* equal to its body: there is one, so it chooses that.                    *)
LooksBelow(c, n) ==
  \A v \in 1 .. n : \A f, g : (\A w \in 1 .. v - 1 : f[w] = g[w]) => Op(c, f, v) = Op(c, g, v)

Recursive(c, n) == CHOOSE f : f = [v \in 1 .. n |-> Op(c, f, v)]

LEMMA RecursiveExists ==
  ASSUME NEW c, NEW n \in Nat, LooksBelow(c, n)
  PROVE  \E f : f = [v \in 1 .. n |-> Op(c, f, v)]
<1> DEFINE T == {m \in Nat : m <= n => \E f : f = [v \in 1 .. m |-> Op(c, f, v)]}
<1>1. 0 \in T
  <2> DEFINE f == [v \in 1 .. 0 |-> 0]
  <2>1. f = [v \in 1 .. 0 |-> Op(c, f, v)]
    OBVIOUS
  <2>2. QED
    BY <2>1
<1>2. ASSUME NEW m \in Nat, m \in T
      PROVE  m + 1 \in T
  <2>1. ASSUME m + 1 <= n
        PROVE  \E f : f = [v \in 1 .. m + 1 |-> Op(c, f, v)]
    <3>1. PICK f : f = [v \in 1 .. m |-> Op(c, f, v)]
      BY <1>2, <2>1
    <3> DEFINE g == [v \in 1 .. m + 1 |-> IF v = m + 1 THEN Op(c, f, v) ELSE f[v]]
    <3>2. ASSUME NEW v \in 1 .. m + 1
          PROVE  g[v] = Op(c, g, v)
      <4>1. \A w \in 1 .. v - 1 : f[w] = g[w]
        OBVIOUS
      <4>2. v \in 1 .. n
        BY <2>1
      <4>3. Op(c, f, v) = Op(c, g, v)
        <5> HIDE DEF g
        <5> QED BY <4>1, <4>2 DEF LooksBelow
      <4>4. g[v] = Op(c, f, v)
        <5>1. CASE v = m + 1
          BY <5>1
        <5>2. CASE v # m + 1
          <6>1. v \in 1 .. m
            BY <5>2
          <6>2. f[v] = Op(c, f, v)
            BY <3>1, <6>1
          <6> QED BY <6>2, <5>2
        <5> QED BY <5>1, <5>2
      <4> QED BY <4>3, <4>4
    <3>3. g = [v \in 1 .. m + 1 |-> g[v]]
      OBVIOUS
    <3> HIDE DEF g
    <3>4. g = [v \in 1 .. m + 1 |-> Op(c, g, v)]
      BY <3>2, <3>3
    <3> QED BY <3>4
  <2> QED BY <2>1
<1>3. n \in T
  <2> HIDE DEF T
  <2> QED BY <1>1, <1>2, Induction
<1> QED BY <1>3

(* Its value is its body, with the values below.                           *)
THEOREM RecursiveValue ==
  ASSUME NEW c, NEW n \in Nat, LooksBelow(c, n), NEW v \in 1 .. n
  PROVE  Recursive(c, n)[v] = Op(c, Recursive(c, n), v)
<1>1. Recursive(c, n) = [w \in 1 .. n |-> Op(c, Recursive(c, n), w)]
  BY RecursiveExists DEF Recursive
<1> HIDE DEF Recursive
<1> QED BY <1>1
=============================================================================
