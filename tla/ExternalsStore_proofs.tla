------------------------ MODULE ExternalsStore_proofs ------------------------
(***************************************************************************)
(* What one writer at a time makes of externals.txt, for any project, any  *)
(* requests and any crashes; and, at the end, what a listing of it answers *)
(* beside the requests and analyses that go on meanwhile.                  *)
(***************************************************************************)
EXTENDS ExternalsStore, ExternalListing, FiniteSetTheorems, TLAPS

-----------------------------------------------------------------------------
(* What Keep and SortBy return: which elements, and that none is doubled.  *)

\* The loops are reasoned about by induction on the list, not by an invariant.
NoInvariant(c, built, seen) == TRUE

KeepStep(T, kept, x) == IF x \in T THEN Append(kept, x) ELSE kept
KeepLoop == INSTANCE Folding WITH Op <- KeepStep, Holds <- NoInvariant

InsertStep(key, sorted, x) == InsertBy(key, sorted, x)
SortLoop == INSTANCE Folding WITH Op <- InsertStep, Holds <- NoInvariant

-----------------------------------------------------------------------------
(* The elements of a list, by its length.                                  *)
LEMMA Elements ==
  ASSUME NEW S, NEW s \in Seq(S), NEW n, n = Len(s)
  PROVE  n \in Nat /\ ToSet(s) = {s[i] : i \in 1 .. n} /\ ToSet(s) \subseteq S
<1>1. n \in Nat /\ DOMAIN s = 1 .. n /\ \A i \in 1 .. n : s[i] \in S
  OBVIOUS
<1>2. QED
  BY <1>1 DEF ToSet

LEMMA ElementsAppend ==
  ASSUME NEW S, NEW s \in Seq(S), NEW x \in S
  PROVE  Append(s, x) \in Seq(S) /\ ToSet(Append(s, x)) = ToSet(s) \cup {x}
<1> DEFINE r == Append(s, x)
           n == Len(s)
<1>1. /\ n \in Nat /\ r \in Seq(S) /\ Len(r) = n + 1
      /\ r[n + 1] = x /\ \A i \in 1 .. n : r[i] = s[i]
  OBVIOUS
<1> HIDE DEF r, n
<1>2. ToSet(s) = {s[i] : i \in 1 .. n} /\ ToSet(r) = {r[i] : i \in 1 .. n + 1}
  BY <1>1, Elements DEF n
<1>3. \A i \in 1 .. n + 1 : i \in 1 .. n \/ i = n + 1
  BY <1>1
<1>4. n + 1 \in 1 .. n + 1 /\ \A i \in 1 .. n : i \in 1 .. n + 1
  BY <1>1
<1>5. ToSet(r) = ToSet(s) \cup {x}
  BY <1>1, <1>2, <1>3, <1>4
<1>6. QED
  BY <1>1, <1>5 DEF r

LEMMA ElementsConcat ==
  ASSUME NEW S, NEW s \in Seq(S), NEW t \in Seq(S)
  PROVE  s \o t \in Seq(S) /\ ToSet(s \o t) = ToSet(s) \cup ToSet(t)
<1> DEFINE r == s \o t
           m == Len(s)
           n == Len(t)
<1>1. /\ m \in Nat /\ n \in Nat /\ r \in Seq(S) /\ Len(r) = m + n
      /\ \A i \in 1 .. m : r[i] = s[i]
      /\ \A i \in 1 .. n : r[m + i] = t[i]
  OBVIOUS
<1> HIDE DEF r, m, n
<1>2. /\ ToSet(s) = {s[i] : i \in 1 .. m} /\ ToSet(t) = {t[i] : i \in 1 .. n}
      /\ ToSet(r) = {r[i] : i \in 1 .. m + n}
  BY <1>1, Elements DEF m, n
<1>3. /\ \A i \in 1 .. m : i \in 1 .. m + n
      /\ \A i \in 1 .. n : m + i \in 1 .. m + n
      /\ \A i \in 1 .. m + n : i \in 1 .. m \/ (i - m \in 1 .. n /\ i = m + (i - m))
  BY <1>1
<1>4. \A i \in 1 .. m + n : r[i] \in ToSet(s) \cup ToSet(t)
  BY <1>1, <1>2, <1>3
<1>5. ToSet(r) = ToSet(s) \cup ToSet(t)
  BY <1>1, <1>2, <1>3, <1>4
<1>6. QED
  BY <1>1, <1>5 DEF r

LEMMA ElementsEmpty == ToSet(<<>>) = {}
BY DEF ToSet

LEMMA NoElements ==
  ASSUME NEW S, NEW s \in Seq(S), ToSet(s) = {}
  PROVE  s = <<>>
<1>1. \A i \in 1 .. Len(s) : s[i] \in ToSet(s)
  BY DEF ToSet
<1>2. Len(s) = 0
  <2>1. Len(s) \in Nat /\ (Len(s) # 0 => 1 \in 1 .. Len(s))
    OBVIOUS
  <2>2. QED
    BY <1>1, <2>1
<1>3. QED
  BY <1>2

-----------------------------------------------------------------------------
LEMMA KeepIsLoop ==
  ASSUME NEW T, NEW s
  PROVE  Keep(s, T) = KeepLoop!Fold(T, <<>>, s)
BY DEF Keep, KeepStep, KeepLoop!Fold, FoldLeft, MapThenFoldSet,
   KeepLoop!MapThenFoldSet, Max, KeepLoop!Last

LEMMA KeepEmpty ==
  ASSUME NEW T
  PROVE  Keep(<<>>, T) = <<>>
BY KeepIsLoop, KeepLoop!FoldEmpty

LEMMA KeepAppend ==
  ASSUME NEW T, NEW S, NEW s \in Seq(S), NEW x \in S
  PROVE  Keep(Append(s, x), T) = IF x \in T THEN Append(Keep(s, T), x) ELSE Keep(s, T)
BY KeepIsLoop, KeepLoop!FoldAppend DEF KeepStep

(* The kept elements are those of the list that are in T.                  *)
LEMMA KeepElements ==
  ASSUME NEW S, NEW T, NEW s \in Seq(S)
  PROVE  Keep(s, T) \in Seq(S) /\ ToSet(Keep(s, T)) = ToSet(s) \cap T
<1> DEFINE Q == {r \in Seq(S) : Keep(r, T) \in Seq(S) /\ ToSet(Keep(r, T)) = ToSet(r) \cap T}
<1>1. <<>> \in Q
  <2>1. <<>> \in Seq(S)
    OBVIOUS
  <2>2. QED
    BY <2>1, KeepEmpty, ElementsEmpty
<1>2. ASSUME NEW r \in Seq(S), NEW x \in S, r \in Q
      PROVE  Append(r, x) \in Q
  <2>1. ASSUME NEW q \in Seq(S)
        PROVE  Append(q, x) \in Seq(S) /\ ToSet(Append(q, x)) = ToSet(q) \cup {x}
    BY ElementsAppend
  <2>2. Keep(Append(r, x), T) = IF x \in T THEN Append(Keep(r, T), x) ELSE Keep(r, T)
    BY KeepAppend
  <2>3. QED
    BY <1>2, <2>1, <2>2
<1>3. \A r \in Seq(S) : r \in Q
  <2> HIDE DEF Q
  <2>1. QED
    BY <1>1, <1>2, KeepLoop!ListInduction
<1>4. QED
  BY <1>3

(* Keep goes through a concatenation.                                      *)
LEMMA KeepConcat ==
  ASSUME NEW S, NEW T, NEW s \in Seq(S), NEW t \in Seq(S)
  PROVE  Keep(s \o t, T) = Keep(s, T) \o Keep(t, T)
<1> DEFINE Q == {r \in Seq(S) : Keep(s \o r, T) = Keep(s, T) \o Keep(r, T)}
<1>1. <<>> \in Q
  <2>1. \A q \in Seq(S) : q \o <<>> = q
    OBVIOUS
  <2>2. <<>> \in Seq(S)
    OBVIOUS
  <2>3. s \o <<>> = s /\ Keep(s, T) \o <<>> = Keep(s, T)
    BY <2>1, KeepElements
  <2>4. Keep(<<>>, T) = <<>>
    BY KeepEmpty
  <2>5. QED
    BY <2>2, <2>3, <2>4
<1>2. ASSUME NEW r \in Seq(S), NEW x \in S, r \in Q
      PROVE  Append(r, x) \in Q
  <2>1. s \o Append(r, x) = Append(s \o r, x) /\ s \o r \in Seq(S)
    OBVIOUS
  <2>2. Keep(s, T) \o Append(Keep(r, T), x) = Append(Keep(s, T) \o Keep(r, T), x)
    <3>1. Keep(s, T) \in Seq(S) /\ Keep(r, T) \in Seq(S)
      BY KeepElements
    <3>2. QED
      BY <3>1
  <2>3. Keep(s \o Append(r, x), T)
          = IF x \in T THEN Append(Keep(s \o r, T), x) ELSE Keep(s \o r, T)
    <3> DEFINE q == s \o r
    <3>1. q \in Seq(S) /\ s \o Append(r, x) = Append(q, x)
      BY <2>1
    <3> HIDE DEF q
    <3>2. Keep(Append(q, x), T) = IF x \in T THEN Append(Keep(q, T), x) ELSE Keep(q, T)
      BY <3>1, KeepAppend
    <3>3. QED
      BY <3>1, <3>2 DEF q
  <2>4. Keep(Append(r, x), T) = IF x \in T THEN Append(Keep(r, T), x) ELSE Keep(r, T)
    BY KeepAppend
  <2>5. Append(r, x) \in Seq(S)
    OBVIOUS
  <2>6. Keep(s \o Append(r, x), T) = Keep(s, T) \o Keep(Append(r, x), T)
    BY <1>2, <2>2, <2>3, <2>4, Zenon
  <2>7. QED
    BY <2>5, <2>6
<1>3. \A r \in Seq(S) : r \in Q
  <2> HIDE DEF Q
  <2>1. QED
    BY <1>1, <1>2, KeepLoop!ListInduction
<1>4. QED
  BY <1>3

(* A list within T is kept whole, one without an element in T not at all.  *)
LEMMA KeepAll ==
  ASSUME NEW S, NEW T, NEW s \in Seq(S), ToSet(s) \subseteq T
  PROVE  Keep(s, T) = s
<1> DEFINE Q == {r \in Seq(S) : ToSet(r) \subseteq T => Keep(r, T) = r}
<1>1. <<>> \in Q
  BY KeepEmpty
<1>2. ASSUME NEW r \in Seq(S), NEW x \in S, r \in Q
      PROVE  Append(r, x) \in Q
  <2>1. ToSet(Append(r, x)) = ToSet(r) \cup {x}
    BY ElementsAppend
  <2>2. Keep(Append(r, x), T) = IF x \in T THEN Append(Keep(r, T), x) ELSE Keep(r, T)
    BY KeepAppend
  <2>3. QED
    BY <1>2, <2>1, <2>2
<1>3. \A r \in Seq(S) : r \in Q
  <2> HIDE DEF Q
  <2>1. QED
    BY <1>1, <1>2, KeepLoop!ListInduction
<1>4. QED
  BY <1>3

LEMMA KeepNone ==
  ASSUME NEW S, NEW T, NEW s \in Seq(S), ToSet(s) \cap T = {}
  PROVE  Keep(s, T) = <<>>
<1>1. Keep(s, T) \in Seq(S) /\ ToSet(Keep(s, T)) = {}
  BY KeepElements
<1>2. QED
  BY <1>1, NoElements

-----------------------------------------------------------------------------
\* No two elements have the same key.
Distinct(key, s) == \A i, j \in DOMAIN s : key[s[i]] = key[s[j]] => i = j

Keys(key, s) == {key[x] : x \in ToSet(s)}

LEMMA DistinctAppend ==
  ASSUME NEW S, NEW key, NEW s \in Seq(S), NEW x \in S
  PROVE  /\ Distinct(key, Append(s, x)) <=> Distinct(key, s) /\ key[x] \notin Keys(key, s)
         /\ Keys(key, Append(s, x)) = Keys(key, s) \cup {key[x]}
<1> DEFINE r == Append(s, x)
           n == Len(s)
<1>1. /\ n \in Nat /\ DOMAIN s = 1 .. n /\ DOMAIN r = 1 .. n + 1
      /\ r[n + 1] = x /\ \A i \in 1 .. n : r[i] = s[i]
  OBVIOUS
<1> HIDE DEF r, n
<1>2. \A k : k \in Keys(key, s) <=> \E i \in 1 .. n : k = key[s[i]]
  BY <1>1 DEF Keys, ToSet
<1>3. \A i \in 1 .. n + 1 : i \in 1 .. n \/ i = n + 1
  BY <1>1
<1>3a. \A i \in 1 .. n : i \in 1 .. n + 1 /\ i # n + 1
  BY <1>1
<1>4. Distinct(key, r) => Distinct(key, s) /\ key[x] \notin Keys(key, s)
  <2>1. Distinct(key, r) => Distinct(key, s)
    BY <1>1, <1>3a DEF Distinct
  <2>2. n + 1 \in 1 .. n + 1
    BY <1>1
  <2>3. Distinct(key, r) => key[x] \notin Keys(key, s)
    BY <1>1, <1>2, <1>3a, <2>2 DEF Distinct
  <2>4. QED
    BY <2>1, <2>3
<1>5. ASSUME Distinct(key, s), key[x] \notin Keys(key, s), NEW i \in DOMAIN r, NEW j \in DOMAIN r,
             key[r[i]] = key[r[j]]
      PROVE  i = j
  <2>1. CASE i \in 1 .. n /\ j \in 1 .. n
    BY <1>1, <1>5, <2>1 DEF Distinct
  <2>2. CASE i = n + 1 /\ j \in 1 .. n
    BY <1>1, <1>2, <1>5, <2>2
  <2>3. CASE j = n + 1 /\ i \in 1 .. n
    BY <1>1, <1>2, <1>5, <2>3
  <2>4. QED
    BY <1>1, <1>3, <2>1, <2>2, <2>3
<1>6. ToSet(r) = ToSet(s) \cup {x}
  BY ElementsAppend DEF r
<1>7. Keys(key, r) = Keys(key, s) \cup {key[x]}
  BY <1>6 DEF Keys
<1>8. QED
  BY <1>4, <1>5, <1>7 DEF r, Distinct

LEMMA KeepDistinct ==
  ASSUME NEW S, NEW key, NEW T, NEW s \in Seq(S), Distinct(key, s)
  PROVE  Distinct(key, Keep(s, T))
<1> DEFINE Q == {r \in Seq(S) : Distinct(key, r) => Distinct(key, Keep(r, T))}
<1>1. <<>> \in Q
  BY KeepEmpty DEF Distinct
<1>2. ASSUME NEW r \in Seq(S), NEW x \in S, r \in Q
      PROVE  Append(r, x) \in Q
  <2>1. ASSUME Distinct(key, Append(r, x))
        PROVE  Distinct(key, Keep(Append(r, x), T))
    <3>1. Distinct(key, r) /\ key[x] \notin Keys(key, r)
      BY <2>1, DistinctAppend
    <3>2. Keep(r, T) \in Seq(S) /\ ToSet(Keep(r, T)) = ToSet(r) \cap T
      BY KeepElements
    <3>3. Distinct(key, Keep(r, T))
      BY <1>2, <3>1
    <3>4. key[x] \notin Keys(key, Keep(r, T))
      BY <3>1, <3>2 DEF Keys
    <3>5. Distinct(key, Append(Keep(r, T), x))
      BY <3>2, <3>3, <3>4, DistinctAppend
    <3>6. Keep(Append(r, x), T) = IF x \in T THEN Append(Keep(r, T), x) ELSE Keep(r, T)
      BY KeepAppend
    <3>7. QED
      BY <3>3, <3>5, <3>6
  <2>2. QED
    BY <2>1
<1>3. \A r \in Seq(S) : r \in Q
  <2> HIDE DEF Q
  <2>1. QED
    BY <1>1, <1>2, KeepLoop!ListInduction
<1>4. QED
  BY <1>3

LEMMA DistinctConcat ==
  ASSUME NEW S, NEW key, NEW s \in Seq(S), NEW t \in Seq(S), Distinct(key, s), Distinct(key, t),
         Keys(key, s) \cap Keys(key, t) = {}
  PROVE  Distinct(key, s \o t)
<1> DEFINE r == s \o t
           m == Len(s)
           n == Len(t)
<1>1. /\ m \in Nat /\ n \in Nat /\ DOMAIN s = 1 .. m /\ DOMAIN t = 1 .. n /\ DOMAIN r = 1 .. m + n
      /\ \A i \in 1 .. m : r[i] = s[i]
      /\ \A i \in 1 .. m + n : i \notin 1 .. m => i - m \in 1 .. n /\ r[i] = t[i - m]
  OBVIOUS
<1> HIDE DEF r, m, n
<1>2. \A i \in 1 .. m : key[s[i]] \in Keys(key, s)
  BY <1>1 DEF Keys, ToSet
<1>3. \A i \in 1 .. n : key[t[i]] \in Keys(key, t)
  BY <1>1 DEF Keys, ToSet
<1>4. ASSUME NEW i \in 1 .. m + n, NEW j \in 1 .. m + n, key[r[i]] = key[r[j]]
      PROVE  i = j
  <2>1. CASE i \in 1 .. m /\ j \in 1 .. m
    BY <1>1, <1>4, <2>1 DEF Distinct
  <2>2. CASE i \notin 1 .. m /\ j \notin 1 .. m
    <3>1. /\ i - m \in 1 .. n /\ j - m \in 1 .. n
          /\ key[t[i - m]] = key[t[j - m]]
      BY <1>1, <1>4, <2>2
    <3>2. i - m = j - m
      BY <1>1, <3>1 DEF Distinct
    <3>3. QED
      BY <1>1, <3>2
  <2>3. CASE i \in 1 .. m /\ j \notin 1 .. m
    BY <1>1, <1>2, <1>3, <1>4, <2>3
  <2>4. CASE i \notin 1 .. m /\ j \in 1 .. m
    BY <1>1, <1>2, <1>3, <1>4, <2>4
  <2>5. QED
    BY <2>1, <2>2, <2>3, <2>4
<1>5. QED
  BY <1>1, <1>4 DEF r, Distinct

-----------------------------------------------------------------------------
LEMMA InsertFacts ==
  ASSUME NEW S, NEW key \in [S -> Nat], NEW s \in Seq(S), NEW x \in S
  PROVE  /\ InsertBy(key, s, x) \in Seq(S)
         /\ ToSet(InsertBy(key, s, x)) = ToSet(s) \cup {x}
         /\ Distinct(key, Append(s, x)) => Distinct(key, InsertBy(key, s, x))
<1> DEFINE upTo == {y \in ToSet(s) : key[y] <= key[x]}
           low == Keep(s, upTo)
           high == Keep(s, ToSet(s) \ upTo)
<1>1. low \in Seq(S) /\ ToSet(low) = upTo
  BY KeepElements
<1>2. high \in Seq(S) /\ ToSet(high) = ToSet(s) \ upTo
  BY KeepElements
<1>3. InsertBy(key, s, x) = Append(low, x) \o high
  <2>1. InsertBy(key, s, x) = low \o <<x>> \o high
    BY DEF InsertBy
  <2> HIDE DEF low, high
  <2>2. QED
    BY <1>1, <2>1
<1>4. ToSet(s) \subseteq S
  BY DEF ToSet
<1>5. ASSUME Distinct(key, Append(s, x))
      PROVE  Distinct(key, Append(low, x) \o high)
  <2>1. Distinct(key, s) /\ key[x] \notin Keys(key, s)
    BY <1>5, DistinctAppend
  <2>2. Distinct(key, low) /\ Distinct(key, high)
    BY <2>1, KeepDistinct
  <2> HIDE DEF low, high
  <2>3. key[x] \notin Keys(key, low) /\ key[x] \notin Keys(key, high)
    BY <1>1, <1>2, <2>1 DEF Keys
  <2>4. /\ Append(low, x) \in Seq(S) /\ Distinct(key, Append(low, x))
        /\ Keys(key, Append(low, x)) = Keys(key, low) \cup {key[x]}
    BY <1>1, <2>2, <2>3, DistinctAppend
  <2>5. Keys(key, low) \cap Keys(key, high) = {}
    <3>1. ASSUME NEW y \in upTo, NEW z \in ToSet(s) \ upTo
          PROVE  key[y] # key[z]
      BY <1>4
    <3>2. QED
      BY <1>1, <1>2, <3>1 DEF Keys
  <2>6. QED
    BY <1>2, <2>2, <2>3, <2>4, <2>5, DistinctConcat
<1>6. Append(low, x) \o high \in Seq(S) /\ ToSet(Append(low, x) \o high) = ToSet(s) \cup {x}
  <2> HIDE DEF low, high
  <2> DEFINE first == Append(low, x)
  <2>1. first \in Seq(S) /\ ToSet(first) = ToSet(low) \cup {x}
    BY <1>1, ElementsAppend
  <2> HIDE DEF first
  <2>2. first \o high \in Seq(S) /\ ToSet(first \o high) = ToSet(first) \cup ToSet(high)
    BY <1>2, <2>1, ElementsConcat
  <2>3. QED
    BY <1>1, <1>2, <2>1, <2>2 DEF first
<1>7. QED
  BY <1>3, <1>5, <1>6

LEMMA SortIsLoop ==
  ASSUME NEW key, NEW s
  PROVE  SortBy(key, s) = SortLoop!Fold(key, <<>>, s)
BY DEF SortBy, InsertStep, SortLoop!Fold, FoldLeft, MapThenFoldSet,
   SortLoop!MapThenFoldSet, Max, SortLoop!Last

(* Sorting loses no element, adds none and doubles none.                   *)
LEMMA SortElements ==
  ASSUME NEW S, NEW key \in [S -> Nat], NEW s \in Seq(S)
  PROVE  /\ SortBy(key, s) \in Seq(S)
         /\ ToSet(SortBy(key, s)) = ToSet(s)
         /\ Distinct(key, s) => Distinct(key, SortBy(key, s))
<1> DEFINE Q == {r \in Seq(S) : /\ SortBy(key, r) \in Seq(S)
                                /\ ToSet(SortBy(key, r)) = ToSet(r)
                                /\ Distinct(key, r) => Distinct(key, SortBy(key, r))}
<1>1. <<>> \in Q
  <2>1. SortBy(key, <<>>) = <<>>
    BY SortIsLoop, SortLoop!FoldEmpty
  <2>2. <<>> \in Seq(S)
    OBVIOUS
  <2>3. QED
    BY <2>1, <2>2
<1>2. ASSUME NEW r \in Seq(S), NEW x \in S, r \in Q
      PROVE  Append(r, x) \in Q
  <2>1. SortBy(key, Append(r, x)) = InsertBy(key, SortBy(key, r), x)
    BY SortIsLoop, SortLoop!FoldAppend DEF InsertStep
  <2> DEFINE t == SortBy(key, r)
  <2>2. t \in Seq(S) /\ ToSet(t) = ToSet(r) /\ (Distinct(key, r) => Distinct(key, t))
    BY <1>2
  <2> HIDE DEF t
  <2>3. /\ InsertBy(key, t, x) \in Seq(S)
        /\ ToSet(InsertBy(key, t, x)) = ToSet(t) \cup {x}
        /\ Distinct(key, Append(t, x)) => Distinct(key, InsertBy(key, t, x))
    BY <2>2, InsertFacts
  <2>4. ToSet(Append(r, x)) = ToSet(r) \cup {x}
    BY ElementsAppend
  <2>5. Keys(key, t) = Keys(key, r)
    BY <2>2 DEF Keys
  <2>6. Distinct(key, Append(r, x)) => Distinct(key, Append(t, x))
    BY <2>2, <2>5, DistinctAppend
  <2>7. SortBy(key, Append(r, x)) = InsertBy(key, t, x) /\ Append(r, x) \in Seq(S)
    BY <2>1 DEF t
  <2>8. QED
    BY <2>2, <2>3, <2>4, <2>6, <2>7
<1>3. \A r \in Seq(S) : r \in Q
  <2> HIDE DEF Q
  <2>1. QED
    BY <1>1, <1>2, SortLoop!ListInduction
<1>4. QED
  BY <1>3

-----------------------------------------------------------------------------
(* The lists of the store as lists of keyed elements.                      *)

MarkKey == [m \in ManualMark |-> m.usr]
RuleKey == [r \in Rule |-> r.id]
FileKey == [m \in FileMark |-> m.file]

LEMMA ConstantFacts ==
  /\ IsFiniteSet(Usr) /\ Usr \subseteq Nat /\ File \subseteq Nat
  /\ RuleKind \subseteq {"name", "path"}
  /\ Legacy \in Lists /\ UniqueKeys(Legacy)
BY DataAssumption, LegacyAssumption

LEMMA KeyTypes ==
  MarkKey \in [ManualMark -> Nat] /\ RuleKey \in [Rule -> Nat] /\ FileKey \in [FileMark -> Nat]
BY ConstantFacts DEF MarkKey, RuleKey, FileKey, ManualMark, Rule, FileMark

LEMMA UniqueByKey ==
  ASSUME NEW d \in Lists
  PROVE  UniqueKeys(d) <=> /\ Distinct(MarkKey, d.marks)
                           /\ \A k \in RuleKind : Distinct(RuleKey, d.rules[k])
<1>1. d.marks \in Seq(ManualMark) /\ \A k \in RuleKind : d.rules[k] \in Seq(Rule)
  BY DEF Lists
<1>2. \A i \in DOMAIN d.marks : d.marks[i].usr = MarkKey[d.marks[i]]
  BY <1>1 DEF MarkKey
<1>3. \A k \in RuleKind : \A i \in DOMAIN d.rules[k] : d.rules[k][i].id = RuleKey[d.rules[k][i]]
  BY <1>1 DEF RuleKey
<1>4. IsInjective([i \in DOMAIN d.marks |-> d.marks[i].usr]) <=> Distinct(MarkKey, d.marks)
  <2>1. ASSUME NEW marks, \A i \in DOMAIN marks : marks[i].usr = MarkKey[marks[i]]
        PROVE  IsInjective([i \in DOMAIN marks |-> marks[i].usr]) <=> Distinct(MarkKey, marks)
    BY <2>1 DEF IsInjective, Distinct
  <2>2. QED
    BY <1>2, <2>1, Zenon
<1>5. ASSUME NEW k \in RuleKind
      PROVE  IsInjective([i \in DOMAIN d.rules[k] |-> d.rules[k][i].id])
               <=> Distinct(RuleKey, d.rules[k])
  <2>1. ASSUME NEW rules, \A i \in DOMAIN rules : rules[i].id = RuleKey[rules[i]]
        PROVE  IsInjective([i \in DOMAIN rules |-> rules[i].id]) <=> Distinct(RuleKey, rules)
    BY <2>1 DEF IsInjective, Distinct
  <2>2. QED
    BY <1>3, <2>1, Zenon
<1>6. QED
  BY <1>4, <1>5 DEF UniqueKeys

LEMMA NoDataFacts == NoData \in Lists /\ UniqueKeys(NoData)
<1>1. NoData \in Lists
  BY DEF NoData, Lists
<1>2. NoData.marks = <<>> /\ \A k \in RuleKind : NoData.rules[k] = <<>>
  BY DEF NoData
<1>3. \A key : Distinct(key, <<>>)
  BY DEF Distinct
<1>4. QED
  BY <1>1, <1>2, <1>3, UniqueByKey
-----------------------------------------------------------------------------
(* What is written is what is read back.                                   *)

TextLine == [kind : {"mark", "name", "path", "file"}, entry : ManualMark \cup Rule \cup FileMark]

AddStep(none, d, line) == AddLine(d, line)
ParseLoop == INSTANCE Folding WITH Op <- AddStep, Holds <- NoInvariant

\* Lines read into a list that is not empty any more.
ReadInto(d, lines) == FoldLeft(AddLine, d, lines)

LEMMA ReadIsLoop ==
  ASSUME NEW d, NEW lines
  PROVE  /\ ReadInto(d, lines) = ParseLoop!Fold(0, d, lines)
         /\ Parse(lines) = ReadInto(NoData, lines)
BY DEF Parse, ReadInto, AddStep, ParseLoop!Fold, FoldLeft, MapThenFoldSet,
   ParseLoop!MapThenFoldSet, Max, ParseLoop!Last

LEMMA ReadNone ==
  ASSUME NEW d
  PROVE  ReadInto(d, <<>>) = d
BY ReadIsLoop, ParseLoop!FoldEmpty

LEMMA ReadOneMore ==
  ASSUME NEW d, NEW lines \in Seq(TextLine), NEW line \in TextLine
  PROVE  ReadInto(d, Append(lines, line)) = AddLine(ReadInto(d, lines), line)
BY ReadIsLoop, ParseLoop!FoldAppend DEF AddStep

LEMMA ReadConcat ==
  ASSUME NEW d, NEW a \in Seq(TextLine), NEW b \in Seq(TextLine)
  PROVE  ReadInto(d, a \o b) = ReadInto(ReadInto(d, a), b)
<1> DEFINE Q == {t \in Seq(TextLine) : ReadInto(d, a \o t) = ReadInto(ReadInto(d, a), t)}
<1>1. <<>> \in Q
  <2>1. a \o <<>> = a /\ <<>> \in Seq(TextLine)
    OBVIOUS
  <2>2. QED
    BY <2>1, ReadNone
<1>2. ASSUME NEW t \in Seq(TextLine), NEW line \in TextLine, t \in Q
      PROVE  Append(t, line) \in Q
  <2> DEFINE whole == a \o t
  <2>1. /\ a \o Append(t, line) = Append(whole, line)
        /\ whole \in Seq(TextLine)
        /\ Append(t, line) \in Seq(TextLine)
    OBVIOUS
  <2> HIDE DEF whole
  <2>2. ReadInto(d, Append(whole, line)) = AddLine(ReadInto(d, whole), line)
    BY <2>1, ReadOneMore
  <2>3. ReadInto(ReadInto(d, a), Append(t, line)) = AddLine(ReadInto(ReadInto(d, a), t), line)
    BY ReadOneMore
  <2>4. ReadInto(d, whole) = ReadInto(ReadInto(d, a), t)
    BY <1>2 DEF whole
  <2>5. QED
    BY <2>1, <2>2, <2>3, <2>4
<1>3. \A t \in Seq(TextLine) : t \in Q
  <2> HIDE DEF Q
  <2>1. QED
    BY <1>1, <1>2, ParseLoop!ListInduction
<1>4. QED
  BY <1>3

LEMMA LinesFacts ==
  ASSUME NEW kind \in {"mark", "name", "path", "file"},
         NEW S \in SUBSET (ManualMark \cup Rule \cup FileMark), NEW s \in Seq(S)
  PROVE  /\ Lines(kind, s) \in Seq(TextLine)
         /\ \A x \in S : /\ [kind |-> kind, entry |-> x] \in TextLine
                         /\ Lines(kind, Append(s, x))
                              = Append(Lines(kind, s), [kind |-> kind, entry |-> x])
<1>1. \A x \in S : [kind |-> kind, entry |-> x] \in TextLine
  BY DEF TextLine
<1>2. Lines(kind, s) \in Seq(TextLine)
  BY <1>1 DEF Lines
<1>3. ASSUME NEW x \in S
      PROVE  Lines(kind, Append(s, x)) = Append(Lines(kind, s), [kind |-> kind, entry |-> x])
  BY DEF Lines
<1>4. QED
  BY <1>1, <1>2, <1>3

RuleLists == [RuleKind -> Seq(Rule)]

\* A list of the three kinds of entries.
ListOf(marks, rules, files) == [marks |-> marks, rules |-> rules, files |-> files]

LEMMA ListParts ==
  /\ \A d \in Lists : d = ListOf(d.marks, d.rules, d.files)
  /\ NoData = ListOf(<<>>, [k \in RuleKind |-> <<>>], <<>>)
BY DEF Lists, NoData, ListOf

LEMMA PartsOfList ==
  ASSUME NEW marks, NEW rules, NEW files
  PROVE  /\ ListOf(marks, rules, files).marks = marks
         /\ ListOf(marks, rules, files).rules = rules
         /\ ListOf(marks, rules, files).files = files
         /\ \A new :
              /\ [ListOf(marks, rules, files) EXCEPT !.marks = new] = ListOf(new, rules, files)
              /\ [ListOf(marks, rules, files) EXCEPT !.files = new] = ListOf(marks, rules, new)
              /\ [ListOf(marks, rules, files) EXCEPT !.rules = new] = ListOf(marks, new, files)
BY DEF ListOf

LEMMA AddMarkLine ==
  ASSUME NEW marks, NEW rules, NEW files, NEW line, line.kind = "mark"
  PROVE  AddLine(ListOf(marks, rules, files), line)
           = ListOf(Append(marks, line.entry), rules, files)
<1> DEFINE d == ListOf(marks, rules, files)
<1> HIDE DEF d
<1>1. AddLine(d, line) = [d EXCEPT !.marks = Append(d.marks, line.entry)]
  BY DEF AddLine
<1>2. d.marks = marks
  BY PartsOfList DEF d
<1>3. AddLine(d, line) = [d EXCEPT !.marks = Append(marks, line.entry)]
  BY <1>1, <1>2
<1> DEFINE longer == Append(marks, line.entry)
<1> HIDE DEF longer
<1>4. [d EXCEPT !.marks = longer] = ListOf(longer, rules, files)
  BY PartsOfList DEF d
<1>5. QED
  BY <1>3, <1>4 DEF d, longer

LEMMA AddFileLine ==
  ASSUME NEW marks, NEW rules, NEW files, NEW line, line.kind = "file"
  PROVE  AddLine(ListOf(marks, rules, files), line)
           = ListOf(marks, rules, Append(files, line.entry))
<1> DEFINE d == ListOf(marks, rules, files)
<1> HIDE DEF d
<1>1. AddLine(d, line) = [d EXCEPT !.files = Append(d.files, line.entry)]
  BY DEF AddLine
<1>2. d.files = files
  BY PartsOfList DEF d
<1>3. AddLine(d, line) = [d EXCEPT !.files = Append(files, line.entry)]
  BY <1>1, <1>2
<1> DEFINE longer == Append(files, line.entry)
<1> HIDE DEF longer
<1>4. [d EXCEPT !.files = longer] = ListOf(marks, rules, longer)
  BY PartsOfList DEF d
<1>5. QED
  BY <1>3, <1>4 DEF d, longer

LEMMA AddRuleLine ==
  ASSUME NEW marks, NEW rules, NEW files, NEW line, line.kind \in RuleKind
  PROVE  AddLine(ListOf(marks, rules, files), line)
           = ListOf(marks, [rules EXCEPT ![line.kind] = Append(rules[line.kind], line.entry)], files)
<1> DEFINE d == ListOf(marks, rules, files)
<1>0. line.kind \in {"name", "path"} /\ line.kind # "mark"
  BY ConstantFacts
<1> HIDE DEF d
<1>1. AddLine(d, line)
        = [d EXCEPT !.rules = [d.rules EXCEPT ![line.kind] = Append(d.rules[line.kind], line.entry)]]
  BY <1>0 DEF AddLine
<1>2. d.rules = rules
  BY PartsOfList DEF d
<1>3. AddLine(d, line) = [d EXCEPT !.rules = [rules EXCEPT ![line.kind] = Append(rules[line.kind], line.entry)]]
  BY <1>1, <1>2
<1> DEFINE longer == [rules EXCEPT ![line.kind] = Append(rules[line.kind], line.entry)]
<1> HIDE DEF longer
<1>4. [d EXCEPT !.rules = longer] = ListOf(marks, longer, files)
  BY PartsOfList DEF d
<1>5. QED
  BY <1>3, <1>4 DEF d, longer

LEMMA ReadMarkLines ==
  ASSUME NEW marks \in Seq(ManualMark), NEW rules \in RuleLists, NEW files,
         NEW s \in Seq(ManualMark)
  PROVE  ReadInto(ListOf(marks, rules, files), Lines("mark", s)) = ListOf(marks \o s, rules, files)
<1> DEFINE Q == {t \in Seq(ManualMark) :
                   ReadInto(ListOf(marks, rules, files), Lines("mark", t))
                     = ListOf(marks \o t, rules, files)}
<1>1. <<>> \in Q
  <2>1. Lines("mark", <<>>) = <<>> /\ <<>> \in Seq(ManualMark) /\ marks \o <<>> = marks
    BY DEF Lines
  <2>2. QED
    BY <2>1, ReadNone
<1>2. ASSUME NEW t \in Seq(ManualMark), NEW x \in ManualMark, t \in Q
      PROVE  Append(t, x) \in Q
  <2>a. Append(marks \o t, x) = marks \o Append(t, x)
    BY SMTT(30)
  <2>b. Append(t, x) \in Seq(ManualMark)
    OBVIOUS
  <2> DEFINE line == [kind |-> "mark", entry |-> x]
             lines == Lines("mark", t)
             more == Append(t, x)
             all == marks \o t
             d == ListOf(marks, rules, files)
  <2>1. lines \in Seq(TextLine) /\ line \in TextLine /\ Lines("mark", more) = Append(lines, line)
    BY LinesFacts
  <2>2. ReadInto(d, lines) = ListOf(all, rules, files)
    BY <1>2
  <2>3. AddLine(ListOf(all, rules, files), line) = ListOf(Append(all, x), rules, files)
    <3>1. line.kind = "mark" /\ line.entry = x
      OBVIOUS
    <3> HIDE DEF all, line
    <3>2. QED
      BY <3>1, AddMarkLine
  <2>4. Append(all, x) = marks \o more /\ more \in Seq(ManualMark)
    BY <2>a, <2>b
  <2> HIDE DEF line, lines, more, all, d
  <2>5. ReadInto(d, Append(lines, line)) = AddLine(ReadInto(d, lines), line)
    BY <2>1, ReadOneMore
  <2>6. ReadInto(d, Lines("mark", more)) = ListOf(marks \o more, rules, files)
    BY <2>1, <2>2, <2>3, <2>4, <2>5, Zenon
  <2>7. QED
    BY <2>4, <2>6 DEF d, more
<1>3. \A t \in Seq(ManualMark) : t \in Q
  <2> HIDE DEF Q
  <2>1. QED
    BY <1>1, <1>2, ParseLoop!ListInduction
<1>4. QED
  BY <1>3

LEMMA ReadFileLines ==
  ASSUME NEW marks, NEW rules \in RuleLists, NEW files \in Seq(FileMark),
         NEW s \in Seq(FileMark)
  PROVE  ReadInto(ListOf(marks, rules, files), Lines("file", s)) = ListOf(marks, rules, files \o s)
<1> DEFINE Q == {t \in Seq(FileMark) :
                   ReadInto(ListOf(marks, rules, files), Lines("file", t))
                     = ListOf(marks, rules, files \o t)}
<1>1. <<>> \in Q
  <2>1. Lines("file", <<>>) = <<>> /\ <<>> \in Seq(FileMark) /\ files \o <<>> = files
    BY DEF Lines
  <2>2. QED
    BY <2>1, ReadNone
<1>2. ASSUME NEW t \in Seq(FileMark), NEW x \in FileMark, t \in Q
      PROVE  Append(t, x) \in Q
  <2>a. Append(files \o t, x) = files \o Append(t, x)
    BY SMTT(30)
  <2>b. Append(t, x) \in Seq(FileMark)
    OBVIOUS
  <2> DEFINE line == [kind |-> "file", entry |-> x]
             lines == Lines("file", t)
             more == Append(t, x)
             all == files \o t
             d == ListOf(marks, rules, files)
  <2>1. lines \in Seq(TextLine) /\ line \in TextLine /\ Lines("file", more) = Append(lines, line)
    BY LinesFacts
  <2>2. ReadInto(d, lines) = ListOf(marks, rules, all)
    BY <1>2
  <2>3. AddLine(ListOf(marks, rules, all), line) = ListOf(marks, rules, Append(all, x))
    <3>1. line.kind = "file" /\ line.entry = x
      OBVIOUS
    <3> HIDE DEF all, line
    <3>2. QED
      BY <3>1, AddFileLine
  <2>4. Append(all, x) = files \o more /\ more \in Seq(FileMark)
    BY <2>a, <2>b
  <2> HIDE DEF line, lines, more, all, d
  <2>5. ReadInto(d, Append(lines, line)) = AddLine(ReadInto(d, lines), line)
    BY <2>1, ReadOneMore
  <2>6. ReadInto(d, Lines("file", more)) = ListOf(marks, rules, files \o more)
    BY <2>1, <2>2, <2>3, <2>4, <2>5, Zenon
  <2>7. QED
    BY <2>4, <2>6 DEF d, more
<1>3. \A t \in Seq(FileMark) : t \in Q
  <2> HIDE DEF Q
  <2>1. QED
    BY <1>1, <1>2, ParseLoop!ListInduction
<1>4. QED
  BY <1>3

LEMMA ReadRuleLines ==
  ASSUME NEW marks, NEW rules \in RuleLists, NEW files,
         NEW k \in RuleKind, rules[k] = <<>>, NEW s \in Seq(Rule)
  PROVE  ReadInto(ListOf(marks, rules, files), Lines(k, s))
           = ListOf(marks, [rules EXCEPT ![k] = s], files)
<1> DEFINE Q == {t \in Seq(Rule) :
                   ReadInto(ListOf(marks, rules, files), Lines(k, t))
                     = ListOf(marks, [rules EXCEPT ![k] = t], files)}
<1>0. k \in {"name", "path"} /\ k \in {"mark", "name", "path", "file"}
  BY ConstantFacts
<1>1. <<>> \in Q
  <2>1. Lines(k, <<>>) = <<>> /\ <<>> \in Seq(Rule) /\ [rules EXCEPT ![k] = <<>>] = rules
    BY DEF Lines, RuleLists
  <2>2. QED
    BY <2>1, ReadNone
<1>2. ASSUME NEW t \in Seq(Rule), NEW x \in Rule, t \in Q
      PROVE  Append(t, x) \in Q
  <2> DEFINE line == [kind |-> k, entry |-> x]
             lines == Lines(k, t)
             more == Append(t, x)
             so == [rules EXCEPT ![k] = t]
             d == ListOf(marks, rules, files)
  <2>1. lines \in Seq(TextLine) /\ line \in TextLine /\ Lines(k, more) = Append(lines, line)
    BY <1>0, LinesFacts
  <2>2. ReadInto(d, lines) = ListOf(marks, so, files)
    BY <1>2
  <2>2a. so \in RuleLists
    BY DEF RuleLists
  <2>3. AddLine(ListOf(marks, so, files), line)
          = ListOf(marks, [so EXCEPT ![k] = Append(@, x)], files)
    <3>1. line.kind = k /\ line.entry = x
      OBVIOUS
    <3> HIDE DEF so, line
    <3>2. QED
      BY <3>1, AddRuleLine
  <2>4. [so EXCEPT ![k] = Append(@, x)] = [rules EXCEPT ![k] = more] /\ more \in Seq(Rule)
    <3>1. more \in Seq(Rule)
      OBVIOUS
    <3> HIDE DEF more
    <3>2. so[k] = t
      BY DEF RuleLists
    <3>3. [so EXCEPT ![k] = more] = [rules EXCEPT ![k] = more]
      BY DEF RuleLists
    <3>4. QED
      BY <3>1, <3>2, <3>3 DEF more
  <2> HIDE DEF line, lines, more, so, d
  <2>5. ReadInto(d, Append(lines, line)) = AddLine(ReadInto(d, lines), line)
    BY <2>1, ReadOneMore
  <2>6. ReadInto(d, Lines(k, more)) = ListOf(marks, [rules EXCEPT ![k] = more], files)
    BY <2>1, <2>2, <2>3, <2>4, <2>5, Zenon
  <2>7. QED
    BY <2>4, <2>6 DEF d, more
<1>3. \A t \in Seq(Rule) : t \in Q
  <2> HIDE DEF Q
  <2>1. QED
    BY <1>1, <1>2, ParseLoop!ListInduction
<1>4. QED
  BY <1>3

(* The text of a list is read as that list.                                *)
LEMMA RoundTrip ==
  ASSUME NEW d \in Lists
  PROVE  Parse(Serialize(d)) = d
<1> DEFINE marks == d.marks
           rules == d.rules
           files == d.files
           ms == Lines("mark", marks)
           ns == Lines("name", RulesOf(d, "name"))
           ps == Lines("path", RulesOf(d, "path"))
           fs == Lines("file", files)
           none == [k \in RuleKind |-> <<>>]
           names == [k \in RuleKind |-> IF k = "name" THEN rules[k] ELSE <<>>]
<1>1. marks \in Seq(ManualMark) /\ files \in Seq(FileMark) /\ rules \in RuleLists
  BY DEF Lists, RuleLists
<1>2. RulesOf(d, "name") \in Seq(Rule) /\ RulesOf(d, "path") \in Seq(Rule)
  BY <1>1 DEF RulesOf, RuleLists
<1>3. ms \in Seq(TextLine) /\ ns \in Seq(TextLine) /\ ps \in Seq(TextLine) /\ fs \in Seq(TextLine)
  BY <1>1, <1>2, LinesFacts
<1>4. none \in RuleLists /\ names \in RuleLists
  BY <1>1 DEF RuleLists
<1>5. \A k : k \notin RuleKind => Lines(k, RulesOf(d, k)) = <<>>
  BY DEF RulesOf, Lines
<1>6. ReadInto(NoData, ms) = ListOf(marks, none, <<>>)
  <2>1. <<>> \o marks = marks /\ <<>> \in Seq(ManualMark)
    BY <1>1
  <2>2. ReadInto(ListOf(<<>>, none, <<>>), ms) = ListOf(<<>> \o marks, none, <<>>)
    BY <1>1, <1>4, <2>1, ReadMarkLines
  <2>3. QED
    BY <2>1, <2>2, ListParts
<1>7. ReadInto(ListOf(marks, none, <<>>), ns) = ListOf(marks, names, <<>>)
  <2>1. CASE "name" \in RuleKind
    <3>1. none["name"] = <<>> /\ RulesOf(d, "name") = rules["name"]
      BY <2>1 DEF RulesOf
    <3>2. [none EXCEPT !["name"] = rules["name"]] = names
      BY <2>1
    <3> HIDE DEF none, names, rules, marks
    <3>3. QED
      BY <1>2, <1>4, <2>1, <3>1, <3>2, ReadRuleLines
  <2>2. CASE "name" \notin RuleKind
    <3>1. names = none /\ ns = <<>>
      BY <1>5, <2>2
    <3>2. QED
      BY <3>1, ReadNone
  <2>3. QED
    BY <2>1, <2>2
<1>8. ReadInto(ListOf(marks, names, <<>>), ps) = ListOf(marks, rules, <<>>)
  <2>1. CASE "path" \in RuleKind
    <3>1. names["path"] = <<>> /\ RulesOf(d, "path") = rules["path"]
      BY <2>1 DEF RulesOf
    <3>2. [names EXCEPT !["path"] = rules["path"]] = rules
      BY <1>1, <2>1, ConstantFacts DEF RuleLists
    <3> HIDE DEF names, rules, marks
    <3>3. QED
      BY <1>2, <1>4, <2>1, <3>1, <3>2, ReadRuleLines
  <2>2. CASE "path" \notin RuleKind
    <3>1. names = rules /\ ps = <<>>
      BY <1>1, <1>5, <2>2, ConstantFacts DEF RuleLists
    <3>2. QED
      BY <3>1, ReadNone
  <2>3. QED
    BY <2>1, <2>2
<1>9. ReadInto(ListOf(marks, rules, <<>>), fs) = d
  <2>1. <<>> \o files = files /\ <<>> \in Seq(FileMark)
    BY <1>1
  <2>2. ReadInto(ListOf(marks, rules, <<>>), fs) = ListOf(marks, rules, <<>> \o files)
    BY <1>1, <2>1, ReadFileLines
  <2>3. QED
    BY <2>1, <2>2, ListParts
<1>10. Serialize(d) = ((ms \o ns) \o ps) \o fs
  BY DEF Serialize
<1> HIDE DEF ms, ns, ps, fs, marks, rules, files, none, names
<1> DEFINE some == ms \o ns
           most == some \o ps
<1>11. some \in Seq(TextLine) /\ most \in Seq(TextLine)
  BY <1>3
<1>12. ReadInto(NoData, some) = ListOf(marks, names, <<>>)
  BY <1>3, <1>6, <1>7, ReadConcat
<1> HIDE DEF some
<1>13. ReadInto(NoData, most) = ListOf(marks, rules, <<>>)
  BY <1>3, <1>8, <1>11, <1>12, ReadConcat
<1> HIDE DEF most
<1>14. ReadInto(NoData, most \o fs) = d
  BY <1>3, <1>9, <1>11, <1>13, ReadConcat
<1>15. QED
  BY <1>10, <1>14, ReadIsLoop DEF most, some
-----------------------------------------------------------------------------
(* What an edit makes of a list: a list again, with its keys unique, in    *)
(* which only the marks it is about have changed.                          *)

LEMMA ReplaceMarks ==
  ASSUME NEW d \in Lists, UniqueKeys(d), NEW marks \in Seq(ManualMark), Distinct(MarkKey, marks)
  PROVE  LET new == [d EXCEPT !.marks = marks]
         IN new \in Lists /\ UniqueKeys(new) /\ new.marks = marks
<1> DEFINE new == [d EXCEPT !.marks = marks]
<1>1. new \in Lists /\ new.marks = marks /\ new.rules = d.rules
  BY DEF Lists
<1> HIDE DEF new
<1>2. UniqueKeys(new)
  BY <1>1, UniqueByKey
<1>3. QED
  BY <1>1, <1>2 DEF new

LEMMA ReplaceFiles ==
  ASSUME NEW d \in Lists, UniqueKeys(d), NEW files \in Seq(FileMark)
  PROVE  LET new == [d EXCEPT !.files = files]
         IN new \in Lists /\ UniqueKeys(new) /\ new.marks = d.marks
<1> DEFINE new == [d EXCEPT !.files = files]
<1>1. new \in Lists /\ new.marks = d.marks /\ new.rules = d.rules
  BY DEF Lists
<1> HIDE DEF new
<1>2. UniqueKeys(new)
  BY <1>1, UniqueByKey
<1>3. QED
  BY <1>1, <1>2 DEF new

LEMMA ReplaceRules ==
  ASSUME NEW d \in Lists, UniqueKeys(d), NEW k \in RuleKind, NEW rules \in Seq(Rule),
         Distinct(RuleKey, rules)
  PROVE  LET new == [d EXCEPT !.rules[k] = rules]
         IN new \in Lists /\ UniqueKeys(new) /\ new.marks = d.marks
<1> DEFINE new == [d EXCEPT !.rules[k] = rules]
<1>1. /\ new \in Lists /\ new.marks = d.marks
      /\ \A j \in RuleKind : new.rules[j] = IF j = k THEN rules ELSE d.rules[j]
  BY DEF Lists
<1> HIDE DEF new
<1>2. UniqueKeys(new)
  BY <1>1, UniqueByKey
<1>3. QED
  BY <1>1, <1>2 DEF new

LEMMA SetMarkFacts ==
  ASSUME NEW d \in Lists, UniqueKeys(d), NEW usr \in Usr, NEW external \in BOOLEAN
  PROVE  /\ SetMark(d, usr, external) \in Lists
         /\ UniqueKeys(SetMark(d, usr, external))
         /\ ToSet(SetMark(d, usr, external).marks)
              = {m \in ToSet(d.marks) : m.usr # usr} \cup {[usr |-> usr, external |-> external]}
<1> DEFINE mark == [usr |-> usr, external |-> external]
           T == {m \in ToSet(d.marks) : m.usr # usr}
           others == Keep(d.marks, T)
           longer == Append(others, mark)
           sorted == SortBy(MarkKey, longer)
<1>1. d.marks \in Seq(ManualMark) /\ mark \in ManualMark /\ mark.usr = usr
  BY DEF Lists, ManualMark
<1>2. SetMark(d, usr, external) = [d EXCEPT !.marks = sorted]
  BY DEF SetMark, MarkKey
<1>3. MarkKey \in [ManualMark -> Nat] /\ \A m \in ManualMark : MarkKey[m] = m.usr
  BY KeyTypes DEF MarkKey
<1>4. Distinct(MarkKey, d.marks)
  BY UniqueByKey
<1> HIDE DEF mark
<1>5. others \in Seq(ManualMark) /\ ToSet(others) = T /\ Distinct(MarkKey, others)
  BY <1>1, <1>4, KeepElements, KeepDistinct
<1> HIDE DEF others
<1>6. MarkKey[mark] \notin Keys(MarkKey, others)
  <2>1. T \subseteq ManualMark
    BY <1>1 DEF ToSet
  <2>2. QED
    BY <1>1, <1>3, <1>5, <2>1 DEF Keys
<1>7. longer \in Seq(ManualMark) /\ ToSet(longer) = T \cup {mark} /\ Distinct(MarkKey, longer)
  BY <1>1, <1>5, <1>6, ElementsAppend, DistinctAppend
<1> HIDE DEF longer
<1>8. /\ sorted \in Seq(ManualMark) /\ ToSet(sorted) = T \cup {mark}
      /\ Distinct(MarkKey, sorted)
  BY <1>3, <1>7, SortElements
<1> HIDE DEF sorted
<1>9. QED
  BY <1>2, <1>8, ReplaceMarks DEF mark

LEMMA SetFileMarkFacts ==
  ASSUME NEW d \in Lists, UniqueKeys(d), NEW file \in File, NEW external \in BOOLEAN
  PROVE  /\ SetFileMark(d, file, external) \in Lists
         /\ UniqueKeys(SetFileMark(d, file, external))
         /\ SetFileMark(d, file, external).marks = d.marks
<1> DEFINE mark == [file |-> file]
           others == Keep(d.files, {m \in ToSet(d.files) : m.file # file})
           sorted == SortBy(FileKey, Append(others, mark))
           files == IF external THEN sorted ELSE others
<1>1. d.files \in Seq(FileMark) /\ mark \in FileMark
  BY DEF Lists, FileMark
<1>2. SetFileMark(d, file, external) = [d EXCEPT !.files = files]
  BY DEF SetFileMark, FileKey
<1> HIDE DEF mark
<1>3. others \in Seq(FileMark)
  BY <1>1, KeepElements
<1> HIDE DEF others
<1>4. Append(others, mark) \in Seq(FileMark)
  BY <1>1, <1>3
<1>5. sorted \in Seq(FileMark)
  BY <1>4, KeyTypes, SortElements
<1> HIDE DEF sorted
<1>6. files \in Seq(FileMark)
  BY <1>3, <1>5
<1> HIDE DEF files
<1>7. QED
  BY <1>2, <1>6, ReplaceFiles

(* There is a highest id.                                                  *)
LEMMA HighestId ==
  ASSUME NEW s \in Seq(Rule)
  PROVE  \E m \in {0} \cup {s[i].id : i \in DOMAIN s} :
           m \in Nat /\ \A i \in DOMAIN s : s[i].id \in Nat /\ m >= s[i].id
<1> DEFINE Q == {r \in Seq(Rule) : \E m \in {0} \cup {r[i].id : i \in DOMAIN r} :
                   m \in Nat /\ \A i \in DOMAIN r : r[i].id \in Nat /\ m >= r[i].id}
<1>1. <<>> \in Q
  OBVIOUS
<1>2. ASSUME NEW r \in Seq(Rule), NEW x \in Rule, r \in Q
      PROVE  Append(r, x) \in Q
  <2> DEFINE t == Append(r, x)
             n == Len(r)
  <2>1. /\ n \in Nat /\ t \in Seq(Rule) /\ DOMAIN r = 1 .. n /\ DOMAIN t = 1 .. n + 1
        /\ t[n + 1] = x /\ \A i \in 1 .. n : t[i] = r[i]
    OBVIOUS
  <2>2. x.id \in Nat
    BY DEF Rule
  <2>3. PICK m \in {0} \cup {r[i].id : i \in DOMAIN r} :
              m \in Nat /\ \A i \in DOMAIN r : r[i].id \in Nat /\ m >= r[i].id
    BY <1>2
  <2> HIDE DEF t, n
  <2>4. \A i \in 1 .. n + 1 : i \in 1 .. n \/ i = n + 1
    BY <2>1
  <2>5. n + 1 \in 1 .. n + 1 /\ \A i \in 1 .. n : i \in 1 .. n + 1
    BY <2>1
  <2>6. CASE m >= x.id
    <3>1. m \in {0} \cup {t[i].id : i \in DOMAIN t}
      BY <2>1, <2>3, <2>5
    <3>2. \A i \in DOMAIN t : t[i].id \in Nat /\ m >= t[i].id
      BY <2>1, <2>2, <2>3, <2>4, <2>6
    <3>3. QED
      BY <2>1, <2>3, <3>1, <3>2 DEF t
  <2>7. CASE x.id > m
    <3>1. x.id \in {0} \cup {t[i].id : i \in DOMAIN t}
      BY <2>1, <2>5
    <3>2. \A i \in DOMAIN t : t[i].id \in Nat /\ x.id >= t[i].id
      BY <2>1, <2>2, <2>3, <2>4, <2>7
    <3>3. QED
      BY <2>1, <2>2, <3>1, <3>2 DEF t
  <2>8. QED
    BY <2>2, <2>3, <2>6, <2>7
<1>3. \A r \in Seq(Rule) : r \in Q
  <2> HIDE DEF Q
  <2>1. QED
    BY <1>1, <1>2, ParseLoop!ListInduction
<1>4. QED
  BY <1>3

LEMMA NextIdIsNew ==
  ASSUME NEW s \in Seq(Rule)
  PROVE  NextId(s) \in Nat /\ \A i \in DOMAIN s : NextId(s) # s[i].id
<1> DEFINE ids == {0} \cup {s[i].id : i \in DOMAIN s}
           highest == Max(ids)
<1>1. ids \subseteq Nat
  BY HighestId
<1>2. PICK m \in ids : \A y \in ids : m >= y
  BY HighestId
<1>3. highest \in ids /\ \A y \in ids : highest >= y
  <2> HIDE DEF ids
  <2>1. QED
    BY <1>2 DEF Max
<1>4. NextId(s) = highest + 1
  BY DEF NextId
<1> HIDE DEF highest
<1>5. highest \in Nat /\ \A i \in DOMAIN s : s[i].id \in Nat /\ highest >= s[i].id
  BY <1>1, <1>3
<1>6. QED
  BY <1>4, <1>5

LEMMA AddRuleFacts ==
  ASSUME NEW d \in Lists, UniqueKeys(d), NEW k \in RuleKind, NEW pattern \in Pattern
  PROVE  /\ AddRule(d, k, pattern) \in Lists
         /\ UniqueKeys(AddRule(d, k, pattern))
         /\ AddRule(d, k, pattern).marks = d.marks
<1> DEFINE rules == d.rules[k]
           rule == [id |-> NextId(rules), pattern |-> pattern]
           longer == Append(rules, rule)
<1>1. rules \in Seq(Rule)
  BY DEF Lists
<1>2. Distinct(RuleKey, rules)
  BY UniqueByKey
<1>3. AddRule(d, k, pattern) = [d EXCEPT !.rules[k] = longer]
  BY DEF AddRule, Lists
<1> HIDE DEF rules
<1>4. rule \in Rule /\ RuleKey[rule] = NextId(rules)
  BY <1>1, NextIdIsNew DEF Rule, RuleKey
<1> HIDE DEF rule
<1>5. RuleKey[rule] \notin Keys(RuleKey, rules)
  <2>1. \A i \in DOMAIN rules : RuleKey[rules[i]] = rules[i].id
    BY <1>1 DEF RuleKey
  <2>2. QED
    BY <1>1, <1>4, <2>1, NextIdIsNew DEF Keys, ToSet
<1>6. longer \in Seq(Rule) /\ Distinct(RuleKey, longer)
  BY <1>1, <1>2, <1>4, <1>5, DistinctAppend, ElementsAppend
<1> HIDE DEF longer
<1>7. QED
  BY <1>3, <1>6, ReplaceRules

LEMMA RemoveRuleFacts ==
  ASSUME NEW d \in Lists, UniqueKeys(d), NEW k \in RuleKind, NEW id
  PROVE  /\ RemoveRule(d, k, id) \in Lists
         /\ UniqueKeys(RemoveRule(d, k, id))
         /\ RemoveRule(d, k, id).marks = d.marks
<1> DEFINE rules == d.rules[k]
           T == {rule \in ToSet(rules) : rule.id # id}
           left == Keep(rules, T)
<1>1. rules \in Seq(Rule)
  BY DEF Lists
<1>2. Distinct(RuleKey, rules)
  BY UniqueByKey
<1>3. RemoveRule(d, k, id) = [d EXCEPT !.rules[k] = left]
  BY DEF RemoveRule, Lists
<1> HIDE DEF rules, T
<1>4. left \in Seq(Rule) /\ Distinct(RuleKey, left)
  BY <1>1, <1>2, KeepElements, KeepDistinct
<1> HIDE DEF left
<1>5. QED
  BY <1>3, <1>4, ReplaceRules

LEMMA PruneFacts ==
  ASSUME NEW d \in Lists, UniqueKeys(d), NEW valid
  PROVE  /\ PruneMarks(d, valid) \in Lists
         /\ UniqueKeys(PruneMarks(d, valid))
         /\ ToSet(PruneMarks(d, valid).marks) = {m \in ToSet(d.marks) : m.usr \in valid}
         /\ PruneFileMarks(d, valid) \in Lists
         /\ UniqueKeys(PruneFileMarks(d, valid))
         /\ PruneFileMarks(d, valid).marks = d.marks
<1> DEFINE T == {m \in ToSet(d.marks) : m.usr \in valid}
           U == {m \in ToSet(d.files) : m.file \in valid}
           marks == Keep(d.marks, T)
           files == Keep(d.files, U)
<1>1. /\ d.marks \in Seq(ManualMark) /\ d.files \in Seq(FileMark)
      /\ PruneMarks(d, valid) = [d EXCEPT !.marks = marks]
      /\ PruneFileMarks(d, valid) = [d EXCEPT !.files = files]
  BY DEF Lists, PruneMarks, PruneFileMarks
<1>2. Distinct(MarkKey, d.marks)
  BY UniqueByKey
<1>3. marks \in Seq(ManualMark) /\ ToSet(marks) = T /\ Distinct(MarkKey, marks)
  BY <1>1, <1>2, KeepElements, KeepDistinct
<1>4. files \in Seq(FileMark)
  BY <1>1, KeepElements
<1> HIDE DEF marks, files
<1>5. QED
  BY <1>1, <1>3, <1>4, ReplaceMarks, ReplaceFiles

Asked == Atomic!Asked

LEMMA ApplyFacts ==
  ASSUME NEW d \in Lists, UniqueKeys(d), NEW e \in Asked
  PROVE  /\ Apply(d, e) \in Lists
         /\ UniqueKeys(Apply(d, e))
         /\ e.op # "migrate"
         /\ IF e.op = "mark"
              THEN /\ e.usr \in Usr /\ e.external \in BOOLEAN
                   /\ ToSet(Apply(d, e).marks)
                        = {m \in ToSet(d.marks) : m.usr # e.usr}
                            \cup {[usr |-> e.usr, external |-> e.external]}
            ELSE IF e.op = "pruneMarks"
              THEN ToSet(Apply(d, e).marks) = {m \in ToSet(d.marks) : m.usr \in e.valid}
            ELSE Apply(d, e).marks = d.marks
<1>1. CASE e \in [op : {"mark"}, usr : Usr, external : BOOLEAN]
  <2>1. e.op = "mark" /\ e.usr \in Usr /\ e.external \in BOOLEAN
    BY <1>1
  <2>2. Apply(d, e) = SetMark(d, e.usr, e.external)
    BY <2>1 DEF Apply
  <2>3. QED
    BY <2>1, <2>2, SetMarkFacts
<1>2. CASE e \in [op : {"file"}, file : File, external : BOOLEAN]
  <2>1. e.op = "file" /\ e.file \in File /\ e.external \in BOOLEAN
    BY <1>2
  <2>2. Apply(d, e) = SetFileMark(d, e.file, e.external)
    BY <2>1 DEF Apply
  <2>3. QED
    BY <2>1, <2>2, SetFileMarkFacts
<1>3. CASE e \in [op : {"add"}, kind : RuleKind, pattern : Pattern]
  <2>1. e.op = "add" /\ e.kind \in RuleKind /\ e.pattern \in Pattern
    BY <1>3
  <2>2. Apply(d, e) = AddRule(d, e.kind, e.pattern)
    BY <2>1 DEF Apply
  <2>3. QED
    BY <2>1, <2>2, AddRuleFacts
<1>4. CASE e \in [op : {"remove"}, kind : RuleKind, id : 1 .. MaxId]
  <2>1. e.op = "remove" /\ e.kind \in RuleKind
    BY <1>4
  <2>2. Apply(d, e) = RemoveRule(d, e.kind, e.id)
    BY <2>1 DEF Apply
  <2>3. QED
    BY <2>1, <2>2, RemoveRuleFacts
<1>5. CASE e \in [op : {"pruneMarks"}, valid : SUBSET Usr]
  <2>1. e.op = "pruneMarks"
    BY <1>5
  <2>2. Apply(d, e) = PruneMarks(d, e.valid)
    BY <2>1 DEF Apply
  <2>3. QED
    BY <2>1, <2>2, PruneFacts
<1>6. CASE e \in [op : {"pruneFiles"}, valid : SUBSET File]
  <2>1. e.op = "pruneFiles"
    BY <1>6
  <2>2. Apply(d, e) = PruneFileMarks(d, e.valid)
    BY <2>1 DEF Apply
  <2>3. QED
    BY <2>1, <2>2, PruneFacts
<1>7. QED
  BY <1>1, <1>2, <1>3, <1>4, <1>5, <1>6 DEF Asked, Atomic!Asked

LEMMA MigrationFacts ==
  Head(Open).op = "migrate" /\ ~(Len(Open) > 1) /\ \A d : Apply(d, Head(Open)) = Legacy
<1>1. Head(Open) = [op |-> "migrate"] /\ Len(Open) = 1
  BY DEF Open
<1>2. ASSUME NEW d
      PROVE  Apply(d, [op |-> "migrate"]) = Legacy
  BY DEF Apply
<1>3. QED
  BY <1>1, <1>2

LEMMA SerializeType ==
  ASSUME NEW d \in Lists
  PROVE  Serialize(d) \in Seq(TextLine)
<1>1. d.marks \in Seq(ManualMark) /\ d.files \in Seq(FileMark)
  BY DEF Lists
<1>2. RulesOf(d, "name") \in Seq(Rule) /\ RulesOf(d, "path") \in Seq(Rule)
  BY DEF Lists, RulesOf
<1> DEFINE ms == Lines("mark", d.marks)
           ns == Lines("name", RulesOf(d, "name"))
           ps == Lines("path", RulesOf(d, "path"))
           fs == Lines("file", d.files)
<1>3. ms \in Seq(TextLine) /\ ns \in Seq(TextLine) /\ ps \in Seq(TextLine) /\ fs \in Seq(TextLine)
  BY <1>1, <1>2, LinesFacts
<1>4. Serialize(d) = ms \o ns \o ps \o fs
  BY DEF Serialize
<1> HIDE DEF ms, ns, ps, fs
<1>5. QED
  BY <1>3, <1>4

(* Text written into a file that was just truncated is all there is in it. *)
LEMMA OverwriteEmpty ==
  ASSUME NEW S, NEW s \in Seq(S)
  PROVE  Overwrite(s, <<>>) = s
<1>1. SubSeq(<<>>, Len(s) + 1, Len(<<>>)) = <<>>
  OBVIOUS
<1>2. s \o <<>> = s
  OBVIOUS
<1>3. QED
  BY <1>1, <1>2 DEF Overwrite

-----------------------------------------------------------------------------
(* The requests are lists of edits.                                        *)

(* A finite set can be listed, and SetToSeq does it.                       *)
LEMMA ListedSet ==
  ASSUME NEW S, IsFiniteSet(S), S # {}
  PROVE  SetToSeq(S) \in Seq(S) /\ SetToSeq(S) # <<>>
<1> DEFINE n == Cardinality(S)
<1>1. n \in Nat /\ n # 0
  BY FS_CardinalityType, FS_EmptySet
<1>2. \E f \in [1 .. n -> S] : IsInjective(f)
  BY FS_CardinalityType DEF ExistsBijection, Bijection, Injection
<1> HIDE DEF n
<1> DEFINE s == SetToSeq(S)
<1>3. s \in [1 .. n -> S]
  BY <1>2 DEF SetToSeq, n
<1> HIDE DEF s
<1>4. s \in Seq(S) /\ Len(s) = n
  BY <1>1, <1>3
<1>5. QED
  BY <1>1, <1>4 DEF s

LEMMA ExpandedMark ==
  ASSUME NEW type \in Usr, NEW methods \in SUBSET Usr
  PROVE  ExpandTypeMark(type, methods) \in Seq(Usr) /\ ExpandTypeMark(type, methods) # <<>>
<1> DEFINE S == {type} \cup methods
           s == SetToSeq(S)
           key == [u \in Usr |-> u]
<1>1. S \in SUBSET Usr /\ S # {}
  OBVIOUS
<1>2. IsFiniteSet(S)
  BY <1>1, ConstantFacts, FS_Subset
<1>3. key \in [Usr -> Nat]
  BY ConstantFacts
<1> HIDE DEF S
<1>4. s \in Seq(S) /\ s # <<>>
  BY <1>1, <1>2, ListedSet
<1> HIDE DEF s
<1>5. s \in Seq(Usr)
  BY <1>1, <1>4
<1>6. ToSet(s) # {}
  BY <1>5, <1>4, NoElements
<1>7. SortBy(key, s) \in Seq(Usr) /\ ToSet(SortBy(key, s)) # {}
  BY <1>3, <1>5, <1>6, SortElements
<1>8. ExpandTypeMark(type, methods) = SortBy(key, s)
  BY DEF ExpandTypeMark, S, s
<1> HIDE DEF key
<1>9. QED
  BY <1>7, <1>8, ElementsEmpty

LEMMA RequestFacts ==
  ASSUME NEW r \in Request
  PROVE  r \in Seq(Asked) /\ r # <<>>
<1>1. ASSUME NEW e \in Asked, r = <<e>>
      PROVE  r \in Seq(Asked) /\ r # <<>>
  BY <1>1
<1>2. \A u \in Usr, x \in BOOLEAN : Mark(u, x) \in Asked
  BY DEF Mark, Asked, Atomic!Asked
<1>3. CASE r \in {<<Mark(u, x)>> : u \in Usr, x \in BOOLEAN}
  <2>1. PICK u \in Usr, x \in BOOLEAN : r = <<Mark(u, x)>>
    BY <1>3
  <2> DEFINE e == Mark(u, x)
  <2>2. e \in Asked /\ r = <<e>>
    BY <1>2, <2>1
  <2> HIDE DEF e
  <2>3. QED
    BY <1>1, <2>2
<1>4. CASE r \in {MarkType(type, methods) : type \in Usr, methods \in SUBSET Usr}
  <2>1. PICK type \in Usr, methods \in SUBSET Usr : r = MarkType(type, methods)
    BY <1>4
  <2> DEFINE usrs == ExpandTypeMark(type, methods)
             marks == [u \in Usr |-> Mark(u, TRUE)]
  <2>2. usrs \in Seq(Usr) /\ usrs # <<>>
    BY ExpandedMark
  <2>3. r = [i \in DOMAIN usrs |-> Mark(usrs[i], TRUE)]
    BY <2>1 DEF MarkType
  <2> HIDE DEF usrs
  <2>4. \A i \in DOMAIN usrs : usrs[i] \in Usr
    BY <2>2
  <2>5. \A i \in DOMAIN usrs : r[i] \in Asked
    BY <1>2, <2>3, <2>4
  <2>6. DOMAIN r = 1 .. Len(usrs) /\ Len(usrs) \in Nat /\ Len(usrs) # 0 /\ DOMAIN usrs = 1 .. Len(usrs)
    BY <2>2, <2>3
  <2>7. r = [i \in 1 .. Len(usrs) |-> r[i]]
    BY <2>3, <2>6
  <2>8. r \in Seq(Asked) /\ Len(r) = Len(usrs)
    BY <2>5, <2>6, <2>7
  <2>9. QED
    BY <2>6, <2>8
<1>5. CASE r \in {<<e>> : e \in [op : {"file"}, file : File, external : BOOLEAN]}
  <2>1. PICK e \in [op : {"file"}, file : File, external : BOOLEAN] : r = <<e>>
    BY <1>5
  <2>2. e \in Asked
    BY DEF Asked, Atomic!Asked
  <2>3. QED
    BY <1>1, <2>1, <2>2
<1>6. CASE r \in {<<e>> : e \in
                    [op : {"add"}, kind : {k \in EditedKind : MayAdd(k)}, pattern : Pattern]}
  <2>1. PICK e \in [op : {"add"}, kind : {k \in EditedKind : MayAdd(k)}, pattern : Pattern] :
             r = <<e>>
    BY <1>6
  <2>2. e \in Asked
    BY BoundAssumption DEF Asked, Atomic!Asked
  <2>3. QED
    BY <1>1, <2>1, <2>2
<1>7. CASE r \in {<<e>> : e \in [op : {"remove"}, kind : EditedKind, id : 1 .. MaxId]}
  <2>1. PICK e \in [op : {"remove"}, kind : EditedKind, id : 1 .. MaxId] : r = <<e>>
    BY <1>7
  <2>2. e \in Asked
    BY BoundAssumption DEF Asked, Atomic!Asked
  <2>3. QED
    BY <1>1, <2>1, <2>2
<1>8. CASE r \in {PruneAll(us, fs) : us \in SUBSET Usr, fs \in SUBSET File}
  <2>1. PICK us \in SUBSET Usr, fs \in SUBSET File : r = PruneAll(us, fs)
    BY <1>8
  <2> DEFINE first == [op |-> "pruneMarks", valid |-> us]
             second == [op |-> "pruneFiles", valid |-> fs]
  <2>2. first \in Asked /\ second \in Asked /\ r = <<first, second>>
    BY <2>1 DEF PruneAll, Asked, Atomic!Asked
  <2> HIDE DEF first, second
  <2>3. QED
    BY <2>2
<1>9. QED
  BY <1>3, <1>4, <1>5, <1>6, <1>7, <1>8 DEF Request

-----------------------------------------------------------------------------
OneWriter == \E w : Client = {w}

\* The two names never lead to one inode, and what a reader finds is a list.
FileInv ==
  /\ main \in {0} \cup Inode /\ tmp \in {0} \cup Inode /\ (main # 0 => main # tmp)
  /\ content \in [Inode -> Seq(TextLine)]
  /\ Data \in Lists /\ UniqueKeys(Data)

\* Until the old tables are dropped nothing but them is in the file.
LegacyInv == legacy \in BOOLEAN /\ (legacy /\ main # 0 => Data = Legacy)

\* What is under way: the migration, or requests about a migrated project.
TodoInv(c) ==
  client[c].pc # "idle" =>
    \/ legacy /\ client[c].todo = Open
    \/ ~legacy /\ client[c].todo \in Seq(Asked) /\ client[c].todo # <<>>

\* The temporary file is empty or holds the whole list to be, which is the
\* edit applied to what is still in the file.
DraftInv(c) ==
  LET pc == client[c].pc
      draft == client[c].draft
  IN /\ pc \in {"idle", "read", "create", "write", "rename", "drop"}
     /\ pc \in {"create", "write", "rename"} =>
          /\ draft \in Lists /\ UniqueKeys(draft)
          /\ draft = Apply(Data, Head(client[c].todo))
          /\ legacy => main = 0
     /\ IF pc = "write" THEN client[c].fd = tmp /\ tmp # 0 /\ content[tmp] = <<>>
        ELSE client[c].fd = 0
     /\ pc = "rename" => tmp # 0 /\ content[tmp] = Serialize(draft)
     /\ pc = "drop" => legacy /\ Data = Legacy

\* What was decided is in the file, also while it is being decided anew.
DecidedInv ==
  /\ decided \in [Usr -> {"include", "exclude", Undecided}]
  /\ \A u \in Usr : decided[u] # Undecided =>
       \E m \in ToSet(Data.marks) : m.usr = u /\ Word(m.external) = decided[u]

StoreInv ==
  /\ FileInv /\ LegacyInv /\ DecidedInv
  /\ client = [c \in Client |-> client[c]]
  /\ \A c \in Client : TodoInv(c) /\ DraftInv(c)
-----------------------------------------------------------------------------
(* StoreInv holds initially, and every step of the one writer keeps it.    *)

LEMMA Inodes ==
  ASSUME OneWriter
  PROVE  Inode = 1 .. 3
<1>1. PICK w : Client = {w}
  BY DEF OneWriter
<1>2. Cardinality(Client) = 1
  BY <1>1, FS_Singleton
<1>3. QED
  BY <1>2 DEF Inode

LEMMA StoreInvInit ==
  ASSUME OneWriter, Init
  PROVE  StoreInv
<1>1. Data = NoData /\ main = 0 /\ tmp = 0
  BY DEF Init, Data
<1>2. FileInv
  BY <1>1, NoDataFacts DEF Init, FileInv
<1>3. LegacyInv
  BY <1>1 DEF Init, LegacyInv
<1>4. DecidedInv
  BY DEF Init, DecidedInv, Undecided
<1>5. ASSUME NEW c \in Client
      PROVE  TodoInv(c) /\ DraftInv(c)
  <2>1. client[c] = Idle
    BY DEF Init
  <2>2. QED
    BY <2>1 DEF TodoInv, DraftInv, Idle
<1>6. client = [c \in Client |-> client[c]]
  BY DEF Init
<1>7. QED
  BY <1>2, <1>3, <1>4, <1>5, <1>6 DEF StoreInv

\* What a step of the writer has to show of where the writer is after it.
LEMMA WriterMoves ==
  ASSUME NEW c, Client = {c}, NEW next, client = [k \in Client |-> client[k]],
         client' = [client EXCEPT ![c] = next]
  PROVE  client'[c] = next /\ client' = [k \in Client |-> client'[k]]
OBVIOUS

LEMMA FileUntouched ==
  ASSUME StoreInv, UNCHANGED <<main, tmp, content, legacy>>
  PROVE  Data' = Data /\ FileInv' /\ LegacyInv' /\ (UNCHANGED decided => DecidedInv')
<1>1. Data' = Data
  BY DEF Data
<1>2. FileInv' /\ LegacyInv'
  BY <1>1 DEF StoreInv, FileInv, LegacyInv
<1>3. UNCHANGED decided => DecidedInv'
  BY <1>1 DEF StoreInv, DecidedInv
<1>4. QED
  BY <1>1, <1>2, <1>3

LEMMA AfterEditFacts ==
  ASSUME NEW c, TodoInv(c), client[c].pc # "idle"
  PROVE  /\ AfterEdit(c).pc \in {"idle", "read", "drop"}
         /\ AfterEdit(c).fd = 0
         /\ AfterEdit(c).pc = "read" => /\ ~legacy
                                        /\ AfterEdit(c).todo \in Seq(Asked)
                                        /\ AfterEdit(c).todo # <<>>
         /\ AfterEdit(c).pc = "drop" <=> client[c].todo = Open /\ legacy
         /\ AfterEdit(c).pc = "drop" => AfterEdit(c).todo = Open
<1> DEFINE todo == client[c].todo
<1>1. CASE legacy /\ todo = Open
  <2>1. Head(todo).op = "migrate" /\ ~(Len(todo) > 1)
    BY <1>1, MigrationFacts
  <2>2. ASSUME NEW t, t = client[c].todo, Head(t).op = "migrate", ~(Len(t) > 1)
        PROVE  AfterEdit(c) = [Idle EXCEPT !.pc = "drop", !.todo = t]
    BY <2>2 DEF AfterEdit
  <2>3. AfterEdit(c) = [Idle EXCEPT !.pc = "drop", !.todo = todo]
    BY <2>1, <2>2
  <2> HIDE DEF todo
  <2>4. AfterEdit(c).pc = "drop" /\ AfterEdit(c).todo = todo /\ AfterEdit(c).fd = 0
    BY <2>3 DEF Idle
  <2>5. QED
    BY <1>1, <2>4 DEF todo
<1>2. CASE ~legacy /\ todo \in Seq(Asked) /\ todo # <<>>
  <2>1. Head(todo) \in Asked
    BY <1>2
  <2>2. Head(todo).op # "migrate"
    BY <2>1, NoDataFacts, ApplyFacts
  <2>3. AfterEdit(c) = IF Len(todo) > 1 THEN [Idle EXCEPT !.pc = "read", !.todo = Tail(todo)]
                       ELSE Idle
    BY <2>2 DEF AfterEdit
  <2>4. Len(todo) > 1 => Tail(todo) \in Seq(Asked) /\ Tail(todo) # <<>>
    <3>1. ASSUME NEW s \in Seq(Asked), Len(s) > 1
          PROVE  Tail(s) \in Seq(Asked) /\ Tail(s) # <<>>
      BY <3>1
    <3>2. QED
      BY <1>2, <3>1
  <2> HIDE DEF todo
  <2>5. QED
    BY <1>2, <2>3, <2>4 DEF Idle
<1>3. QED
  BY <1>1, <1>2 DEF TodoInv

LEMMA BeginStep ==
  ASSUME NEW c, Client = {c}, StoreInv, Begin(c)
  PROVE  StoreInv' /\ Data' = Data
<1>1. Data' = Data /\ FileInv' /\ LegacyInv' /\ DecidedInv' /\ legacy' = legacy
  BY FileUntouched DEF Begin
<1>2. PICK r \in IF legacy THEN {Open} ELSE Request :
             client' = [client EXCEPT ![c] = [Idle EXCEPT !.pc = "read", !.todo = r]]
  BY DEF Begin
<1>3. /\ client'[c] = [Idle EXCEPT !.pc = "read", !.todo = r]
      /\ client' = [k \in Client |-> client'[k]]
  BY <1>2, WriterMoves DEF StoreInv
<1>4. client'[c].pc = "read" /\ client'[c].todo = r /\ client'[c].fd = 0
  BY <1>3 DEF Idle
<1>5. IF legacy THEN r = Open ELSE r \in Seq(Asked) /\ r # <<>>
  BY RequestFacts
<1>6. TodoInv(c)'
  BY <1>1, <1>4, <1>5 DEF TodoInv
<1>7. DraftInv(c)'
  BY <1>4 DEF DraftInv
<1>8. QED
  BY <1>1, <1>3, <1>6, <1>7 DEF StoreInv

LEMMA ReadStep ==
  ASSUME NEW c, Client = {c}, StoreInv, Read(c)
  PROVE  StoreInv' /\ Data' = Data
<1> DEFINE e == Head(client[c].todo)
<1>1. Data' = Data /\ FileInv' /\ LegacyInv' /\ DecidedInv' /\ legacy' = legacy /\ main' = main
  BY FileUntouched DEF Read
<1>2. TodoInv(c) /\ DraftInv(c) /\ client[c].pc = "read" /\ client[c].fd = 0
  BY DEF StoreInv, Read, DraftInv
<1>3. /\ client = [k \in Client |-> client[k]]
      /\ client' = [client EXCEPT ![c] =
           IF NothingToWrite(e) THEN AfterEdit(c)
           ELSE [client[c] EXCEPT !.pc = "create", !.draft = Apply(Data, e)]]
  BY DEF Read, StoreInv
<1>4. CASE NothingToWrite(e)
  <2>1. client'[c] = AfterEdit(c) /\ client' = [k \in Client |-> client'[k]]
    BY <1>3, <1>4, WriterMoves
  <2>2. client[c].todo = Open /\ legacy => Data = Legacy
    <3>1. ASSUME client[c].todo = Open, legacy
          PROVE  main # 0 \/ Legacy = NoData
      BY <1>4, <3>1, MigrationFacts DEF NothingToWrite
    <3>2. QED
      BY <3>1 DEF StoreInv, LegacyInv, Data
  <2>3. TodoInv(c)'
    BY <1>1, <1>2, <2>1, AfterEditFacts DEF TodoInv
  <2>4. DraftInv(c)'
    BY <1>1, <1>2, <2>1, <2>2, AfterEditFacts DEF DraftInv
  <2>5. QED
    BY <1>1, <2>1, <2>3, <2>4 DEF StoreInv
<1>5. CASE ~NothingToWrite(e)
  <2> DEFINE next == [client[c] EXCEPT !.pc = "create", !.draft = Apply(Data, e)]
  <2>1. client'[c] = next /\ client' = [k \in Client |-> client'[k]]
    BY <1>3, <1>5, WriterMoves
  <2>2. /\ client'[c].pc = "create" /\ client'[c].draft = Apply(Data, e)
        /\ client'[c].todo = client[c].todo /\ client'[c].fd = 0
    BY <1>2, <2>1
  <2> HIDE DEF next
  <2>3. Apply(Data, e) \in Lists /\ UniqueKeys(Apply(Data, e)) /\ (legacy => main = 0)
    <3>1. CASE legacy /\ client[c].todo = Open
      BY <1>5, <3>1, MigrationFacts, ConstantFacts DEF NothingToWrite
    <3>2. CASE ~legacy /\ client[c].todo \in Seq(Asked) /\ client[c].todo # <<>>
      <4>1. e \in Asked
        BY <3>2
      <4> HIDE DEF e
      <4>2. QED
        BY <3>2, <4>1, ApplyFacts DEF StoreInv, FileInv
    <3>3. QED
      BY <1>2, <3>1, <3>2 DEF TodoInv
  <2>4. TodoInv(c)'
    BY <1>1, <1>2, <2>2 DEF TodoInv
  <2>5. DraftInv(c)'
    BY <1>1, <2>2, <2>3 DEF DraftInv
  <2>6. QED
    BY <1>1, <2>1, <2>4, <2>5 DEF StoreInv
<1>6. QED
  BY <1>4, <1>5

LEMMA CreateTmpStep ==
  ASSUME NEW c, Client = {c}, StoreInv, CreateTmp(c)
  PROVE  StoreInv' /\ Data' = Data
<1> DEFINE i == IF tmp # 0 THEN tmp ELSE CHOOSE n \in Inode : n \notin InUse
           next == [client[c] EXCEPT !.pc = "write", !.fd = i]
<1>1. /\ TodoInv(c) /\ DraftInv(c) /\ FileInv /\ LegacyInv /\ DecidedInv
      /\ client[c].pc = "create" /\ client[c].fd = 0
      /\ client = [k \in Client |-> client[k]]
  BY DEF StoreInv, CreateTmp, DraftInv
<1>2. i \in Inode /\ i # 0 /\ i # main
  <2>1. Inode = 1 .. 3
    BY Inodes DEF OneWriter
  <2>2. CASE tmp # 0
    BY <1>1, <2>1, <2>2 DEF FileInv
  <2>3. CASE tmp = 0
    <3>1. InUse = {main, 0}
      BY <1>1, <2>3 DEF InUse
    <3>2. \E n \in Inode : n \notin InUse
      BY <2>1, <3>1
    <3>3. i \in Inode /\ i \notin InUse
      BY <2>3, <3>2
    <3> HIDE DEF i
    <3>4. QED
      BY <2>1, <3>1, <3>3
  <2>4. QED
    BY <2>2, <2>3
<1>3. /\ tmp' = i /\ content' = [content EXCEPT ![i] = <<>>]
      /\ client' = [client EXCEPT ![c].pc = "write", ![c].fd = i]
      /\ UNCHANGED <<main, legacy, decided>>
  BY DEF CreateTmp
<1> HIDE DEF i
<1>4. client' = [client EXCEPT ![c] = next]
  BY <1>1, <1>3
<1>5. client'[c] = next /\ client' = [k \in Client |-> client'[k]]
  BY <1>1, <1>4, WriterMoves
<1>6. /\ client'[c].pc = "write" /\ client'[c].fd = i
      /\ client'[c].todo = client[c].todo /\ client'[c].draft = client[c].draft
  <2> DEFINE now == client[c]
  <2>1. now.pc = "create" /\ now.fd = 0 /\ client'[c] = [now EXCEPT !.pc = "write", !.fd = i]
    BY <1>1, <1>5
  <2> HIDE DEF now
  <2>2. /\ client'[c].pc = "write" /\ client'[c].fd = i
        /\ client'[c].todo = now.todo /\ client'[c].draft = now.draft
    BY <2>1
  <2>3. QED
    BY <2>2 DEF now
<1>7. /\ content' \in [Inode -> Seq(TextLine)] /\ content'[i] = <<>>
      /\ main # 0 => content'[main] = content[main]
  BY <1>1, <1>2, <1>3 DEF FileInv
<1>8. Data' = Data
  BY <1>3, <1>7 DEF Data
<1>9. FileInv' /\ LegacyInv' /\ DecidedInv'
  BY <1>1, <1>2, <1>3, <1>7, <1>8 DEF FileInv, LegacyInv, DecidedInv
<1>10. TodoInv(c)'
  BY <1>1, <1>3, <1>6 DEF TodoInv
<1>11. DraftInv(c)'
  BY <1>1, <1>2, <1>3, <1>6, <1>7, <1>8 DEF DraftInv
<1>12. QED
  BY <1>5, <1>8, <1>9, <1>10, <1>11 DEF StoreInv

LEMMA WriteTmpStep ==
  ASSUME NEW c, Client = {c}, StoreInv, WriteTmp(c)
  PROVE  StoreInv' /\ Data' = Data
<1> DEFINE draft == client[c].draft
           next == [client[c] EXCEPT !.pc = "rename", !.fd = 0]
<1>1. /\ TodoInv(c) /\ DraftInv(c) /\ FileInv /\ LegacyInv /\ DecidedInv
      /\ client[c].pc = "write"
      /\ client = [k \in Client |-> client[k]]
  BY DEF StoreInv, WriteTmp
<1>2. /\ client[c].fd = tmp /\ tmp # 0 /\ tmp \in Inode /\ tmp # main /\ content[tmp] = <<>>
      /\ draft \in Lists
  BY <1>1 DEF DraftInv, FileInv
<1>3. Serialize(draft) \in Seq(TextLine) /\ Overwrite(Serialize(draft), <<>>) = Serialize(draft)
  BY <1>2, SerializeType, OverwriteEmpty
<1>4. /\ content' = [content EXCEPT ![tmp] = Serialize(draft)]
      /\ client' = [client EXCEPT ![c].pc = "rename", ![c].fd = 0]
      /\ UNCHANGED <<main, tmp, legacy, decided>>
  BY <1>2, <1>3 DEF WriteTmp
<1>5. client' = [client EXCEPT ![c] = next]
  BY <1>1, <1>4
<1>6. client'[c] = next /\ client' = [k \in Client |-> client'[k]]
  BY <1>1, <1>5, WriterMoves
<1>7. /\ client'[c].pc = "rename" /\ client'[c].fd = 0
      /\ client'[c].todo = client[c].todo /\ client'[c].draft = draft
  <2> DEFINE now == client[c]
  <2>1. now.pc = "write" /\ now.fd = tmp /\ client'[c] = [now EXCEPT !.pc = "rename", !.fd = 0]
    BY <1>1, <1>2, <1>6
  <2> HIDE DEF now
  <2>2. /\ client'[c].pc = "rename" /\ client'[c].fd = 0
        /\ client'[c].todo = now.todo /\ client'[c].draft = now.draft
    BY <2>1
  <2>3. QED
    BY <2>2 DEF now
<1>8. /\ content' \in [Inode -> Seq(TextLine)] /\ content'[tmp] = Serialize(draft)
      /\ main # 0 => content'[main] = content[main]
  BY <1>1, <1>2, <1>3, <1>4 DEF FileInv
<1>9. Data' = Data
  BY <1>4, <1>8 DEF Data
<1>10. FileInv' /\ LegacyInv' /\ DecidedInv'
  BY <1>1, <1>4, <1>8, <1>9 DEF FileInv, LegacyInv, DecidedInv
<1>11. TodoInv(c)'
  BY <1>1, <1>4, <1>7 DEF TodoInv
<1>12. DraftInv(c)'
  BY <1>1, <1>2, <1>4, <1>7, <1>8, <1>9 DEF DraftInv
<1>13. QED
  BY <1>6, <1>9, <1>10, <1>11, <1>12 DEF StoreInv

(* What an acknowledged edit decided is in the new list.                   *)
LEMMA RenameDecides ==
  ASSUME NEW c, Client = {c}, StoreInv, client[c].pc = "rename",
         Data' = Apply(Data, Head(client[c].todo)), Acknowledge(Head(client[c].todo))
  PROVE  DecidedInv'
<1> DEFINE e == Head(client[c].todo)
<1>1. TodoInv(c) /\ DraftInv(c) /\ DecidedInv /\ FileInv
  BY DEF StoreInv
<1>2. CASE legacy /\ client[c].todo = Open
  <2>1. e.op = "migrate"
    BY <1>2, MigrationFacts
  <2>2. Data = NoData
    BY <1>1, <1>2 DEF DraftInv, Data
  <2>3. ToSet(Data.marks) = {}
    BY <2>2, ElementsEmpty DEF NoData
  <2>4. decided' = decided
    BY <2>1 DEF Acknowledge
  <2>5. QED
    BY <1>1, <2>3, <2>4 DEF DecidedInv
<1>3. CASE ~legacy /\ client[c].todo \in Seq(Asked) /\ client[c].todo # <<>>
  <2>1. e \in Asked
    BY <1>3
  <2>2. Data' = Apply(Data, e) /\ Acknowledge(e) /\ Data \in Lists /\ UniqueKeys(Data)
    BY <1>1 DEF FileInv
  <2> HIDE DEF e
  <2>3. CASE e.op = "mark"
    <3>1. /\ decided' = [decided EXCEPT ![e.usr] = Word(e.external)]
          /\ e.usr \in Usr /\ e.external \in BOOLEAN
          /\ ToSet(Data'.marks) = {m \in ToSet(Data.marks) : m.usr # e.usr}
                                    \cup {[usr |-> e.usr, external |-> e.external]}
      BY <2>1, <2>2, <2>3, ApplyFacts DEF Acknowledge
    <3>2. Word(e.external) \in {"include", "exclude"}
      BY DEF Word
    <3>3. decided' \in [Usr -> {"include", "exclude", Undecided}]
      BY <1>1, <3>1, <3>2 DEF DecidedInv
    <3>4. ASSUME NEW u \in Usr, decided'[u] # Undecided
          PROVE  \E m \in ToSet(Data'.marks) : m.usr = u /\ Word(m.external) = decided'[u]
      <4>1. CASE u = e.usr
        <5> DEFINE mark == [usr |-> e.usr, external |-> e.external]
        <5>1. mark.usr = u /\ mark.external = e.external /\ decided'[u] = Word(e.external)
          BY <1>1, <3>1, <4>1 DEF DecidedInv
        <5>2. mark \in ToSet(Data'.marks)
          BY <3>1
        <5> HIDE DEF mark
        <5>3. QED
          BY <5>1, <5>2
      <4>2. CASE u # e.usr
        <5>1. decided'[u] = decided[u]
          BY <1>1, <3>1, <4>2 DEF DecidedInv
        <5>2. PICK m \in ToSet(Data.marks) : m.usr = u /\ Word(m.external) = decided[u]
          BY <1>1, <3>4, <5>1 DEF DecidedInv
        <5>3. m \in ToSet(Data'.marks)
          BY <3>1, <4>2, <5>2
        <5>4. QED
          BY <5>1, <5>2, <5>3
      <4>3. QED
        BY <4>1, <4>2
    <3>5. QED
      BY <3>3, <3>4 DEF DecidedInv
  <2>4. CASE e.op = "pruneMarks"
    <3>1. /\ decided' = [u \in Usr |-> IF u \in e.valid THEN decided[u] ELSE Undecided]
          /\ ToSet(Data'.marks) = {m \in ToSet(Data.marks) : m.usr \in e.valid}
      BY <2>1, <2>2, <2>4, ApplyFacts DEF Acknowledge
    <3>2. decided' \in [Usr -> {"include", "exclude", Undecided}]
      BY <1>1, <3>1 DEF DecidedInv
    <3>3. ASSUME NEW u \in Usr, decided'[u] # Undecided
          PROVE  \E m \in ToSet(Data'.marks) : m.usr = u /\ Word(m.external) = decided'[u]
      <4>1. u \in e.valid /\ decided'[u] = decided[u]
        BY <3>1, <3>3
      <4>2. PICK m \in ToSet(Data.marks) : m.usr = u /\ Word(m.external) = decided[u]
        BY <1>1, <3>3, <4>1 DEF DecidedInv
      <4>3. QED
        BY <3>1, <4>1, <4>2
    <3>4. QED
      BY <3>2, <3>3 DEF DecidedInv
  <2>5. CASE e.op # "mark" /\ e.op # "pruneMarks"
    <3>1. decided' = decided /\ Data'.marks = Data.marks
      BY <2>1, <2>2, <2>5, ApplyFacts DEF Acknowledge
    <3>2. QED
      BY <1>1, <3>1 DEF DecidedInv
  <2>6. QED
    BY <2>3, <2>4, <2>5
<1>4. QED
  BY <1>1, <1>2, <1>3 DEF TodoInv

LEMMA RenameStep ==
  ASSUME NEW c, Client = {c}, StoreInv, Rename(c)
  PROVE  StoreInv' /\ Data' = Apply(Data, Head(client[c].todo))
<1> DEFINE draft == client[c].draft
           e == Head(client[c].todo)
<1>1. /\ TodoInv(c) /\ DraftInv(c) /\ FileInv /\ LegacyInv /\ DecidedInv
      /\ client[c].pc = "rename"
      /\ client = [k \in Client |-> client[k]]
  BY DEF StoreInv, Rename
<1>2. /\ tmp # 0 /\ tmp \in Inode /\ tmp # main /\ content[tmp] = Serialize(draft)
      /\ draft \in Lists /\ UniqueKeys(draft) /\ draft = Apply(Data, e) /\ (legacy => main = 0)
  BY <1>1 DEF DraftInv, FileInv
<1>3. /\ main' = tmp /\ tmp' = 0 /\ legacy' = legacy
      /\ content' = [i \in Inode |-> IF i = main THEN <<>> ELSE content[i]]
      /\ client' = [client EXCEPT ![c] = AfterEdit(c)]
      /\ Acknowledge(e)
  BY <1>2 DEF Rename
<1>4. content' \in [Inode -> Seq(TextLine)] /\ content'[tmp] = Serialize(draft)
  BY <1>1, <1>2, <1>3 DEF FileInv
<1>5. 0 \notin Inode
  BY Inodes DEF OneWriter
<1>6. Data' = draft
  BY <1>2, <1>3, <1>4, RoundTrip DEF Data
<1>7. FileInv'
  BY <1>2, <1>3, <1>4, <1>6 DEF FileInv
<1>8. legacy => Data' = Legacy
  BY <1>1, <1>2, <1>6, MigrationFacts DEF TodoInv
<1>9. LegacyInv'
  BY <1>1, <1>3, <1>8 DEF LegacyInv
<1>10. DecidedInv'
  BY <1>1, <1>2, <1>3, <1>6, RenameDecides
<1>11. client'[c] = AfterEdit(c) /\ client' = [k \in Client |-> client'[k]]
  BY <1>1, <1>3, WriterMoves
<1>12. TodoInv(c)'
  BY <1>1, <1>3, <1>11, AfterEditFacts DEF TodoInv
<1>13. DraftInv(c)'
  BY <1>1, <1>3, <1>8, <1>11, AfterEditFacts DEF DraftInv
<1>14. QED
  BY <1>2, <1>6, <1>7, <1>9, <1>10, <1>11, <1>12, <1>13 DEF StoreInv

LEMMA DropOldTablesStep ==
  ASSUME NEW c, Client = {c}, StoreInv, DropOldTables(c)
  PROVE  StoreInv' /\ Data' = Data /\ Data = Legacy
<1>1. /\ FileInv /\ LegacyInv /\ DecidedInv
      /\ Data = Legacy
      /\ client = [k \in Client |-> client[k]]
  BY DEF StoreInv, DropOldTables, DraftInv
<1>2. /\ legacy' = FALSE /\ client' = [client EXCEPT ![c] = Idle]
      /\ UNCHANGED <<main, tmp, content, decided>>
  BY DEF DropOldTables
<1>3. Data' = Data
  BY <1>2 DEF Data
<1>4. FileInv' /\ LegacyInv' /\ DecidedInv'
  BY <1>1, <1>2, <1>3 DEF FileInv, LegacyInv, DecidedInv
<1>5. client'[c] = Idle /\ client' = [k \in Client |-> client'[k]]
  BY <1>1, <1>2, WriterMoves
<1>6. TodoInv(c)' /\ DraftInv(c)'
  BY <1>5 DEF TodoInv, DraftInv, Idle
<1>7. QED
  BY <1>1, <1>3, <1>4, <1>5, <1>6 DEF StoreInv

LEMMA CrashStep ==
  ASSUME StoreInv, Crash
  PROVE  StoreInv' /\ Data' = Data
<1>1. Data' = Data /\ FileInv' /\ LegacyInv'
  BY FileUntouched DEF Crash
<1>2. DecidedInv'
  <2>1. DecidedInv /\ decided' = [u \in Usr |-> IF Deciding(u) THEN Undecided ELSE decided[u]]
    BY DEF StoreInv, Crash
  <2>2. QED
    BY <1>1, <2>1 DEF DecidedInv
<1>3. client' = [k \in Client |-> Idle]
  BY DEF Crash
<1>4. ASSUME NEW c \in Client
      PROVE  TodoInv(c)' /\ DraftInv(c)'
  <2>1. client'[c] = Idle
    BY <1>3
  <2>2. QED
    BY <2>1 DEF TodoInv, DraftInv, Idle
<1>5. QED
  BY <1>1, <1>2, <1>3, <1>4 DEF StoreInv

\* A step leaves the list as it is, applies one edit to it, or moves the old
\* tables in; and the old tables go only when they are the list.
OneEdit ==
  \/ Data' = Data
  \/ \E e \in Asked : Data' = Apply(Data, e)
  \/ Data = NoData /\ Data' = Legacy

LEMMA StoreStep ==
  ASSUME OneWriter, StoreInv, [Next]_vars
  PROVE  StoreInv' /\ OneEdit /\ (legacy /\ ~legacy' => Data' = Legacy)
<1>1. PICK c : Client = {c}
  BY DEF OneWriter
<1>2. CASE Begin(c)
  BY <1>1, <1>2, BeginStep DEF OneEdit, Begin
<1>3. CASE Read(c)
  BY <1>1, <1>3, ReadStep DEF OneEdit, Read
<1>4. CASE CreateTmp(c)
  BY <1>1, <1>4, CreateTmpStep DEF OneEdit, CreateTmp
<1>5. CASE WriteTmp(c)
  BY <1>1, <1>5, WriteTmpStep DEF OneEdit, WriteTmp
<1>6. CASE Rename(c)
  <2>1. StoreInv' /\ Data' = Apply(Data, Head(client[c].todo)) /\ legacy' = legacy
    BY <1>1, <1>6, RenameStep DEF Rename
  <2>2. TodoInv(c) /\ DraftInv(c) /\ client[c].pc = "rename"
    BY <1>1, <1>6 DEF StoreInv, Rename
  <2>3. CASE legacy /\ client[c].todo = Open
    <3>1. Data = NoData /\ Data' = Legacy
      BY <2>1, <2>2, <2>3, MigrationFacts DEF DraftInv, Data
    <3>2. QED
      BY <2>1, <3>1 DEF OneEdit
  <2>4. CASE ~legacy /\ client[c].todo \in Seq(Asked) /\ client[c].todo # <<>>
    <3>1. Head(client[c].todo) \in Asked
      BY <2>4
    <3>2. QED
      BY <2>1, <3>1 DEF OneEdit
  <2>5. QED
    BY <2>2, <2>3, <2>4 DEF TodoInv
<1>7. CASE DropOldTables(c)
  BY <1>1, <1>7, DropOldTablesStep DEF OneEdit
<1>8. CASE Crash
  BY <1>8, CrashStep DEF OneEdit, Crash
<1>9. CASE UNCHANGED vars
  <2>1. UNCHANGED <<main, tmp, content, legacy, client, decided>>
    BY <1>9 DEF vars
  <2>2. Data' = Data /\ FileInv' /\ LegacyInv' /\ DecidedInv'
    BY <2>1, FileUntouched
  <2>3. ASSUME NEW k \in Client
        PROVE  TodoInv(k)' /\ DraftInv(k)'
    BY <2>1, <2>2 DEF StoreInv, TodoInv, DraftInv
  <2>4. QED
    BY <2>1, <2>2, <2>3 DEF StoreInv, OneEdit
<1>10. QED
  BY <1>1, <1>2, <1>3, <1>4, <1>5, <1>6, <1>7, <1>8, <1>9 DEF Next

THEOREM StoreInvariant ==
  ASSUME OneWriter
  PROVE  Spec => []StoreInv
<1>1. Init => StoreInv
  BY StoreInvInit
<1>2. StoreInv /\ [Next]_vars => StoreInv'
  BY StoreStep
<1>3. QED
  BY <1>1, <1>2, PTL DEF Spec

-----------------------------------------------------------------------------
(* The abstract specification edits with the operators of this one.        *)

LEMMA SameVectors ==
  /\ \A s : Atomic!ToSet(s) = ToSet(s)
  /\ \A s, T : Atomic!Keep(s, T) = Keep(s, T)
  /\ \A key, s : Atomic!SortBy(key, s) = SortBy(key, s)
<1>1. \A s : Atomic!ToSet(s) = ToSet(s)
  BY DEF ToSet, Atomic!ToSet
<1>2. \A s, T : Atomic!Keep(s, T) = Keep(s, T)
  BY DEF Keep, Atomic!Keep, FoldLeft, Atomic!FoldLeft, MapThenFoldSet, Atomic!MapThenFoldSet,
     Max, Atomic!Max
<1>3. \A key, s : Atomic!SortBy(key, s) = SortBy(key, s)
  <2>1. \A key, s, x : Atomic!InsertBy(key, s, x) = InsertBy(key, s, x)
    BY <1>1, <1>2 DEF InsertBy, Atomic!InsertBy
  <2>2. QED
    BY <2>1 DEF SortBy, Atomic!SortBy, FoldLeft, Atomic!FoldLeft, MapThenFoldSet,
       Atomic!MapThenFoldSet, Max, Atomic!Max
<1>4. QED
  BY <1>1, <1>2, <1>3

LEMMA SameEdits ==
  Atomic!NoData = NoData /\ \A d, e : Atomic!Apply(d, e) = Apply(d, e)
<1>1. Atomic!NoData = NoData
  BY DEF NoData, Atomic!NoData
<1>2. \A d, usr, x : Atomic!SetMark(d, usr, x) = SetMark(d, usr, x)
  BY SameVectors DEF SetMark, Atomic!SetMark, ManualMark, Atomic!ManualMark
<1>3. \A d, file, x : Atomic!SetFileMark(d, file, x) = SetFileMark(d, file, x)
  BY SameVectors DEF SetFileMark, Atomic!SetFileMark, FileMark, Atomic!FileMark
<1>4. \A d, k, p : Atomic!AddRule(d, k, p) = AddRule(d, k, p)
  BY DEF AddRule, Atomic!AddRule, NextId, Atomic!NextId, Max, Atomic!Max
<1>5. \A d, k, id : Atomic!RemoveRule(d, k, id) = RemoveRule(d, k, id)
  BY SameVectors DEF RemoveRule, Atomic!RemoveRule
<1>6. \A d, valid : Atomic!PruneMarks(d, valid) = PruneMarks(d, valid)
  BY SameVectors DEF PruneMarks, Atomic!PruneMarks
<1>7. \A d, valid : Atomic!PruneFileMarks(d, valid) = PruneFileMarks(d, valid)
  BY SameVectors DEF PruneFileMarks, Atomic!PruneFileMarks
<1>8. \A d, e : Atomic!Apply(d, e) = Apply(d, e)
  BY <1>2, <1>3, <1>4, <1>5, <1>6, <1>7 DEF Apply, Atomic!Apply
<1>9. QED
  BY <1>1, <1>8

-----------------------------------------------------------------------------
(* With one writer every declaration has one mark and every rule its own   *)
(* id, so an edit reaches the entry it means (SetMark, AddRule).           *)
THEOREM OneEntryPerKey ==
  ASSUME OneWriter
  PROVE  Spec => []KeysUnique
<1>1. StoreInv => KeysUnique
  BY DEF StoreInv, FileInv, KeysUnique
<1>2. QED
  BY <1>1, StoreInvariant, PTL

(* With one writer an acknowledged decision stays in the file until it is  *)
(* decided anew, whatever else is edited and whenever the server dies.     *)
THEOREM DecisionsStay ==
  ASSUME OneWriter
  PROVE  Spec => []DecisionsKept
<1>1. StoreInv => DecisionsKept
  BY DEF StoreInv, DecidedInv, DecisionsKept
<1>2. QED
  BY <1>1, StoreInvariant, PTL

(* With one writer the old tables are dropped only when their rows are     *)
(* what the file says.                                                     *)
THEOREM NothingLeftBehind ==
  ASSUME OneWriter
  PROVE  Spec => MigrationMovesAll
<1>1. StoreInv /\ [Next]_vars => [legacy /\ ~legacy' => Data' = Legacy]_vars
  BY StoreStep
<1>2. QED
  BY <1>1, StoreInvariant, PTL DEF Spec, MigrationMovesAll

(* With one writer the file implements the list that is edited one whole   *)
(* edit at a time: between the read, the truncated and written temporary   *)
(* file, the rename and a crash at any of them, a reader sees the list     *)
(* before the edit or after it.                                            *)
THEOREM OneEditAtATime ==
  ASSUME OneWriter
  PROVE  Spec => EditsAreAtomic
<1>1. Init => Atomic!AtomicInit
  BY SameEdits DEF Init, Data, Atomic!AtomicInit
<1>2. StoreInv /\ [Next]_vars => [Atomic!AtomicNext]_Data
  <2>1. OneEdit => [Atomic!AtomicNext]_Data
    BY SameEdits DEF OneEdit, Asked, Atomic!AtomicNext
  <2>2. QED
    BY <2>1, StoreStep
<1>3. QED
  BY <1>1, <1>2, StoreInvariant, PTL DEF Spec, EditsAreAtomic, Atomic!AtomicSpec

-----------------------------------------------------------------------------
(* What the listing of the externals answers, for every catalog, pattern   *)
(* and number of changes.  The argument: each of the seven reads finds its *)
(* part of some version since the listing began (ReadInVersion), so an     *)
(* entry that all the versions have is in the list read, a row that all    *)
(* the catalogs have is in the table read, and the formula does the rest.  *)

\* The reads done when the listing is about to do the one given.
After(read) ==
  CASE read = "types" -> {"functions", "calls", "names", "paths", "files", "marks", "done"}
    [] read = "functions" -> {"calls", "names", "paths", "files", "marks", "done"}
    [] read = "calls" -> {"names", "paths", "files", "marks", "done"}
    [] read = "names" -> {"paths", "files", "marks", "done"}
    [] read = "paths" -> {"files", "marks", "done"}
    [] read = "files" -> {"marks", "done"}
    [] read = "marks" -> {"done"}

ReadInVersion ==
  /\ lister \in After("types") => \E c \in analysed : got.types = c.types
  /\ lister \in After("functions") => \E c \in analysed : got.functions = c.functions
  /\ lister \in After("calls") => \E c \in analysed : got.calls = c.calls
  /\ lister \in After("names") => \E d \in since : got.names = d.rules["name"]
  /\ lister \in After("paths") => \E d \in since : got.paths = d.rules["path"]
  /\ lister \in After("files") => \E d \in since : got.files = d.files
  /\ lister \in After("marks") => \E d \in since : got.marks = d.marks

Phases == {"idle", "types", "functions", "calls", "names", "paths", "files", "marks", "done"}
Fields == {"types", "functions", "calls", "names", "paths", "files", "marks"}

ListInv ==
  /\ lister \in Phases
  /\ DOMAIN got = Fields /\ got = [f \in Fields |-> got[f]]
  /\ Listing => catalog \in analysed /\ data \in since
  /\ ReadInVersion

LEMMA InvInit == ListInit => ListInv
BY DEF ListInit, ListInv, ReadInVersion, After, Listing, Phases, Fields, Nothing

\* A step that leaves the listing alone only adds versions.
LEMMA InvChange ==
  ASSUME ListInv, UNCHANGED <<lister, got>>, since \subseteq since', analysed \subseteq analysed',
         Listing => catalog' \in analysed' /\ data' \in since'
  PROVE  ListInv'
<1>1. lister' \in Phases /\ DOMAIN got' = Fields /\ got' = [f \in Fields |-> got'[f]]
  BY DEF ListInv
<1>2. Listing' => catalog' \in analysed' /\ data' \in since'
  BY DEF Listing
<1>3. ReadInVersion'
  BY DEF ListInv, ReadInVersion
<1> QED BY <1>1, <1>2, <1>3 DEF ListInv

LEMMA WriteFacts ==
  ASSUME ListInv, NEW d, Write(d)
  PROVE  ListInv'
<1>1. since \subseteq since' /\ analysed \subseteq analysed' /\ UNCHANGED <<lister, got>>
  BY DEF Write
<1>2. Listing => catalog' \in analysed' /\ data' \in since'
  BY DEF Write, ListInv
<1> QED BY <1>1, <1>2, InvChange

LEMMA InvNext == ListInv /\ [ListNext]_listVars => ListInv'
<1> SUFFICES ASSUME ListInv, [ListNext]_listVars
             PROVE  ListInv'
  OBVIOUS
<1>1. CASE MarkExternal
  BY <1>1, WriteFacts DEF MarkExternal
<1>2. CASE MarkFile
  BY <1>2, WriteFacts DEF MarkFile
<1>3. CASE ChangeRules
  BY <1>3, WriteFacts DEF ChangeRules
<1>4. CASE Analyse
  <2>1. since \subseteq since' /\ analysed \subseteq analysed' /\ UNCHANGED <<lister, got>>
    BY <1>4 DEF Analyse
  <2>2. Listing => catalog' \in analysed' /\ data' \in since'
    BY <1>4 DEF Analyse, ListInv
  <2> QED BY <2>1, <2>2, InvChange
<1>5. CASE PruneList
  BY <1>5, WriteFacts DEF PruneList
<1>6. CASE BeginListing
  BY <1>6 DEF BeginListing, ListInv, ReadInVersion, After, Listing, Phases
<1>7. CASE ReadTypes
  <2>1. lister = "types" /\ lister' = "functions" /\ got' = [got EXCEPT !["types"] = catalog.types]
        /\ UNCHANGED <<catalog, data, since, analysed>>
    BY <1>7 DEF ReadTypes, ReadNext
  <2> QED BY <2>1 DEF ListInv, ReadInVersion, After, Listing, Phases, Fields
<1>8. CASE ReadFunctions
  <2>1. lister = "functions" /\ lister' = "calls" /\ got' = [got EXCEPT !["functions"] = catalog.functions]
        /\ UNCHANGED <<catalog, data, since, analysed>>
    BY <1>8 DEF ReadFunctions, ReadNext
  <2> QED BY <2>1 DEF ListInv, ReadInVersion, After, Listing, Phases, Fields
<1>9. CASE ReadCalls
  <2>1. lister = "calls" /\ lister' = "names" /\ got' = [got EXCEPT !["calls"] = catalog.calls]
        /\ UNCHANGED <<catalog, data, since, analysed>>
    BY <1>9 DEF ReadCalls, ReadNext
  <2> QED BY <2>1 DEF ListInv, ReadInVersion, After, Listing, Phases, Fields
<1>10. CASE ReadNames
  <2>1. lister = "names" /\ lister' = "paths" /\ got' = [got EXCEPT !["names"] = data.rules["name"]]
        /\ UNCHANGED <<catalog, data, since, analysed>>
    BY <1>10 DEF ReadNames, ReadNext
  <2> QED BY <2>1 DEF ListInv, ReadInVersion, After, Listing, Phases, Fields
<1>11. CASE ReadPaths
  <2>1. lister = "paths" /\ lister' = "files" /\ got' = [got EXCEPT !["paths"] = data.rules["path"]]
        /\ UNCHANGED <<catalog, data, since, analysed>>
    BY <1>11 DEF ReadPaths, ReadNext
  <2> QED BY <2>1 DEF ListInv, ReadInVersion, After, Listing, Phases, Fields
<1>12. CASE ReadFiles
  <2>1. lister = "files" /\ lister' = "marks" /\ got' = [got EXCEPT !["files"] = data.files]
        /\ UNCHANGED <<catalog, data, since, analysed>>
    BY <1>12 DEF ReadFiles, ReadNext
  <2> QED BY <2>1 DEF ListInv, ReadInVersion, After, Listing, Phases, Fields
<1>13. CASE ReadMarks
  <2>1. lister = "marks" /\ lister' = "done" /\ got' = [got EXCEPT !["marks"] = data.marks]
        /\ UNCHANGED <<catalog, data, since, analysed>>
    BY <1>13 DEF ReadMarks, ReadNext
  <2> QED BY <2>1 DEF ListInv, ReadInVersion, After, Listing, Phases, Fields
<1>14. CASE Answered
  BY <1>14 DEF Answered, ListInv, ReadInVersion, After, Listing, Phases, Fields, Nothing
<1>15. CASE UNCHANGED listVars
  BY <1>15 DEF listVars, ListInv, ReadInVersion, Listing
<1> QED BY <1>1, <1>2, <1>3, <1>4, <1>5, <1>6, <1>7, <1>8, <1>9, <1>10, <1>11, <1>12,
           <1>13, <1>14, <1>15 DEF ListNext

-----------------------------------------------------------------------------
(* What the formula makes of a listing that has read everything.           *)

Found == [types |-> got.types, functions |-> got.functions, calls |-> got.calls]

\* To be listed as external is to be external by the formula.
LEMMA ListedIffEffective ==
  ASSUME NEW u
  PROVE  u \in ListedExternal <=> Effective(u, got)
<1> DEFINE mentioned == {d.usr : d \in Declarations(got.types, got.functions)} \cup got.calls
                          \cup {m.usr : m \in ToSet(got.marks)}
           sourced == {x \in mentioned : Automatic(x, got) # {} \/ Manual(x, got) # {}}
<1>1. Statuses(got) = {[usr |-> x, effective |-> Effective(x, got), sources |-> Automatic(x, got)] : x \in sourced}
  BY DEF Statuses
<1>2. ASSUME u \in ListedExternal
      PROVE  Effective(u, got)
  <2>1. PICK s \in Statuses(got) : s.usr = u /\ s.effective
    BY <1>2 DEF ListedExternal
  <2>2. PICK x \in sourced : s = [usr |-> x, effective |-> Effective(x, got), sources |-> Automatic(x, got)]
    BY <1>1, <2>1
  <2> QED BY <2>1, <2>2
<1>3. ASSUME Effective(u, got)
      PROVE  u \in ListedExternal
  <2>1. Automatic(u, got) # {} \/ Manual(u, got) # {}
    BY <1>3 DEF Effective
  <2>2. Manual(u, got) # {} => u \in mentioned
    BY DEF Manual
  <2>3. ASSUME u \notin mentioned
        PROVE  Automatic(u, got) = {}
    <3>1. ~\E d \in Declarations(got.types, got.functions) : d.usr = u
      BY <2>3
    <3>2. u \notin AutoUndefined(got.functions, got.calls)
      BY <2>3 DEF AutoUndefined
    <3>3. Row(u, got) = {}
      BY <3>1 DEF Row
    <3> QED BY <3>2, <3>3 DEF Automatic, NameSources, PathSources, FileSources, UndefinedSource
  <2>4. u \in sourced
    BY <2>1, <2>2, <2>3
  <2> DEFINE s == [usr |-> u, effective |-> Effective(u, got), sources |-> Automatic(u, got)]
  <2>5. s \in Statuses(got) /\ s.usr = u /\ s.effective
    BY <1>1, <1>3, <2>4
  <2> HIDE DEF s
  <2> QED BY <2>5 DEF ListedExternal
<1> QED BY <1>2, <1>3

\* What the entries of a version are, kind by kind.
LEMMA EntryKinds ==
  ASSUME RuleKind = {"name", "path"}, NEW d, NEW e
  PROVE  e \in Entries(d) <=>
           \/ \E rule \in ToSet(d.rules["name"]) : e = [kind |-> "name", by |-> rule.pattern]
           \/ \E rule \in ToSet(d.rules["path"]) : e = [kind |-> "path", by |-> rule.pattern]
           \/ \E m \in ToSet(d.files) : e = [kind |-> "file", by |-> m.file]
<1> DEFINE ruled(k) == {[kind |-> k, by |-> rule.pattern] : rule \in ToSet(d.rules[k])}
<1>1. UNION {ruled(k) : k \in RuleKind} = ruled("name") \cup ruled("path")
  OBVIOUS
<1>2. Entries(d) = ruled("name") \cup ruled("path") \cup {[kind |-> "file", by |-> m.file] : m \in ToSet(d.files)}
  BY <1>1 DEF Entries
<1> QED BY <1>2

\* A rule or file mark that was read and covers u is a source, and so is u
\* itself when it is called and not defined.
LEMMA CoveredIsSource ==
  ASSUME NEW u, NEW n, NEW p, NEW f,
         got.names = n.rules["name"], got.paths = p.rules["path"], got.files = f.files,
         RuleKind = {"name", "path"},
         NEW e \in Entries(n), e \in Entries(p), e \in Entries(f), Covers(e, u, Found)
  PROVE  Automatic(u, got) # {}
<1> DEFINE here == Row(u, got)
<1>1. Row(u, Found) = here /\ Found.types = got.types
  BY DEF Row, Found
<1>2. PICK row \in here : \/ e.kind = "name" /\ <<e.by, QualifiedName(row, got.types)>> \in NameMatches
                          \/ e.kind = "path" /\ <<e.by, row.file>> \in PathMatches
                          \/ e.kind = "file" /\ e.by = row.file
  BY <1>1 DEF Covers
<1>3. CASE e.kind = "name"
  <2>1. PICK rule \in ToSet(n.rules["name"]) : e = [kind |-> "name", by |-> rule.pattern]
    BY <1>3, EntryKinds
  <2>2. e.by \in Patterns(got.names)
    BY <2>1 DEF Patterns
  <2>3. row \in here /\ <<e.by, QualifiedName(row, got.types)>> \in NameMatches
    BY <1>2, <1>3
  <2>4. NameSources(u, got) # {}
    BY <2>2, <2>3 DEF NameSources
  <2> QED BY <2>4 DEF Automatic
<1>4. CASE e.kind = "path"
  <2>1. PICK rule \in ToSet(p.rules["path"]) : e = [kind |-> "path", by |-> rule.pattern]
    BY <1>4, EntryKinds
  <2>2. e.by \in Patterns(got.paths)
    BY <2>1 DEF Patterns
  <2>3. row \in here /\ <<e.by, row.file>> \in PathMatches
    BY <1>2, <1>4
  <2>4. PathSources(u, got) # {}
    BY <2>2, <2>3 DEF PathSources
  <2> QED BY <2>4 DEF Automatic
<1>5. CASE e.kind = "file"
  <2>1. PICK m \in ToSet(f.files) : e = [kind |-> "file", by |-> m.file]
    BY <1>5, EntryKinds
  <2>2. m \in ToSet(got.files) /\ \E d \in here : d.file = m.file
    BY <1>2, <1>5, <2>1
  <2>3. FileSources(u, got) # {}
    BY <2>2 DEF FileSources
  <2> QED BY <2>3 DEF Automatic
<1> QED BY <1>2, <1>3, <1>4, <1>5

\* And there are no others.
LEMMA SourceIsCovered ==
  ASSUME NEW u, NEW n, NEW p, NEW f,
         got.names = n.rules["name"], got.paths = p.rules["path"], got.files = f.files,
         RuleKind = {"name", "path"}, Automatic(u, got) # {}
  PROVE  \/ Undefined(u, Found)
         \/ \E d \in {n, p, f} : \E e \in Entries(d) : Covers(e, u, Found)
<1> DEFINE here == Row(u, got)
<1>1. Row(u, Found) = here /\ Found.types = got.types
  BY DEF Row, Found
<1>2. Undefined(u, Found) <=> u \in AutoUndefined(got.functions, got.calls)
  BY DEF Undefined, Found
<1>3. \/ u \in AutoUndefined(got.functions, got.calls)
      \/ \E rule \in ToSet(got.names), d \in here : <<rule.pattern, QualifiedName(d, got.types)>> \in NameMatches
      \/ \E rule \in ToSet(got.paths), d \in here : <<rule.pattern, d.file>> \in PathMatches
      \/ \E m \in ToSet(got.files), d \in here : d.file = m.file
  BY DEF Automatic, NameSources, PathSources, FileSources, UndefinedSource, Patterns
<1>4. CASE \E rule \in ToSet(got.names), d \in here : <<rule.pattern, QualifiedName(d, got.types)>> \in NameMatches
  <2>1. PICK rule \in ToSet(got.names) : \E d \in here : <<rule.pattern, QualifiedName(d, got.types)>> \in NameMatches
    BY <1>4
  <2> DEFINE e == [kind |-> "name", by |-> rule.pattern]
  <2>2. e \in Entries(n)
    BY EntryKinds
  <2>3. Covers(e, u, Found)
    BY <1>1, <2>1 DEF Covers
  <2> QED BY <2>2, <2>3
<1>5. CASE \E rule \in ToSet(got.paths), d \in here : <<rule.pattern, d.file>> \in PathMatches
  <2>1. PICK rule \in ToSet(got.paths) : \E d \in here : <<rule.pattern, d.file>> \in PathMatches
    BY <1>5
  <2> DEFINE e == [kind |-> "path", by |-> rule.pattern]
  <2>2. e \in Entries(p)
    BY EntryKinds
  <2>3. Covers(e, u, Found)
    BY <1>1, <2>1 DEF Covers
  <2> QED BY <2>2, <2>3
<1>6. CASE \E m \in ToSet(got.files), d \in here : d.file = m.file
  <2>1. PICK m \in ToSet(got.files) : \E d \in here : d.file = m.file
    BY <1>6
  <2> DEFINE e == [kind |-> "file", by |-> m.file]
  <2>2. e \in Entries(f)
    BY EntryKinds
  <2>3. Covers(e, u, Found)
    BY <1>1, <2>1 DEF Covers
  <2> QED BY <2>2, <2>3
<1> QED BY <1>2, <1>3, <1>4, <1>5, <1>6

LEMMA InvImpliesStanding ==
  ASSUME RuleKind = {"name", "path"}, ListInv
  PROVE  StandingEntriesListed
<1> SUFFICES ASSUME lister = "done", NEW u
             PROVE  /\ (\A d \in since : Decided(u, d) = "include") => u \in ListedExternal
                    /\ (\A d \in since : Decided(u, d) = "exclude") => u \notin ListedExternal
                    /\ /\ \A d \in since : Decided(u, d) # "exclude"
                       /\ \/ \A c \in Mixed : Undefined(u, c)
                          \/ \E e \in UNION {Entries(d) : d \in since} :
                               /\ \A c \in Mixed : Covers(e, u, c)
                               /\ \A d \in since : e \in Entries(d)
                       => u \in ListedExternal
                    /\ u \in ListedExternal =>
                         \/ \E c \in Mixed : Undefined(u, c)
                         \/ \E d \in since : Decided(u, d) = "include"
                         \/ \E d \in since, c \in Mixed : \E e \in Entries(d) : Covers(e, u, c)
  BY DEF StandingEntriesListed
<1>1. Found \in Mixed
  <2>1. PICK a \in analysed : got.types = a.types
    BY DEF ListInv, ReadInVersion, After
  <2>2. PICK b \in analysed : got.functions = b.functions
    BY DEF ListInv, ReadInVersion, After
  <2>3. PICK c \in analysed : got.calls = c.calls
    BY DEF ListInv, ReadInVersion, After
  <2> DEFINE p == <<a, b, c>>
  <2>4. p \in analysed \X analysed \X analysed
    OBVIOUS
  <2>5. Found = [types |-> p[1].types, functions |-> p[2].functions, calls |-> p[3].calls]
    BY <2>1, <2>2, <2>3 DEF Found
  <2> HIDE DEF p
  <2> QED BY <2>4, <2>5 DEF Mixed
<1>2. PICK n \in since : got.names = n.rules["name"]
  BY DEF ListInv, ReadInVersion, After
<1>3. PICK p \in since : got.paths = p.rules["path"]
  BY DEF ListInv, ReadInVersion, After
<1>4. PICK f \in since : got.files = f.files
  BY DEF ListInv, ReadInVersion, After
<1>5. PICK k \in since : got.marks = k.marks
  BY DEF ListInv, ReadInVersion, After
<1>6. /\ Decided(u, k) = "include" <=> \E m \in Manual(u, got) : m.external
      /\ Decided(u, k) = "undecided" <=> Manual(u, got) = {}
      /\ Decided(u, k) \in {"include", "exclude", "undecided"}
  BY <1>5 DEF Decided, Manual
<1>7. u \in ListedExternal <=> Effective(u, got)
  BY ListedIffEffective
<1>8. (\A d \in since : Decided(u, d) = "include") => u \in ListedExternal
  BY <1>6, <1>7 DEF Effective
<1>9. (\A d \in since : Decided(u, d) = "exclude") => u \notin ListedExternal
  BY <1>6, <1>7 DEF Effective
<1>10. ASSUME \A d \in since : Decided(u, d) # "exclude",
              \/ \A c \in Mixed : Undefined(u, c)
              \/ \E e \in UNION {Entries(d) : d \in since} :
                   /\ \A c \in Mixed : Covers(e, u, c)
                   /\ \A d \in since : e \in Entries(d)
       PROVE  u \in ListedExternal
  <2>1. ASSUME \A c \in Mixed : Undefined(u, c)
        PROVE  Automatic(u, got) # {}
    <3>1. u \in AutoUndefined(got.functions, got.calls)
      BY <1>1, <2>1 DEF Undefined, Found
    <3> QED BY <3>1 DEF Automatic, UndefinedSource
  <2>2. ASSUME NEW e \in UNION {Entries(d) : d \in since},
               \A c \in Mixed : Covers(e, u, c), \A d \in since : e \in Entries(d)
        PROVE  Automatic(u, got) # {}
    <3>1. Covers(e, u, Found) /\ e \in Entries(n) /\ e \in Entries(p) /\ e \in Entries(f)
      BY <1>1, <2>2
    <3> QED BY <1>2, <1>3, <1>4, <3>1, CoveredIsSource
  <2>3. Automatic(u, got) # {}
    BY <1>10, <2>1, <2>2
  <2> QED BY <1>6, <1>7, <1>10, <2>3 DEF Effective
<1>11. ASSUME u \in ListedExternal
       PROVE  \/ \E c \in Mixed : Undefined(u, c)
              \/ \E d \in since : Decided(u, d) = "include"
              \/ \E d \in since, c \in Mixed : \E e \in Entries(d) : Covers(e, u, c)
  <2>1. CASE Manual(u, got) # {}
    BY <1>6, <1>7, <1>11, <2>1 DEF Effective
  <2>2. CASE Manual(u, got) = {}
    <3>1. Automatic(u, got) # {}
      BY <1>7, <1>11, <2>2 DEF Effective
    <3>2. \/ Undefined(u, Found)
          \/ \E d \in {n, p, f} : \E e \in Entries(d) : Covers(e, u, Found)
      BY <1>2, <1>3, <1>4, <3>1, SourceIsCovered
    <3> QED BY <1>1, <3>2
  <2> QED BY <2>1, <2>2
<1> QED BY <1>8, <1>9, <1>10, <1>11

(* What stood from the beginning of a listing to its end is in its answer, *)
(* and the answer names nothing as external without a reason, however the  *)
(* requests and the analyses fall between its reads.                       *)
THEOREM StandingListed ==
  ASSUME RuleKind = {"name", "path"}
  PROVE  ListSpec => []StandingEntriesListed
<1>1. ListInv => StandingEntriesListed
  BY InvImpliesStanding
<1> QED BY <1>1, InvInit, InvNext, PTL DEF ListSpec

=============================================================================
