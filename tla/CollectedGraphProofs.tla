------------------------- MODULE CollectedGraphProofs -------------------------
(***************************************************************************)
(* Proofs about what clients of GarbageCollection see: its handles and     *)
(* objects implement ObjectGraph, a collection changes nothing in it, and  *)
(* the objects that it counts are those that it leaves.                    *)
(*                                                                         *)
(* The argument is about the contents of memory: the name and the names of *)
(* the references of each object that has not been forgotten.  A copy adds *)
(* no content, and every name is reachable from handles at all times.      *)
(***************************************************************************)
EXTENDS GarbageCollectionProofs, FunctionTheorems

-----------------------------------------------------------------------------
(* Reachable names, as ObjectGraph defines them *)

RefsOf(g, x) == IF x \in DOMAIN g THEN ToSet(g[x]) ELSE {}

\* The names that one more reference leads to.
Further(g, names) == UNION {{x} \cup RefsOf(g, x) : x \in names}

NameLevels(start, g, f) ==
    \A n \in 0..NameCount : f[n] = IF n = 0 THEN start ELSE Further(g, f[n - 1])

\* Names of objects with those in start, and with the references of any that
\* are among them.
Closed(M, start, g) ==
    /\ M \subseteq DOMAIN g /\ start \cap DOMAIN g \subseteq M
    /\ \A x \in M : ToSet(g[x]) \cap DOMAIN g \subseteq M

\* The fewest of them.
Spans(N, start, g) == Closed(N, start, g) /\ \A M : Closed(M, start, g) => N \subseteq M

LEMMA OneSpan ==
    ASSUME NEW M, NEW N, NEW start, NEW more, NEW g,
           Spans(M, start, g), Spans(N, more, g), start \cap DOMAIN g = more \cap DOMAIN g
    PROVE  M = N
BY DEF Spans, Closed

LEMMA NamesAreFinite ==
    /\ IsFiniteSet(Names) /\ Cardinality(Names) = NameCount /\ NameCount \in Nat
    /\ \A M : M \subseteq Names => IsFiniteSet(M) /\ Cardinality(M) \in Nat
<1>1. NameCount \in Nat
  BY CollectionAssumption
<1>2. IsFiniteSet(Names) /\ Cardinality(Names) = NameCount
  BY <1>1, FS_Interval DEF Names
<1>3. ASSUME NEW M, M \subseteq Names PROVE IsFiniteSet(M) /\ Cardinality(M) \in Nat
  BY <1>2, <1>3, FS_Subset, FS_CardinalityType
<1> QED
  BY <1>1, <1>2, <1>3

\* There are as many levels as names: the last has all that can be reached.
LEMMA LastLevelSpans ==
    ASSUME NEW start, NEW g, DOMAIN g \subseteq Names, NEW f, NameLevels(start, g, f)
    PROVE  Spans(f[NameCount] \cap DOMAIN g, start, g)
<1> DEFINE M(n) == f[n] \cap DOMAIN g
           Good(n) == /\ start \cap DOMAIN g \subseteq M(n)
                      /\ \A C : Closed(C, start, g) => M(n) \subseteq C
                      /\ Closed(M(n), start, g) \/ Cardinality(M(n)) >= n
           T == {n \in Nat : n <= NameCount => Good(n)}
<1>1. NameCount \in Nat /\ \A n : IsFiniteSet(M(n)) /\ Cardinality(M(n)) \in Nat
  BY NamesAreFinite
<1>2. 0 \in T
  <2>1. f[0] = start
    BY <1>1 DEF NameLevels
  <2>2. Cardinality(M(0)) >= 0
    BY <1>1
  <2> QED
    BY <2>1, <2>2 DEF Closed
<1>3. ASSUME NEW n \in Nat, n \in T PROVE n + 1 \in T
  <2> SUFFICES ASSUME n + 1 <= NameCount PROVE Good(n + 1)
    OBVIOUS
  <2>1. Good(n)
    BY <1>1, <1>3
  <2>2. f[n + 1] = Further(g, f[n])
    <3>1. n + 1 \in 0..NameCount /\ n + 1 # 0 /\ (n + 1) - 1 = n
      BY <1>1
    <3> QED
      BY <3>1 DEF NameLevels
  <2>3. \A x : x \in M(n + 1) <=>
               x \in DOMAIN g /\ (x \in f[n] \/ \E y \in M(n) : x \in ToSet(g[y]))
    BY <2>2 DEF Further, RefsOf
  <2> HIDE DEF M
  <2>4. M(n) \subseteq M(n + 1) /\ M(n) \subseteq DOMAIN g
    BY <2>3 DEF M
  <2>5. start \cap DOMAIN g \subseteq M(n + 1)
    BY <2>1, <2>4
  <2>6. ASSUME NEW C, Closed(C, start, g) PROVE M(n + 1) \subseteq C
    <3>1. M(n) \subseteq C
      BY <2>1, <2>6
    <3> QED
      BY <2>3, <2>6, <3>1 DEF Closed, M
  <2>7. CASE Closed(M(n), start, g)
    <3>1. M(n + 1) = M(n)
      <4>1. \A x \in M(n + 1) : x \in M(n)
        BY <2>3, <2>7 DEF Closed, M
      <4> QED
        BY <2>4, <4>1
    <3> QED
      BY <2>5, <2>6, <2>7, <3>1
  <2>8. CASE ~Closed(M(n), start, g)
    <3>1. PICK y \in M(n) : ~(ToSet(g[y]) \cap DOMAIN g \subseteq M(n))
      BY <2>1, <2>4, <2>8 DEF Closed
    <3>2. PICK x \in ToSet(g[y]) \cap DOMAIN g : x \notin M(n)
      BY <3>1
    <3>3. M(n) \cup {x} \subseteq M(n + 1)
      BY <2>3, <2>4, <3>2
    <3>4. Cardinality(M(n)) >= n /\ Cardinality(M(n)) \in Nat /\ IsFiniteSet(M(n))
          /\ Cardinality(M(n + 1)) \in Nat /\ IsFiniteSet(M(n + 1))
      BY <1>1, <2>1, <2>8
    <3>5. Cardinality(M(n) \cup {x}) = Cardinality(M(n)) + 1
      BY <3>2, <3>4, FS_AddElement
    <3>6. Cardinality(M(n) \cup {x}) <= Cardinality(M(n + 1))
      BY <3>3, <3>4, FS_Subset
    <3>7. Cardinality(M(n + 1)) >= n + 1
      BY <3>4, <3>5, <3>6
    <3> QED
      BY <2>5, <2>6, <3>7
  <2> QED
    BY <2>7, <2>8
<1>4. Nat \subseteq T
  <2> HIDE DEF T
  <2> QED
    BY <1>2, <1>3, NatInductionOnSet
<1>5. Good(NameCount)
  BY <1>1, <1>4
<1> HIDE DEF M
<1>6. Closed(M(NameCount), start, g)
  <2> SUFFICES ASSUME Cardinality(M(NameCount)) >= NameCount
               PROVE  Closed(M(NameCount), start, g)
    BY <1>5
  <2>1. M(NameCount) \subseteq DOMAIN g
    BY DEF M
  <2>2. Cardinality(M(NameCount)) = Cardinality(Names)
    <3>1. Cardinality(M(NameCount)) <= Cardinality(Names)
      BY <2>1, NamesAreFinite, FS_Subset
    <3>2. Cardinality(Names) = NameCount
      BY NamesAreFinite
    <3> QED
      BY <1>1, <3>1, <3>2
  <2>3. M(NameCount) = Names
    BY <2>1, <2>2, NamesAreFinite, FS_Subset
  <2> QED
    BY <2>1, <2>3 DEF Closed
<1> QED
  BY <1>5, <1>6 DEF Spans, M

\* What ObjectGraph calls reachable.
LEMMA ReachableSpans ==
    ASSUME NEW r, NEW g, DOMAIN g \subseteq Names
    PROVE  Spans(Graph!Reachable(r, g), Range(r), g)
<1> DEFINE start == Range(r)
           Exists(m) ==
             \E f : f = [n \in 0..m |-> IF n = 0 THEN start ELSE Further(g, f[n - 1])]
<1> HIDE DEF start
<1>1. Exists(0)
  <2>1. [n \in 0..0 |-> start]
          = [n \in 0..0 |-> IF n = 0 THEN start ELSE Further(g, [k \in 0..0 |-> start][n - 1])]
    OBVIOUS
  <2> QED
    BY <2>1
<1>2. ASSUME NEW m \in Nat, Exists(m) PROVE Exists(m + 1)
  <2>1. PICK f : f = [n \in 0..m |-> IF n = 0 THEN start ELSE Further(g, f[n - 1])]
    BY <1>2
  <2> DEFINE h == [n \in 0..m + 1 |-> IF n = m + 1 THEN Further(g, f[m]) ELSE f[n]]
  <2>2. \A n \in 0..m + 1 : h[n] = IF n = 0 THEN start ELSE Further(g, h[n - 1])
    <3> SUFFICES ASSUME NEW n \in 0..m + 1
                 PROVE  h[n] = IF n = 0 THEN start ELSE Further(g, h[n - 1])
      OBVIOUS
    <3>1. CASE n = m + 1
      <4>1. h[n] = Further(g, f[m]) /\ h[m] = f[m] /\ n - 1 = m /\ n # 0
        BY <3>1
      <4> HIDE DEF h
      <4> QED
        BY <3>1, <4>1
    <3>2. CASE n # m + 1
      <4>1. n \in 0..m /\ h[n] = f[n] /\ (n # 0 => n - 1 \in 0..m /\ h[n - 1] = f[n - 1])
        BY <3>2
      <4>2. f[n] = IF n = 0 THEN start ELSE Further(g, f[n - 1])
        <5> DEFINE body == [k \in 0..m |-> IF k = 0 THEN start ELSE Further(g, f[k - 1])]
        <5>1. f[n] = body[n]
          BY <2>1
        <5> QED
          BY <4>1, <5>1
      <4> HIDE DEF h
      <4> QED
        BY <4>1, <4>2
    <3> QED
      BY <3>1, <3>2
  <2>3. h = [n \in 0..m + 1 |-> IF n = 0 THEN start ELSE Further(g, h[n - 1])]
    BY <2>2
  <2> QED
    BY <2>3
<1>3. Nat \subseteq {m \in Nat : Exists(m)}
  <2> HIDE DEF Exists
  <2>1. 0 \in {m \in Nat : Exists(m)}
    BY <1>1
  <2>2. \A n \in Nat : n \in {m \in Nat : Exists(m)} => n + 1 \in {m \in Nat : Exists(m)}
    BY <1>2
  <2> QED
    BY <2>1, <2>2, NatInductionOnSet
<1>4. \E f : f = [n \in 0..NameCount |-> IF n = 0 THEN start ELSE Further(g, f[n - 1])]
  <2> HIDE DEF Exists
  <2>1. Exists(NameCount)
    BY <1>3, NamesAreFinite
  <2> QED
    BY <2>1 DEF Exists
<1> DEFINE F == CHOOSE h : h = [n \in 0..NameCount |->
                                 IF n = 0 THEN start ELSE Further(g, h[n - 1])]
<1>5. F = [n \in 0..NameCount |-> IF n = 0 THEN start ELSE Further(g, F[n - 1])]
  BY <1>4
<1>6. Graph!Reachable(r, g) = F[NameCount] \cap DOMAIN g
  <2>1. Graph!Cardinality(Names) = NameCount
    <3>1. Graph!Cardinality(Names) = Cardinality(Names)
      BY Zenon DEF Graph!Cardinality, Cardinality
    <3> QED
      BY <3>1, NamesAreFinite
  <2>2. Graph!Range(r) = start
    BY Zenon DEF Graph!Range, Range, start
  <2> DEFINE LastNames(N, S) ==
               (CHOOSE h : h = [n \in 0..N |-> IF n = 0 THEN S ELSE Further(g, h[n - 1])])[N]
                 \cap DOMAIN g
  <2>3. Graph!Reachable(r, g) = LastNames(Graph!Cardinality(Names), Graph!Range(r))
    BY Zenon DEF Graph!Reachable, Further, RefsOf, Graph!ToSet, ToSet
  <2>4. F[NameCount] \cap DOMAIN g = LastNames(NameCount, start)
    BY Zenon
  <2> HIDE DEF LastNames, F
  <2> QED
    BY <2>1, <2>2, <2>3, <2>4
<1> HIDE DEF F
<1>7. NameLevels(start, g, F)
  <2> SUFFICES ASSUME NEW n \in 0..NameCount
               PROVE  F[n] = IF n = 0 THEN start ELSE Further(g, F[n - 1])
    BY DEF NameLevels
  <2> DEFINE body == [k \in 0..NameCount |-> IF k = 0 THEN start ELSE Further(g, F[k - 1])]
  <2>1. F[n] = body[n]
    BY <1>5
  <2> QED
    BY <2>1
<1>8. Spans(F[NameCount] \cap DOMAIN g, start, g)
  BY <1>7, LastLevelSpans
<1> QED
  BY <1>6, <1>8 DEF start

\* What cannot be reached may as well not be there.
LEMMA RestrictSpans ==
    ASSUME NEW N, NEW start, NEW g, Spans(N, start, g),
           NEW h, h = [x \in N |-> g[x]]
    PROVE  DOMAIN h = N /\ Spans(N, start, h)
<1>1. DOMAIN h = N /\ \A x \in N : h[x] = g[x]
  BY Zenon
<1>2. Closed(N, start, g) /\ N \subseteq DOMAIN g
  BY DEF Spans, Closed
<1>3. Closed(N, start, h)
  BY <1>1, <1>2 DEF Closed
<1>4. ASSUME NEW M, Closed(M, start, h) PROVE N \subseteq M
  <2>1. M \subseteq N /\ start \cap N \subseteq M /\ \A x \in M : ToSet(h[x]) \cap N \subseteq M
    BY <1>1, <1>4 DEF Closed
  <2>2. start \cap DOMAIN g \subseteq N /\ \A x \in N : ToSet(g[x]) \cap DOMAIN g \subseteq N
    BY <1>2 DEF Closed
  <2>3. Closed(M, start, g)
    <3>1. M \subseteq DOMAIN g /\ start \cap DOMAIN g \subseteq M
      BY <1>2, <2>1, <2>2
    <3>2. ASSUME NEW x \in M PROVE ToSet(g[x]) \cap DOMAIN g \subseteq M
      BY <1>1, <2>1, <2>2
    <3> QED
      BY <3>1, <3>2 DEF Closed
  <2> QED
    BY <2>3 DEF Spans
<1> QED
  BY <1>1, <1>3, <1>4 DEF Spans

\* More to start from leads to everything that less leads to.
LEMMA MoreSpans ==
    ASSUME NEW start, NEW more, NEW g, Spans(DOMAIN g, start, g),
           start \cap DOMAIN g \subseteq more
    PROVE  Spans(DOMAIN g, more, g)
BY DEF Spans, Closed

\* A new name that is referred to, with what was there.
LEMMA WithSpans ==
    ASSUME NEW start, NEW more, NEW g, Spans(DOMAIN g, start, g), NEW n, n \notin DOMAIN g,
           n \in more, start \cap DOMAIN g \subseteq more, NEW r,
           NEW h, h = [x \in DOMAIN g \cup {n} |-> IF x = n THEN r ELSE g[x]]
    PROVE  DOMAIN h = DOMAIN g \cup {n} /\ Spans(DOMAIN h, more, h)
<1>1. DOMAIN h = DOMAIN g \cup {n} /\ \A x \in DOMAIN g : h[x] = g[x]
  BY Zenon
<1>2. Closed(DOMAIN h, more, h)
  BY DEF Closed
<1>3. ASSUME NEW M, Closed(M, more, h) PROVE DOMAIN h \subseteq M
  <2>1. M \subseteq DOMAIN h /\ more \cap DOMAIN h \subseteq M
        /\ \A x \in M : ToSet(h[x]) \cap DOMAIN h \subseteq M
    BY <1>3 DEF Closed
  <2>2. Closed(M \cap DOMAIN g, start, g)
    <3>1. start \cap DOMAIN g \subseteq M \cap DOMAIN g
      BY <1>1, <2>1
    <3>2. ASSUME NEW x \in M \cap DOMAIN g PROVE ToSet(g[x]) \cap DOMAIN g \subseteq M \cap DOMAIN g
      BY <1>1, <2>1
    <3> QED
      BY <3>1, <3>2 DEF Closed
  <2>3. DOMAIN g \subseteq M
    BY <2>2 DEF Spans
  <2> QED
    BY <1>1, <2>1, <2>3
<1> QED
  BY <1>1, <1>2, <1>3 DEF Spans

-----------------------------------------------------------------------------
(* The contents of memory *)

\* NameOf, of a state.
Name(s, a) == IF a = Null THEN -1 ELSE IF a = EmptyMap THEN 0 ELSE ObjectAt(s.block, a).name

NameList(s, a) ==
    [i \in DOMAIN ObjectAt(s.block, a).refs |-> Name(s, ObjectAt(s.block, a).refs[i])]

\* The objects that have not been forgotten.
Named(s) == {a \in Objects(s) : ObjectAt(s.block, a).name # 0}

NamesAt(s, addrs) == {Name(s, a) : a \in addrs}

Contents(s) == {<<Name(s, a), NameList(s, a)>> : a \in Named(s)}

\* What each name refers to.
GraphOf(C) == [n \in {p[1] : p \in C} |-> (CHOOSE p \in C : p[1] = n)[2]]

Functional(C) == \A p \in C : \A q \in C : p[1] = q[1] => p = q

\* The copy of an object, or itself.
Canon(s, a) == IF ObjectAt(s.block, a).moved = Null THEN a ELSE ObjectAt(s.block, a).moved

NamesFit(s) == \A a \in Objects(s) : ObjectAt(s.block, a).name \in Names \cup {0}

RefsNamed(s) == \A a \in Named(s) : Targets(s, a) \subseteq Named(s) \cup {EmptyMap}

Twins(s) ==
    \A a \in Objects(s) : ObjectAt(s.block, a).moved # Null =>
      Name(s, ObjectAt(s.block, a).moved) = Name(s, a)

OneOriginal(s) ==
    \A a \in Named(s) : \A b \in Named(s) : Name(s, a) = Name(s, b) => Canon(s, a) = Canon(s, b)

CopiesNamed(s) == s.copies \subseteq Named(s)

Naming(s) ==
    /\ NamesFit(s) /\ RefsNamed(s) /\ Twins(s) /\ OneOriginal(s) /\ CopiesNamed(s)
    /\ Functional(Contents(s))

\* The graph of functional contents.
LEMMA GraphOfContents ==
    ASSUME NEW C, Functional(C), NEW p \in C
    PROVE  p[1] \in DOMAIN GraphOf(C) /\ GraphOf(C)[p[1]] = p[2]
<1>1. p[1] \in {q[1] : q \in C}
  OBVIOUS
<1>2. (CHOOSE q \in C : q[1] = p[1]) = p
  BY DEF Functional
<1>3. DOMAIN GraphOf(C) = {q[1] : q \in C}
  BY Zenon DEF GraphOf
<1>4. GraphOf(C)[p[1]] = (CHOOSE q \in C : q[1] = p[1])[2]
  BY <1>1 DEF GraphOf
<1> QED
  BY <1>1, <1>2, <1>3, <1>4

\* ... and of what is in memory.
LEMMA GraphFacts ==
    ASSUME NEW s \in StateType, NamesFit(s), Functional(Contents(s)),
           NEW g, g = GraphOf(Contents(s))
    PROVE  /\ DOMAIN g = NamesAt(s, Named(s)) /\ DOMAIN g \subseteq Names
           /\ \A a \in Named(s) : g[Name(s, a)] = NameList(s, a)
<1>1. \A a \in Named(s) : Name(s, a) = ObjectAt(s.block, a).name /\ Name(s, a) \in Names
  BY ObjectFacts DEF Named, NamesFit, Name
<1>2. DOMAIN g = {p[1] : p \in Contents(s)}
  BY Zenon DEF GraphOf
<1>3. DOMAIN g = NamesAt(s, Named(s))
  <2>1. \A p \in Contents(s) : \E a \in Named(s) : p[1] = Name(s, a)
    BY DEF Contents
  <2>2. ASSUME NEW a \in Named(s) PROVE \E p \in Contents(s) : p[1] = Name(s, a)
    <3>1. <<Name(s, a), NameList(s, a)>> \in Contents(s)
      BY DEF Contents
    <3>2. <<Name(s, a), NameList(s, a)>>[1] = Name(s, a)
      OBVIOUS
    <3> QED
      BY <3>1, <3>2
  <2>3. DOMAIN g \subseteq NamesAt(s, Named(s))
    BY <1>2, <2>1 DEF NamesAt
  <2>4. NamesAt(s, Named(s)) \subseteq DOMAIN g
    BY <1>2, <2>2 DEF NamesAt
  <2> QED
    BY <2>3, <2>4
<1>4. ASSUME NEW a \in Named(s) PROVE g[Name(s, a)] = NameList(s, a)
  <2> DEFINE p == <<Name(s, a), NameList(s, a)>>
  <2>1. p \in Contents(s)
    BY DEF Contents
  <2>2. p[1] = Name(s, a) /\ p[2] = NameList(s, a)
    OBVIOUS
  <2> HIDE DEF p
  <2> QED
    BY <2>1, <2>2, GraphOfContents
<1> QED
  BY <1>1, <1>3, <1>4 DEF NamesAt

LEMMA NameFacts ==
    ASSUME NEW s \in StateType, NamesFit(s)
    PROVE  /\ Name(s, Null) = -1 /\ Name(s, EmptyMap) = 0
           /\ \A a \in Objects(s) : Name(s, a) = ObjectAt(s.block, a).name
           /\ \A a \in Named(s) : a \in Objects(s) /\ Name(s, a) \in Names
           /\ -1 \notin Names /\ 0 \notin Names
<1>1. -1 \notin Names /\ 0 \notin Names
  BY NamesAreFinite DEF Names
<1>2. Name(s, Null) = -1 /\ Name(s, EmptyMap) = 0
  BY AddressFacts DEF Name
<1>3. \A a \in Objects(s) : Name(s, a) = ObjectAt(s.block, a).name
  BY ObjectFacts DEF Name
<1> QED
  BY <1>1, <1>2, <1>3 DEF Named, NamesFit

-----------------------------------------------------------------------------
(* How many copies there are *)

\* What finalizeGenerations adds to the objects of a space.
CountOf(s, x) == IF x \in Generations THEN s.work[x].count ELSE 0

Counts(s) ==
    LET spaces == SetToSeq(Spaces) IN Total([i \in DOMAIN spaces |-> CountOf(s, spaces[i])])

CopiesCounted(s) == IsFiniteSet(s.copies) /\ Counts(s) = Cardinality(s.copies)

\* The spaces in a row, each of them once.
LEMMA SpacesInARow ==
    ASSUME NEW spaces, spaces = SetToSeq(Spaces)
    PROVE  /\ spaces \in Seq(Spaces)
           /\ \A i \in 1..Len(spaces) : \A j \in 1..Len(spaces) : spaces[i] = spaces[j] => i = j
           /\ \A x \in Spaces : \E i \in 1..Len(spaces) : spaces[i] = x
<1> DEFINE n == Cardinality(Spaces)
<1>1. IsFiniteSet(Spaces)
  <2>1. IsFiniteSet(Threads) /\ GenerationCount \in Int
    BY CollectionAssumption
  <2>2. IsFiniteSet(Generations)
    BY <2>1, FS_Interval DEF Generations
  <2> QED
    BY <2>1, <2>2, FS_Union DEF Spaces
<1>2. n \in Nat /\ ExistsBijection(1..n, Spaces)
  BY <1>1, FS_CardinalityType
<1>3. \E f \in [1..n -> Spaces] : IsInjective(f)
  BY <1>2 DEF ExistsBijection, Bijection, Injection
<1>4. spaces \in [1..n -> Spaces] /\ IsInjective(spaces)
  BY <1>3 DEF SetToSeq
<1>5. spaces \in Injection(1..n, Spaces)
  BY <1>4 DEF Injection
<1>6. Cardinality(1..n) = Cardinality(Spaces)
  <2>1. Cardinality(1..n) = IF 1 > n THEN 0 ELSE n - 1 + 1
    BY <1>2, FS_Interval
  <2> HIDE DEF n
  <2>2. Cardinality(1..n) = n
    BY <1>2, <2>1
  <2> QED
    BY <2>2 DEF n
<1>7. spaces \in Surjection(1..n, Spaces)
  BY <1>1, <1>5, <1>6, FS_Injection
<1> HIDE DEF n
<1>8. spaces \in Seq(Spaces) /\ Len(spaces) = n
  BY <1>2, <1>4
<1>9. \A x \in Spaces : \E i \in 1..n : spaces[i] = x
  BY <1>7 DEF Surjection
<1>10. \A i \in 1..n : \A j \in 1..n : spaces[i] = spaces[j] => i = j
  BY <1>4 DEF IsInjective
<1> QED
  BY <1>8, <1>9, <1>10

LEMMA CountsType ==
    ASSUME NEW s \in StateType, NEW spaces, spaces = SetToSeq(Spaces),
           NEW p, p = [i \in DOMAIN spaces |-> CountOf(s, spaces[i])]
    PROVE  /\ p \in Seq(Int) /\ Len(p) = Len(spaces) /\ Counts(s) = Total(p)
           /\ \A i \in 1..Len(p) : p[i] = CountOf(s, spaces[i]) /\ p[i] \in Nat
<1>1. spaces \in Seq(Spaces)
  BY SpacesInARow
<1>2. \A x \in Spaces : CountOf(s, x) \in Nat
  BY StateFacts DEF CountOf
<1>3. p \in Seq(Nat) /\ Len(p) = Len(spaces)
  BY <1>1, <1>2
<1>4. \A i \in 1..Len(p) : p[i] = CountOf(s, spaces[i])
  BY <1>1
<1>5. Counts(s) = Total(p)
  BY Zenon DEF Counts
<1> QED
  BY <1>3, <1>4, <1>5

LEMMA CountsMore ==
    ASSUME NEW s \in StateType, NEW q \in StateType, NEW g \in Generations, OneCounted(s, q, g)
    PROVE  Counts(q) = Counts(s) + 1
<1> DEFINE spaces == SetToSeq(Spaces)
           p == [i \in DOMAIN spaces |-> CountOf(s, spaces[i])]
           r == [i \in DOMAIN spaces |-> CountOf(q, spaces[i])]
<1>1. p \in Seq(Int) /\ Len(p) = Len(spaces) /\ Counts(s) = Total(p)
      /\ \A i \in 1..Len(p) : p[i] = CountOf(s, spaces[i])
  BY CountsType
<1>2. r \in Seq(Int) /\ Len(r) = Len(spaces) /\ Counts(q) = Total(r)
      /\ \A i \in 1..Len(r) : r[i] = CountOf(q, spaces[i])
  BY CountsType
<1>3. PICK j \in 1..Len(spaces) : spaces[j] = g
  BY SpacesInARow DEF Spaces
<1>4. \A i \in 1..Len(spaces) : spaces[i] = g => i = j
  BY <1>3, SpacesInARow
<1> HIDE DEF spaces, p, r
<1>5. \A i \in 1..Len(p) : r[i] = IF i = j THEN p[i] + 1 ELSE p[i]
  BY <1>1, <1>2, <1>3, <1>4 DEF CountOf, OneCounted
<1>6. Total(r) = Total(p) + 1
  BY <1>1, <1>2, <1>3, <1>5, TotalOfOneMore
<1> QED
  BY <1>1, <1>2, <1>6

LEMMA CountsSame ==
    ASSUME NEW s, NEW q, \A g \in Generations : q.work[g].count = s.work[g].count
    PROVE  Counts(q) = Counts(s)
<1>1. \A x : CountOf(q, x) = CountOf(s, x)
  BY DEF CountOf
<1> QED
  BY <1>1 DEF Counts

LEMMA CountsZero ==
    ASSUME NEW s \in StateType, \A g \in Generations : s.work[g].count = 0
    PROVE  Counts(s) = 0
<1> DEFINE spaces == SetToSeq(Spaces)
           p == [i \in DOMAIN spaces |-> CountOf(s, spaces[i])]
<1>1. p \in Seq(Int) /\ Counts(s) = Total(p)
      /\ \A i \in 1..Len(p) : p[i] = CountOf(s, spaces[i])
  BY CountsType
<1> HIDE DEF spaces, p
<1>2. \A i \in 1..Len(p) : p[i] = 0
  BY <1>1 DEF CountOf
<1> QED
  BY <1>1, <1>2, TotalOfZeros

-----------------------------------------------------------------------------
(* What a copy changes *)

\* Nothing that has a name is different, but where it is.
Kept(s, q) ==
    /\ Naming(q) /\ Contents(q) = Contents(s)
    /\ Named(s) \subseteq Named(q)
    /\ \A a \in Pointers(s) : Name(q, a) = Name(s, a)

LEMMA KeptTransitive ==
    ASSUME NEW s, NEW q, NEW r, Pointers(s) \subseteq Pointers(q), Kept(s, q), Kept(q, r)
    PROVE  Kept(s, r)
BY DEF Kept

\* Lists of names stay when the names of what is referred to do.
LEMMA SameNameList ==
    ASSUME NEW s, NEW q, NEW a, NEW b, ObjectAt(q.block, b).refs = ObjectAt(s.block, a).refs,
           \A x \in Targets(s, a) : Name(q, x) = Name(s, x)
    PROVE  NameList(q, b) = NameList(s, a)
<1> DEFINE refs == ObjectAt(s.block, a).refs
<1>1. \A i \in DOMAIN refs : Name(q, refs[i]) = Name(s, refs[i])
  BY DEF Targets, ToSet
<1>2. [i \in DOMAIN refs |-> Name(q, refs[i])] = [i \in DOMAIN refs |-> Name(s, refs[i])]
  BY <1>1
<1> QED
  BY <1>2 DEF NameList

LEMMA DuplicatedKeeps ==
    ASSUME NEW s \in StateType, NEW q \in StateType, Naming(s), MovedToCopies(s),
           NEW addr \in Named(s), addr \notin s.copies, NEW new, Duplicated(s, q, addr, new)
    PROVE  Kept(s, q)
<1>1. /\ Objects(q) = Objects(s) \cup {new} /\ new \notin Objects(s)
      /\ q.copies = s.copies \cup {new}
      /\ \A a \in Objects(s) :
           /\ ObjectAt(q.block, a).name = ObjectAt(s.block, a).name
           /\ ObjectAt(q.block, a).refs = ObjectAt(s.block, a).refs
           /\ ObjectAt(q.block, a).moved = IF a = addr THEN new ELSE ObjectAt(s.block, a).moved
      /\ ObjectAt(q.block, new).name = ObjectAt(s.block, addr).name
      /\ ObjectAt(q.block, new).refs = ObjectAt(s.block, addr).refs
      /\ ObjectAt(q.block, new).moved = Null
      /\ ObjectAt(s.block, addr).moved = Null
  BY DEF Duplicated
<1>2. NamesFit(s) /\ RefsNamed(s) /\ Twins(s) /\ OneOriginal(s) /\ CopiesNamed(s)
      /\ Functional(Contents(s))
  BY DEF Naming
<1>3. /\ \A a \in Named(s) : a \in Objects(s) /\ ObjectAt(s.block, a).name # 0
      /\ \A a \in Objects(q) : a \notin {Null, EmptyMap}
  BY ObjectFacts DEF Named
<1>4. Named(q) = Named(s) \cup {new}
  BY <1>1, <1>3 DEF Named
<1>5. NamesFit(q)
  BY <1>1, <1>2, <1>3 DEF NamesFit
<1>6. \A a \in Pointers(s) : Name(q, a) = Name(s, a)
  BY <1>1 DEF Name, Pointers
<1>7. Name(q, new) = Name(s, addr)
  BY <1>1, <1>3 DEF Name
<1>8. \A a \in Named(s) : Targets(s, a) \subseteq Pointers(s)
  BY <1>2, <1>3 DEF RefsNamed, Pointers
<1>9. \A a \in Named(s) : NameList(q, a) = NameList(s, a)
  BY <1>1, <1>3, <1>6, <1>8, SameNameList
<1>10. NameList(q, new) = NameList(s, addr)
  BY <1>1, <1>6, <1>8, SameNameList
<1>11. Contents(q) = Contents(s)
  <2>1. \A a \in Named(s) : <<Name(q, a), NameList(q, a)>> = <<Name(s, a), NameList(s, a)>>
    BY <1>3, <1>6, <1>9 DEF Pointers
  <2>2. <<Name(q, new), NameList(q, new)>> = <<Name(s, addr), NameList(s, addr)>>
    BY <1>7, <1>10
  <2>3. Contents(q) \subseteq Contents(s)
    BY <1>4, <2>1, <2>2 DEF Contents
  <2>4. Contents(s) \subseteq Contents(q)
    BY <1>4, <2>1 DEF Contents
  <2> QED
    BY <2>3, <2>4
<1>12. RefsNamed(q)
  <2>1. \A a \in Named(s) : Targets(q, a) = Targets(s, a)
    BY <1>1, <1>3 DEF Targets
  <2>2. Targets(q, new) = Targets(s, addr)
    BY <1>1 DEF Targets
  <2> QED
    BY <1>2, <1>4, <2>1, <2>2 DEF RefsNamed
<1>13. Twins(q)
  <2> SUFFICES ASSUME NEW a \in Objects(q), ObjectAt(q.block, a).moved # Null
               PROVE  Name(q, ObjectAt(q.block, a).moved) = Name(q, a)
    BY DEF Twins
  <2>1. a \in Objects(s)
    BY <1>1
  <2>2. CASE a = addr
    BY <1>1, <1>6, <1>7, <2>1, <2>2 DEF Pointers
  <2>3. CASE a # addr
    <3>1. ObjectAt(q.block, a).moved = ObjectAt(s.block, a).moved
      BY <1>1, <2>1, <2>3
    <3>2. ObjectAt(s.block, a).moved \in Objects(s)
      BY <1>2, <1>3, <2>1, <3>1 DEF MovedToCopies, CopiesNamed
    <3> QED
      BY <1>2, <1>6, <2>1, <3>1, <3>2 DEF Twins, Pointers
  <2> QED
    BY <2>2, <2>3
<1>14. OneOriginal(q)
  <2>1. ASSUME NEW a \in Named(s) PROVE Canon(q, a) = IF a = addr THEN new ELSE Canon(s, a)
    <3>1. new # Null
      BY <1>1, <1>3
    <3> QED
      BY <1>1, <1>3, <3>1 DEF Canon
  <2>2. Canon(q, new) = new
    BY <1>1 DEF Canon
  <2>3. ASSUME NEW a \in Named(s), Name(s, a) = Name(s, addr) PROVE a = addr
    <3>1. Canon(s, a) = Canon(s, addr)
      BY <1>2, <2>3 DEF OneOriginal
    <3>2. Canon(s, addr) = addr
      BY <1>1 DEF Canon
    <3>3. ObjectAt(s.block, a).moved # addr
      <4>1. addr # Null
        BY <1>1, <1>3
      <4> QED
        BY <1>3, <4>1 DEF MovedToCopies
    <3> QED
      BY <3>1, <3>2, <3>3 DEF Canon
  <2>4. \A a \in Named(s) : Name(q, a) = Name(s, a)
    BY <1>3, <1>6 DEF Pointers
  <2>5. ASSUME NEW a \in Named(q), NEW b \in Named(q), Name(q, a) = Name(q, b)
        PROVE  Canon(q, a) = Canon(q, b)
    <3>1. CASE a \in Named(s) /\ b \in Named(s)
      BY <1>2, <2>1, <2>3, <2>4, <2>5, <3>1 DEF OneOriginal
    <3>2. CASE a = new \/ b = new
      BY <1>4, <1>7, <2>1, <2>2, <2>3, <2>4, <2>5, <3>2
    <3> QED
      BY <1>4, <3>1, <3>2
  <2> QED
    BY <2>5 DEF OneOriginal
<1>15. CopiesNamed(q)
  BY <1>1, <1>2, <1>4 DEF CopiesNamed
<1>16. Naming(q)
  BY <1>2, <1>5, <1>11, <1>12, <1>13, <1>14, <1>15 DEF Naming
<1> QED
  BY <1>4, <1>6, <1>11, <1>16 DEF Kept

LEMMA DuplicatedCounts ==
    ASSUME NEW s \in StateType, NEW q \in StateType, CopiesCounted(s), s.copies \subseteq Objects(s),
           NEW addr, NEW new, Duplicated(s, q, addr, new)
    PROVE  CopiesCounted(q)
<1>1. new \notin s.copies /\ q.copies = s.copies \cup {new}
  BY DEF Duplicated
<1>2. PICK g \in Generations : OneCounted(s, q, g)
  BY DEF Duplicated
<1>3. Counts(q) = Counts(s) + 1
  BY <1>2, CountsMore
<1>4. IsFiniteSet(q.copies) /\ Cardinality(q.copies) = Cardinality(s.copies) + 1
  BY <1>1, FS_AddElement DEF CopiesCounted
<1> QED
  BY <1>3, <1>4 DEF CopiesCounted

LEMMA KeptReflexive ==
    ASSUME NEW s, Naming(s)
    PROVE  Kept(s, s)
BY DEF Kept

LEMMA EvacuateKeeps ==
    ASSUME NEW spaces \in SpacesType, NEW olds \in OldsType,
           NEW s, Sound(s, spaces, olds), ~s.failed, Naming(s), CopiesCounted(s),
           NEW addr \in Named(s) \cup {Null, EmptyMap}, addr \notin s.copies,
           NEW q, q = Evacuate(s, addr), ~q.failed
    PROVE  Kept(s, q) /\ CopiesCounted(q)
<1>1. addr \in Pointers(s)
  BY DEF Pointers, Named
<1>2. Sound(q, spaces, olds) /\ (q = s \/ (addr \in Objects(s) /\ \E new : Duplicated(s, q, addr, new)))
  BY <1>1, EvacuateSound
<1>3. CASE q = s
  BY <1>3, KeptReflexive
<1>4. CASE addr \in Objects(s) /\ \E new : Duplicated(s, q, addr, new)
  <2>1. PICK new : Duplicated(s, q, addr, new)
    BY <1>4
  <2>2. s \in StateType /\ q \in StateType /\ MovedToCopies(s) /\ s.copies \subseteq Objects(s)
    BY <1>2 DEF Sound, CopiesKept
  <2>3. addr \in Named(s)
    BY <1>4, <2>2, ObjectFacts
  <2>4. Kept(s, q)
    BY <2>1, <2>2, <2>3, DuplicatedKeeps
  <2>5. CopiesCounted(q)
    BY <2>1, <2>2, DuplicatedCounts
  <2> QED
    BY <2>4, <2>5
<1> QED
  BY <1>2, <1>3, <1>4

\* One copy after the other.
LEMMA EvacuateAllKeeps ==
    ASSUME NEW spaces \in SpacesType, NEW olds \in OldsType,
           NEW s, Sound(s, spaces, olds), Naming(s), CopiesCounted(s),
           NEW refs \in Seq(Addresses),
           \A i \in DOMAIN refs : refs[i] \in Named(s) \cup {Null, EmptyMap} /\ refs[i] \notin s.copies,
           NEW q, q = EvacuateAll(s, refs), ~q.failed
    PROVE  Kept(s, q) /\ CopiesCounted(q)
<1>1. PICK f : After(s, refs, f) /\ q = f[Len(refs)]
  BY AfterExists
<1> DEFINE Good(n) == /\ Sound(f[n], spaces, olds) /\ Onward(s, f[n])
                      /\ Kept(s, f[n]) /\ CopiesCounted(f[n])
           S == {n \in Nat : n <= Len(refs) /\ ~f[n].failed => Good(n)}
<1>2. 0 \in S
  <2>1. f[0] = s
    BY <1>1 DEF After
  <2>2. Good(0)
    BY <2>1, OnwardReflexive, KeptReflexive
  <2> QED
    BY <2>2
<1>3. ASSUME NEW n \in Nat, n \in S PROVE n + 1 \in S
  <2> SUFFICES ASSUME n + 1 <= Len(refs), ~f[n + 1].failed PROVE Good(n + 1)
    OBVIOUS
  <2>1. n + 1 \in DOMAIN refs /\ refs[n + 1] \in Addresses
    OBVIOUS
  <2>2. f[n + 1] = Evacuate(f[n], refs[n + 1])
    BY <1>1, <2>1 DEF After
  <2>3. ~f[n].failed
    BY <2>2 DEF Evacuate
  <2>4. Good(n)
    BY <1>3, <2>3
  <2>5. Evacuable(s, refs[n + 1])
    BY <2>1 DEF Evacuable, Pointers, Named
  <2>6. Evacuable(f[n], refs[n + 1])
    BY <2>4, <2>5, EvacuableOnward
  <2>7. refs[n + 1] \in Named(f[n]) \cup {Null, EmptyMap} /\ Naming(f[n])
    BY <2>1, <2>4 DEF Kept
  <2>8. Sound(f[n + 1], spaces, olds) /\ Onward(f[n], f[n + 1])
    BY <2>2, <2>3, <2>4, <2>6, EvacuateSound DEF Evacuable
  <2>9. Kept(f[n], f[n + 1]) /\ CopiesCounted(f[n + 1])
    BY <2>2, <2>3, <2>4, <2>6, <2>7, EvacuateKeeps DEF Evacuable
  <2>10. Onward(s, f[n + 1])
    BY <2>4, <2>8, OnwardTransitive
  <2>11. Kept(s, f[n + 1])
    <3>1. Pointers(s) \subseteq Pointers(f[n])
      BY <2>4 DEF Onward, Pointers
    <3> QED
      BY <2>4, <2>9, <3>1, KeptTransitive
  <2> QED
    BY <2>8, <2>9, <2>10, <2>11
<1>4. Nat \subseteq S
  <2> HIDE DEF Good
  <2> QED
    BY <1>2, <1>3, NatInductionOnSet
<1>5. Good(Len(refs))
  <2> HIDE DEF Good
  <2> QED
    BY <1>1, <1>4
<1> QED
  BY <1>1, <1>5

\* Where evacuate() leaves a pointer, there is an object of the same name.
LEMMA ForwardedName ==
    ASSUME NEW s \in StateType, Naming(s), NEW addr \in Pointers(s), IsEvacuated(s, addr)
    PROVE  /\ Forwarded(s, addr) \in s.copies \cup {Null, EmptyMap}
           /\ Name(s, Forwarded(s, addr)) = Name(s, addr)
           /\ Forwarded(s, addr) \in {Null, EmptyMap} => Forwarded(s, addr) = addr
<1>1. CASE addr \in {Null, EmptyMap}
  BY <1>1 DEF Forwarded
<1>2. CASE addr \notin {Null, EmptyMap}
  <2>1. addr \in Objects(s)
    BY <1>2 DEF Pointers
  <2>2. Forwarded(s, addr) = ObjectAt(s.block, addr).moved
    BY <1>2 DEF Forwarded
  <2>3. ObjectAt(s.block, addr).moved \in s.copies
    BY <1>2 DEF IsEvacuated
  <2>4. ObjectAt(s.block, addr).moved \notin {Null, EmptyMap}
    BY <2>3, ObjectFacts DEF Naming, CopiesNamed, Named
  <2> QED
    BY <2>1, <2>2, <2>3, <2>4 DEF Naming, Twins
<1> QED
  BY <1>1, <1>2

\* References to what those at addr refer to.
SameNames(s, addr, refs) ==
    /\ DOMAIN refs = DOMAIN ObjectAt(s.block, addr).refs
    /\ \A i \in DOMAIN refs :
         /\ refs[i] \in Named(s) \cup {EmptyMap}
         /\ Name(s, refs[i]) = Name(s, ObjectAt(s.block, addr).refs[i])

\* The scan of a copy changes where its references lead, not to what.
LEMMA ScanKeeps ==
    ASSUME NEW s \in StateType, Naming(s), MovedToCopies(s), NEW q, NEW addr \in s.copies, NEW refs,
           ScanOf(s, q, addr, refs), Objects(q) = Objects(s), SameNames(s, addr, refs)
    PROVE  Kept(s, q)
<1>16. /\ DOMAIN refs = DOMAIN ObjectAt(s.block, addr).refs
       /\ \A i \in DOMAIN refs :
            /\ refs[i] \in Named(s) \cup {EmptyMap}
            /\ Name(s, refs[i]) = Name(s, ObjectAt(s.block, addr).refs[i])
  BY DEF SameNames
<1>1. /\ q.copies = s.copies
      /\ \A a \in Objects(s) :
         /\ ObjectAt(q.block, a).moved = ObjectAt(s.block, a).moved
         /\ ObjectAt(q.block, a).name = ObjectAt(s.block, a).name
         /\ ObjectAt(q.block, a).refs = IF a = addr THEN refs ELSE ObjectAt(s.block, a).refs
  BY DEF ScanOf
<1>2. NamesFit(s) /\ RefsNamed(s) /\ Twins(s) /\ OneOriginal(s) /\ CopiesNamed(s)
      /\ Functional(Contents(s))
  BY DEF Naming
<1>3. addr \in Named(s) /\ (\A a \in Named(s) : a \in Objects(s))
  BY <1>2 DEF CopiesNamed, Named
<1>4. Named(q) = Named(s)
  BY <1>1 DEF Named
<1>5. \A a \in Pointers(s) : Name(q, a) = Name(s, a)
  BY <1>1 DEF Name, Pointers
<1>6. \A a \in Named(s) : Targets(s, a) \subseteq Pointers(s)
  BY <1>2, <1>3 DEF RefsNamed, Pointers
<1>7. \A a \in Named(s) : a # addr => NameList(q, a) = NameList(s, a)
  BY <1>1, <1>3, <1>5, <1>6, SameNameList
<1>8. NameList(q, addr) = NameList(s, addr)
  <2> DEFINE before == ObjectAt(s.block, addr).refs
  <2>1. ObjectAt(q.block, addr).refs = refs
    BY <1>1, <1>3
  <2>2. \A i \in DOMAIN before : Name(q, refs[i]) = Name(s, before[i])
    BY <1>3, <1>5, <1>16 DEF Pointers
  <2>3. [i \in DOMAIN before |-> Name(q, refs[i])] = [i \in DOMAIN before |-> Name(s, before[i])]
    BY <2>2
  <2> QED
    BY <1>16, <2>1, <2>3 DEF NameList
<1>9. Contents(q) = Contents(s)
  <2>1. \A a \in Named(s) : <<Name(q, a), NameList(q, a)>> = <<Name(s, a), NameList(s, a)>>
    BY <1>3, <1>5, <1>7, <1>8 DEF Pointers
  <2>2. Contents(q) \subseteq Contents(s)
    BY <1>4, <2>1 DEF Contents
  <2>3. Contents(s) \subseteq Contents(q)
    BY <1>4, <2>1 DEF Contents
  <2> QED
    BY <2>2, <2>3
<1>10. NamesFit(q)
  BY <1>1, <1>2 DEF NamesFit
<1>11. RefsNamed(q)
  <2>1. \A a \in Named(s) : a # addr => Targets(q, a) = Targets(s, a)
    BY <1>1, <1>3 DEF Targets
  <2>2. Targets(q, addr) = ToSet(refs)
    BY <1>1, <1>3 DEF Targets
  <2>3. ToSet(refs) \subseteq Named(s) \cup {EmptyMap}
    BY <1>16 DEF ToSet
  <2> QED
    BY <1>2, <1>4, <2>1, <2>2, <2>3 DEF RefsNamed
<1>12. Twins(q)
  <2>1. \A a \in Objects(s) : ObjectAt(s.block, a).moved \in Objects(s) \cup {Null}
    BY <1>2, <1>3 DEF MovedToCopies, CopiesNamed
  <2> QED
    BY <1>1, <1>2, <1>5, <2>1 DEF Twins, Pointers
<1>13. OneOriginal(q)
  <2>1. \A a \in Named(s) : Canon(q, a) = Canon(s, a) /\ Name(q, a) = Name(s, a)
    BY <1>1, <1>3, <1>5 DEF Canon, Pointers
  <2> QED
    BY <1>2, <1>4, <2>1 DEF OneOriginal
<1>14. CopiesNamed(q)
  BY <1>1, <1>2, <1>4 DEF CopiesNamed
<1>15. Naming(q)
  BY <1>2, <1>9, <1>10, <1>11, <1>12, <1>13, <1>14 DEF Naming
<1> QED
  BY <1>4, <1>5, <1>9, <1>15 DEF Kept

-----------------------------------------------------------------------------
(* What is reachable in memory *)

LEMMA ReferencesOfNamed ==
    ASSUME State \in StateType, BlocksFit(State), RefsNamed(State), NEW a \in Named(State)
    PROVE  /\ IsObject(a) /\ RefsAt(a) = Targets(State, a)
           /\ RefsAt(a) \subseteq Named(State) \cup {EmptyMap}
<1>1. a \in Objects(State) /\ a \notin {Null, EmptyMap}
  BY ObjectFacts DEF Named
<1>2. block[a[1]].owner # NoOwner
  BY <1>1, StateFields, OwnerOfObject, AddressFacts
<1>3. a[2] \in DOMAIN block[a[1]].objects
  BY <1>1, StateFields DEF Objects
<1>4. IsObject(a)
  BY <1>2, <1>3 DEF IsObject
<1>5. RefsAt(a) = Targets(State, a)
  BY <1>1, <1>4, StateFields DEF RefsAt, Targets
<1> QED
  BY <1>4, <1>5 DEF RefsNamed

\* One more reference from addresses leads as far as one from their names.
LEMMA FurtherNames ==
    ASSUME State \in StateType, BlocksFit(State), Naming(State),
           NEW g, g = GraphOf(Contents(State)),
           NEW addrs, addrs \subseteq Named(State) \cup {Null, EmptyMap}
    PROVE  /\ Onwards(addrs) \subseteq Named(State) \cup {Null, EmptyMap}
           /\ NamesAt(State, Onwards(addrs)) = Further(g, NamesAt(State, addrs))
<1>1. NamesFit(State) /\ RefsNamed(State) /\ Functional(Contents(State))
  BY DEF Naming
<1>2. /\ DOMAIN g \subseteq Names
      /\ \A a \in Named(State) : Name(State, a) \in DOMAIN g /\ g[Name(State, a)] = NameList(State, a)
  BY <1>1, GraphFacts DEF NamesAt
<1>3. /\ Name(State, Null) \notin DOMAIN g /\ Name(State, EmptyMap) \notin DOMAIN g
  BY <1>1, <1>2, NameFacts
<1>4. RefsAt(Null) = {} /\ RefsAt(EmptyMap) = {}
  BY RefsAreTargets
<1>5. \A a \in Named(State) : RefsAt(a) = Targets(State, a)
                              /\ RefsAt(a) \subseteq Named(State) \cup {EmptyMap}
  BY <1>1, ReferencesOfNamed
<1>6. ASSUME NEW a \in Named(State) PROVE NamesAt(State, Targets(State, a)) = ToSet(NameList(State, a))
  <2> DEFINE refs == ObjectAt(State.block, a).refs
  <2>1. NameList(State, a) = [i \in DOMAIN refs |-> Name(State, refs[i])]
    BY DEF NameList
  <2>2. Targets(State, a) = {refs[i] : i \in DOMAIN refs}
    BY DEF Targets, ToSet
  <2>3. ToSet(NameList(State, a)) = {Name(State, refs[i]) : i \in DOMAIN refs}
    BY <2>1 DEF ToSet
  <2> HIDE DEF refs
  <2> QED
    BY <2>2, <2>3 DEF NamesAt
<1>7. ASSUME NEW a \in Named(State) \cup {Null, EmptyMap}
      PROVE  NamesAt(State, RefsAt(a)) = RefsOf(g, Name(State, a))
  <2>1. CASE a \in Named(State)
    BY <1>2, <1>5, <1>6, <2>1 DEF RefsOf
  <2>2. CASE a \in {Null, EmptyMap}
    BY <1>3, <1>4, <2>2 DEF RefsOf, NamesAt
  <2> QED
    BY <2>1, <2>2
<1>8. Onwards(addrs) \subseteq Named(State) \cup {Null, EmptyMap}
  BY <1>4, <1>5 DEF Onwards
<1>9. \A n : n \in NamesAt(State, Onwards(addrs)) <=>
             \E a \in addrs : n = Name(State, a) \/ n \in NamesAt(State, RefsAt(a))
  BY DEF NamesAt, Onwards
<1>10. \A n : n \in Further(g, NamesAt(State, addrs)) <=>
              \E a \in addrs : n = Name(State, a) \/ n \in RefsOf(g, Name(State, a))
  BY DEF NamesAt, Further
<1> QED
  BY <1>7, <1>8, <1>9, <1>10

LEMMA ReachedNames ==
    ASSUME State \in StateType, BlocksFit(State), Naming(State),
           NEW g, g = GraphOf(Contents(State)),
           NEW roots, roots \subseteq Named(State) \cup {Null, EmptyMap}
    PROVE  /\ ReachableFrom(roots) \subseteq Named(State)
           /\ Spans(NamesAt(State, ReachableFrom(roots)), NamesAt(State, roots), g)
<1>1. PICK f : Levels(roots, f) /\ ReachableFrom(roots) = f[NameCount] \ {Null, EmptyMap}
  BY LevelsExist
<1>2. \A n \in 0..NameCount : f[n] = IF n = 0 THEN roots ELSE Onwards(f[n - 1])
  BY <1>1 DEF Levels
<1>3. NameCount \in Nat
  BY NamesAreFinite
<1> DEFINE Fits(n) == f[n] \subseteq Named(State) \cup {Null, EmptyMap}
           T == {n \in Nat : n <= NameCount => Fits(n)}
<1>4. 0 \in T
  BY <1>2, <1>3
<1>5. ASSUME NEW n \in Nat, n \in T PROVE n + 1 \in T
  <2> SUFFICES ASSUME n + 1 <= NameCount PROVE Fits(n + 1)
    OBVIOUS
  <2>1. Fits(n) /\ n + 1 \in 0..NameCount /\ n + 1 # 0 /\ (n + 1) - 1 = n
    BY <1>3, <1>5
  <2>2. f[n + 1] = Onwards(f[n])
    BY <1>2, <2>1
  <2> QED
    BY <2>1, <2>2, FurtherNames
<1>6. Nat \subseteq T
  <2> HIDE DEF T
  <2> QED
    BY <1>4, <1>5, NatInductionOnSet
<1>7. \A n \in 0..NameCount : Fits(n)
  BY <1>3, <1>6
<1> DEFINE h == [n \in 0..NameCount |-> NamesAt(State, f[n])]
           start == NamesAt(State, roots)
<1>8. NameLevels(start, g, h)
  <2> SUFFICES ASSUME NEW n \in 0..NameCount
               PROVE  h[n] = IF n = 0 THEN start ELSE Further(g, h[n - 1])
    BY DEF NameLevels
  <2>1. CASE n = 0
    BY <1>2, <2>1
  <2>2. CASE n # 0
    <3>1. n - 1 \in 0..NameCount
      BY <1>3, <2>2
    <3>2. f[n] = Onwards(f[n - 1]) /\ Fits(n - 1)
      BY <1>2, <1>7, <2>2, <3>1
    <3>3. NamesAt(State, f[n]) = Further(g, NamesAt(State, f[n - 1]))
      BY <3>2, FurtherNames
    <3>4. h[n] = NamesAt(State, f[n]) /\ h[n - 1] = NamesAt(State, f[n - 1])
      BY <3>1
    <3> HIDE DEF h
    <3> QED
      BY <2>2, <3>3, <3>4
  <2> QED
    BY <2>1, <2>2
<1>9. NamesFit(State) /\ Functional(Contents(State))
  BY DEF Naming
<1>10. DOMAIN g \subseteq Names /\ DOMAIN g = NamesAt(State, Named(State))
  BY <1>9, GraphFacts
<1> HIDE DEF h, start
<1>11. Spans(h[NameCount] \cap DOMAIN g, start, g)
  BY <1>8, <1>10, LastLevelSpans
<1>12. h[NameCount] = NamesAt(State, f[NameCount]) /\ Fits(NameCount)
  BY <1>3, <1>7 DEF h
<1>13. ReachableFrom(roots) \subseteq Named(State)
  BY <1>1, <1>12
<1>14. Name(State, Null) \notin DOMAIN g /\ Name(State, EmptyMap) \notin DOMAIN g
  BY <1>9, <1>10, NameFacts
<1>15. NamesAt(State, f[NameCount]) \cap DOMAIN g = NamesAt(State, ReachableFrom(roots))
  BY <1>1, <1>10, <1>13, <1>14 DEF NamesAt
<1> QED
  BY <1>11, <1>12, <1>13, <1>15 DEF start

-----------------------------------------------------------------------------
(* What is forgotten *)

\* Objects that stay refer to names that stay, by references that are not
\* to be forwarded.
Stays(s, gone, live) ==
    /\ live \subseteq Named(s)
    /\ \A a \in live :
         /\ a[1] \notin gone /\ ObjectAt(s.block, a).moved = Null
         /\ \A x \in Targets(s, a) \cap Named(s) :
              ObjectAt(s.block, x).moved = Null /\ Name(s, x) \in NamesAt(s, live)

\* A name that stays has one place.
LEMMA OnePlace ==
    ASSUME NEW s, OneOriginal(s), NEW live \in SUBSET Named(s),
           \A a \in live : ObjectAt(s.block, a).moved = Null,
           NEW a \in Named(s), ObjectAt(s.block, a).moved = Null, Name(s, a) \in NamesAt(s, live)
    PROVE  a \in live
<1>1. PICK b \in live : Name(s, b) = Name(s, a)
  BY DEF NamesAt
<1>2. Canon(s, a) = a /\ Canon(s, b) = b
  BY DEF Canon
<1>3. b = a
  BY <1>1, <1>2 DEF OneOriginal
<1> QED
  BY <1>1, <1>3

LEMMA SettledKeeps ==
    ASSUME NEW s \in StateType, NEW q \in StateType, Naming(s), NEW gone, NEW live,
           Settles(s, q, gone, live), Objects(q) = {x \in Objects(s) : x[1] \notin gone},
           Stays(s, gone, live),
           NEW g, g = GraphOf(Contents(s)), NEW h, h = GraphOf(Contents(q))
    PROVE  /\ Naming(q) /\ Named(q) = live
           /\ \A a \in live \cup {Null, EmptyMap} : Name(q, a) = Name(s, a)
           /\ h = [n \in NamesAt(s, live) |-> g[n]]
<1>1. NamesFit(s) /\ RefsNamed(s) /\ OneOriginal(s) /\ Functional(Contents(s))
  BY DEF Naming
<1>2. /\ live \subseteq Named(s)
      /\ \A a \in live : a[1] \notin gone /\ ObjectAt(s.block, a).moved = Null
  BY DEF Stays
<1>3. \A a \in Named(s) : a \in Objects(s) /\ ObjectAt(s.block, a).name # 0
  BY DEF Named
<1>4. \A a \in Objects(q) : ObjectAt(q.block, a) = IF a \in live THEN ObjectAt(s.block, a)
                                                   ELSE Blank(ObjectAt(s.block, a))
  <2> SUFFICES ASSUME NEW a \in Objects(q)
               PROVE  ObjectAt(q.block, a) = IF a \in live THEN ObjectAt(s.block, a)
                                             ELSE Blank(ObjectAt(s.block, a))
    OBVIOUS
  <2>1. /\ a[1] \in Blocks /\ a[1] \notin gone /\ a[2] \in 1..Len(s.block[a[1]].objects)
        /\ a = <<a[1], a[2]>>
    BY ObjectFacts
  <2> QED
    BY <2>1 DEF Settles, ObjectAt
<1>5. \A a \in Objects(q) : /\ a \in live => ObjectAt(q.block, a) = ObjectAt(s.block, a)
                            /\ a \notin live => ObjectAt(q.block, a).name = 0
                            /\ ObjectAt(q.block, a).moved = Null
  <2>1. \A o : Blank(o).name = 0 /\ Blank(o).moved = Null
    BY DEF Blank
  <2> QED
    BY <1>2, <1>4, <2>1
<1>6. Named(q) = live
  BY <1>2, <1>3, <1>5 DEF Named
<1>7. \A a \in live : a \in Objects(q) /\ ObjectAt(q.block, a) = ObjectAt(s.block, a)
  BY <1>2, <1>3, <1>5
<1>8. \A a \in live \cup {Null, EmptyMap} : Name(q, a) = Name(s, a)
  BY <1>7 DEF Name
<1>9. \A a \in live : Targets(s, a) \subseteq live \cup {EmptyMap}
  <2> SUFFICES ASSUME NEW a \in live, NEW x \in Targets(s, a), x # EmptyMap PROVE x \in live
    OBVIOUS
  <2>1. x \in Named(s)
    BY <1>1, <1>2 DEF RefsNamed
  <2>2. ObjectAt(s.block, x).moved = Null /\ Name(s, x) \in NamesAt(s, live)
    BY <2>1 DEF Stays
  <2> QED
    BY <1>1, <1>2, <2>1, <2>2, OnePlace
<1>10. \A a \in live : NameList(q, a) = NameList(s, a)
  BY <1>7, <1>8, <1>9, SameNameList
<1>11. Contents(q) \subseteq Contents(s)
  BY <1>2, <1>6, <1>8, <1>10 DEF Contents
<1>12. Naming(q)
  <2>1. NamesFit(q)
    BY <1>1, <1>2, <1>3, <1>5 DEF NamesFit
  <2>2. RefsNamed(q)
    BY <1>6, <1>7, <1>9 DEF RefsNamed, Targets
  <2>3. Twins(q)
    BY <1>5 DEF Twins
  <2>4. OneOriginal(q)
    BY <1>1, <1>2, <1>6, <1>7, <1>8 DEF OneOriginal, Canon
  <2>5. CopiesNamed(q)
    BY DEF CopiesNamed, Settles
  <2>6. Functional(Contents(q))
    BY <1>1, <1>11 DEF Functional
  <2> QED
    BY <2>1, <2>2, <2>3, <2>4, <2>5, <2>6 DEF Naming
<1>13. h = [n \in NamesAt(s, live) |-> g[n]]
  <2>1. \A a \in Named(s) : g[Name(s, a)] = NameList(s, a)
    BY <1>1, GraphFacts
  <2>2. DOMAIN h = NamesAt(q, live) /\ \A a \in live : h[Name(q, a)] = NameList(q, a)
    BY <1>6, <1>12, GraphFacts DEF Naming
  <2>3. NamesAt(q, live) = NamesAt(s, live)
    BY <1>8 DEF NamesAt
  <2>4. \A n \in NamesAt(s, live) : h[n] = g[n]
    BY <1>2, <1>8, <1>10, <2>1, <2>2 DEF NamesAt
  <2>5. h = [n \in DOMAIN h |-> h[n]]
    BY DEF GraphOf
  <2>6. [n \in NamesAt(s, live) |-> h[n]] = [n \in NamesAt(s, live) |-> g[n]]
    BY <2>4
  <2> QED
    BY <2>2, <2>3, <2>5, <2>6
<1> QED
  BY <1>6, <1>8, <1>12, <1>13

-----------------------------------------------------------------------------
(* The invariant *)

HandlesNamed == \A h \in Handles : handle[h] \in Named(State) \cup {Null, EmptyMap}

PointersHeld ==
    \A t \in Threads : pointer[t] = Null \/ (inUse[t] \in Handles /\ pointer[t] = handle[inUse[t]])

\* Every name is reachable from a handle.
AllReached ==
    LET g == GraphOf(Contents(State)) IN Spans(DOMAIN g, NamesAt(State, Range(handle)), g)

NothingCounted == collecting => \A g \in Generations : space[g].count = 0

GInv ==
    /\ Naming(State) /\ CopiesCounted(State)
    /\ HandlesNamed /\ PointersHeld /\ AllReached /\ NothingCounted

Inv == IInv /\ GInv

LEMMA InvFacts ==
    ASSUME Inv
    PROVE  /\ IInv /\ VariablesType /\ Sound(State, space, old) /\ State \in StateType
           /\ BlocksFit(State) /\ MovedToCopies(State) /\ Naming(State) /\ CopiesCounted(State)
           /\ HandlesNamed /\ PointersHeld /\ AllReached /\ NothingCounted
           /\ Range(handle) = {handle[h] : h \in Handles}
           /\ Range(handle) \subseteq Named(State) \cup {Null, EmptyMap}
           /\ Roots \subseteq Range(handle) \cup {Null} /\ Range(handle) \subseteq Roots
<1>1. IInv /\ VariablesType /\ Sound(State, space, old) /\ GInv
  BY DEF Inv, IInv
<1>2. Range(handle) = {handle[h] : h \in Handles}
  <2>1. DOMAIN handle = Handles
    BY <1>1 DEF VariablesType
  <2> QED
    BY <2>1 DEF Range
<1>3. Range(handle) \subseteq Named(State) \cup {Null, EmptyMap}
  BY <1>1, <1>2 DEF GInv, HandlesNamed
<1>4. Roots \subseteq Range(handle) \cup {Null} /\ Range(handle) \subseteq Roots
  BY <1>1, <1>2 DEF GInv, PointersHeld, Roots
<1> QED
  BY <1>1, <1>2, <1>3, <1>4 DEF GInv, Sound

\* What is reachable from the handles, or from the threads too, has every name.
LEMMA ReachedIsAll ==
    ASSUME Inv, NEW roots, roots \subseteq Range(handle) \cup {Null}, Range(handle) \subseteq roots,
           NEW g, g = GraphOf(Contents(State))
    PROVE  /\ ReachableFrom(roots) \subseteq Named(State)
           /\ NamesAt(State, ReachableFrom(roots)) = DOMAIN g
<1>1. State \in StateType /\ BlocksFit(State) /\ Naming(State) /\ AllReached
      /\ Range(handle) \subseteq Named(State) \cup {Null, EmptyMap}
  BY InvFacts
<1>2. roots \subseteq Named(State) \cup {Null, EmptyMap}
  BY <1>1
<1> DEFINE reached == NamesAt(State, ReachableFrom(roots))
           start == NamesAt(State, roots)
           handles == NamesAt(State, Range(handle))
<1>3. ReachableFrom(roots) \subseteq Named(State) /\ Spans(reached, start, g)
  BY <1>1, <1>2, ReachedNames
<1>4. Spans(DOMAIN g, handles, g)
  BY <1>1 DEF AllReached
<1>5. start \cap DOMAIN g = handles \cap DOMAIN g
  <2>1. Name(State, Null) \notin DOMAIN g
    BY <1>1, GraphFacts, NameFacts DEF Naming
  <2> QED
    BY <2>1 DEF NamesAt
<1> HIDE DEF reached, start, handles
<1>6. reached = DOMAIN g
  BY <1>3, <1>4, <1>5, OneSpan
<1> QED
  BY <1>3, <1>6 DEF reached

\* The abstract state of what is in memory.
LEMMA ClientView ==
    ASSUME Inv, NEW g, g = GraphOf(Contents(State))
    PROVE  /\ LiveGraph = g
           /\ \A h \in Handles : NameOf(handle[h]) = Name(State, handle[h])
           /\ LiveNames = DOMAIN g
<1>1. State \in StateType /\ BlocksFit(State) /\ Naming(State) /\ HandlesNamed
  BY InvFacts
<1>2. NamesFit(State) /\ RefsNamed(State) /\ Functional(Contents(State))
  BY <1>1 DEF Naming
<1>3. \A a \in Named(State) \cup {Null, EmptyMap} : NameOf(a) = Name(State, a)
  <2>1. NameOf(Null) = -1 /\ NameOf(EmptyMap) = 0
    BY AddressFacts DEF NameOf
  <2>2. ASSUME NEW a \in Named(State) PROVE NameOf(a) = ObjectAt(block, a).name
    <3>1. IsObject(a) /\ a \notin {Null, EmptyMap}
      BY <1>1, <1>2, ReferencesOfNamed, ObjectFacts DEF Named
    <3> QED
      BY <3>1 DEF NameOf
  <2>3. \A a \in Named(State) : Name(State, a) = ObjectAt(block, a).name
    BY <1>1, <1>2, NameFacts, StateFields
  <2>4. Name(State, Null) = -1 /\ Name(State, EmptyMap) = 0
    BY <1>1, <1>2, NameFacts
  <2> QED
    BY <2>1, <2>2, <2>3, <2>4
<1>4. \A a \in Named(State) : IsObject(a)
  BY <1>1, <1>2, ReferencesOfNamed
<1>5. ASSUME NEW a \in Named(State) PROVE NamesIn(a) = NameList(State, a)
  <2> DEFINE refs == ObjectAt(block, a).refs
  <2>1. \A i \in DOMAIN refs : NameOf(refs[i]) = Name(State, refs[i])
    BY <1>2, <1>3, StateFields DEF RefsNamed, Targets, ToSet
  <2>2. [i \in DOMAIN refs |-> NameOf(refs[i])] = [i \in DOMAIN refs |-> Name(State, refs[i])]
    BY <2>1
  <2>3. State.block = block
    BY StateFields
  <2> QED
    BY <2>2, <2>3 DEF NamesIn, NameList
<1>6. \A a \in Named(State) : g[Name(State, a)] = NameList(State, a)
  BY <1>1, <1>2, GraphFacts
<1> DEFINE reached == ReachableFrom(Range(handle))
           live == {a \in reached : IsObject(a)}
<1>7. reached \subseteq Named(State) /\ NamesAt(State, reached) = DOMAIN g
  BY ReachedIsAll
<1>8. live = reached
  BY <1>4, <1>7
<1>9. LiveGraph = [n \in {NameOf(a) : a \in live} |-> NamesIn(CHOOSE a \in live : NameOf(a) = n)]
  BY Zenon DEF LiveGraph
<1> HIDE DEF reached, live
<1>10. {NameOf(a) : a \in live} = DOMAIN g
  <2>1. \A a \in live : NameOf(a) = Name(State, a)
    BY <1>3, <1>7, <1>8
  <2> QED
    BY <1>7, <1>8, <2>1 DEF NamesAt
<1>11. ASSUME NEW n \in DOMAIN g PROVE NamesIn(CHOOSE a \in live : NameOf(a) = n) = g[n]
  <2> DEFINE a == CHOOSE x \in live : NameOf(x) = n
  <2>1. \E x \in live : NameOf(x) = n
    BY <1>10
  <2>2. a \in live /\ NameOf(a) = n
    BY <2>1
  <2> HIDE DEF a
  <2>3. NamesIn(a) = g[n]
    BY <1>3, <1>5, <1>6, <1>7, <1>8, <2>2
  <2> QED
    BY <2>3 DEF a
<1>12. LiveGraph = g
  <2>1. [n \in DOMAIN g |-> NamesIn(CHOOSE a \in live : NameOf(a) = n)] = [n \in DOMAIN g |-> g[n]]
    BY <1>11
  <2>2. g = [n \in DOMAIN g |-> g[n]]
    BY DEF GraphOf
  <2> QED
    BY <1>9, <1>10, <2>1, <2>2
<1>13. LiveNames = DOMAIN g
  <2>1. Roots \subseteq Range(handle) \cup {Null} /\ Range(handle) \subseteq Roots
    BY InvFacts
  <2>2. ReachableFrom(Roots) \subseteq Named(State) /\ NamesAt(State, ReachableFrom(Roots)) = DOMAIN g
    BY <2>1, ReachedIsAll
  <2>3. LiveNames = NamesAt(State, ReachableFrom(Roots))
    BY <1>3, <2>2 DEF LiveNames, NamesAt
  <2> QED
    BY <2>2, <2>3
<1> QED
  BY <1>1, <1>3, <1>12, <1>13 DEF HandlesNamed

\* Between collections, each name has one object.
LEMMA RestView ==
    ASSUME Inv, ~collecting
    PROVE  /\ ReachableFrom(Roots) = Named(State)
           /\ Cardinality(LiveNames) = Cardinality(ReachableFrom(Roots))
<1> DEFINE g == GraphOf(Contents(State))
           live == ReachableFrom(Roots)
<1>1. /\ State \in StateType /\ OneOriginal(State) /\ NamesFit(State)
      /\ Functional(Contents(State))
      /\ Roots \subseteq Range(handle) \cup {Null} /\ Range(handle) \subseteq Roots
  BY InvFacts DEF Naming
<1>2. live \subseteq Named(State) /\ NamesAt(State, live) = DOMAIN g
  BY <1>1, ReachedIsAll
<1>3. \A a \in Named(State) : ObjectAt(State.block, a).moved = Null
  BY RestFacts, StateFields DEF Inv, Named
<1>4. DOMAIN g = NamesAt(State, Named(State)) /\ DOMAIN g \subseteq Names
  BY <1>1, GraphFacts
<1>5. live = Named(State)
  <2> SUFFICES ASSUME NEW a \in Named(State) PROVE a \in live
    BY <1>2
  <2>1. Name(State, a) \in NamesAt(State, live)
    BY <1>2, <1>4 DEF NamesAt
  <2> HIDE DEF live
  <2>2. live \in SUBSET Named(State) /\ \A x \in live : ObjectAt(State.block, x).moved = Null
    BY <1>2, <1>3
  <2> QED
    BY <1>1, <1>3, <2>1, <2>2, OnePlace
<1>6. LiveNames = DOMAIN g
  BY ClientView
<1> DEFINE f == [a \in Named(State) |-> Name(State, a)]
<1>7. f \in Injection(Named(State), DOMAIN g) /\ f \in Surjection(Named(State), DOMAIN g)
  <2>1. f \in [Named(State) -> DOMAIN g]
    BY <1>4 DEF NamesAt
  <2>2. ASSUME NEW a \in Named(State), NEW b \in Named(State), f[a] = f[b] PROVE a = b
    <3>1. Canon(State, a) = Canon(State, b)
      BY <1>1, <2>2 DEF OneOriginal
    <3> QED
      BY <1>3, <3>1 DEF Canon
  <2>3. \A n \in DOMAIN g : \E a \in Named(State) : f[a] = n
    BY <1>4 DEF NamesAt
  <2> HIDE DEF f, g
  <2>4. f \in Injection(Named(State), DOMAIN g)
    BY <2>1, <2>2, Fun_IsInj
  <2>5. f \in Surjection(Named(State), DOMAIN g)
    BY <2>1, <2>3, Fun_IsSurj
  <2> QED
    BY <2>4, <2>5
<1>8. IsFiniteSet(DOMAIN g)
  BY <1>4, NamesAreFinite
<1> HIDE DEF f, g, live
<1>9. Cardinality(Named(State)) = Cardinality(DOMAIN g)
  BY <1>7, <1>8, FS_Injection
<1> QED
  BY <1>5, <1>6, <1>9 DEF live

-----------------------------------------------------------------------------
(* The steps of a collection *)

\* Clients see nothing of it.
ViewKept ==
    /\ GraphOf(Contents(State')) = GraphOf(Contents(State))
    /\ \A h \in Handles : Name(State', handle'[h]) = Name(State, handle[h])

LEMMA StartNames ==
    VariablesType => NamesAt(State, Range(handle)) = {Name(State, handle[h]) : h \in Handles}
<1> SUFFICES ASSUME VariablesType
             PROVE  NamesAt(State, Range(handle)) = {Name(State, handle[h]) : h \in Handles}
  OBVIOUS
<1>1. DOMAIN handle = Handles
  BY DEF VariablesType
<1> QED
  BY <1>1 DEF NamesAt, Range

LEMMA StartNamesNext ==
    VariablesType' =>
      NamesAt(State', Range(handle')) = {Name(State', handle'[h]) : h \in Handles}
<1>1. (VariablesType => NamesAt(State, Range(handle)) = {Name(State, handle[h]) : h \in Handles})'
  BY StartNames, PTL
<1> QED
  BY <1>1

LEMMA ViewKeptInv ==
    ASSUME Inv, IInv', ViewKept, Naming(State'), CopiesCounted(State'),
           HandlesNamed', PointersHeld', NothingCounted'
    PROVE  Inv'
<1>1. VariablesType /\ VariablesType' /\ AllReached
  BY InvFacts DEF IInv
<1> DEFINE g == GraphOf(Contents(State))
<1>2. Spans(DOMAIN g, NamesAt(State, Range(handle)), g)
  BY <1>1 DEF AllReached
<1>3. NamesAt(State', Range(handle')) = NamesAt(State, Range(handle))
  BY <1>1, StartNames, StartNamesNext DEF ViewKept
<1>4. GraphOf(Contents(State')) = g
  BY DEF ViewKept
<1>5. Spans(DOMAIN GraphOf(Contents(State')), NamesAt(State', Range(handle')),
            GraphOf(Contents(State')))
  BY <1>2, <1>3, <1>4
<1>6. AllReached'
  BY <1>5 DEF AllReached
<1> QED
  BY <1>6 DEF Inv, GInv

\* A step that moves objects, within a collection.
LEMMA KeptInv ==
    ASSUME Inv, IInv', Kept(State, State'), CopiesCounted(State'),
           UNCHANGED <<space, collecting, pointer, inUse>>, collecting,
           \A h \in Handles : /\ handle'[h] \in Named(State') \cup {Null, EmptyMap}
                              /\ Name(State', handle'[h]) = Name(State, handle[h])
    PROVE  Inv' /\ ViewKept
<1>1. IInv /\ NothingCounted
  BY InvFacts
<1>2. ViewKept
  BY DEF ViewKept, Kept
<1>3. HandlesNamed'
  BY DEF HandlesNamed
<1>4. PointersHeld'
  <2>1. \A t \in Threads : pointer[t] = Null
    BY <1>1 DEF IInv, Phases
  <2> QED
    BY <2>1 DEF PointersHeld
<1>5. NothingCounted'
  BY <1>1 DEF NothingCounted
<1> QED
  BY <1>2, <1>3, <1>4, <1>5, ViewKeptInv DEF Kept

\* A step that moves none.
LEMMA MemoryKept ==
    ASSUME Inv, IInv', UNCHANGED <<block, copies, handle>>,
           \A g \in Generations : work'[g].count = work[g].count
    PROVE  /\ Kept(State, State') /\ CopiesCounted(State')
           /\ \A h \in Handles : /\ handle'[h] \in Named(State') \cup {Null, EmptyMap}
                                 /\ Name(State', handle'[h]) = Name(State, handle[h])
<1>1. Naming(State) /\ CopiesCounted(State) /\ HandlesNamed
  BY InvFacts
<1>2. /\ State'.block = State.block /\ State'.copies = State.copies
      /\ \A g \in Generations : State'.work[g].count = State.work[g].count
  BY DEF State
<1> DEFINE s == State
           q == State'
<1>3. \A a : Name(q, a) = Name(s, a) /\ NameList(q, a) = NameList(s, a)
             /\ Targets(q, a) = Targets(s, a) /\ Canon(q, a) = Canon(s, a)
  BY <1>2 DEF Name, NameList, Targets, Canon
<1>4. Objects(q) = Objects(s) /\ Named(q) = Named(s)
  BY <1>2 DEF Objects, Named
<1>5. Contents(q) = Contents(s)
  BY <1>3, <1>4 DEF Contents
<1>6. Naming(q)
  BY <1>1, <1>2, <1>3, <1>4, <1>5
     DEF Naming, NamesFit, RefsNamed, Twins, OneOriginal, CopiesNamed
<1>7. Kept(s, q)
  BY <1>3, <1>4, <1>5, <1>6 DEF Kept
<1>8. CopiesCounted(q)
  <2>1. Counts(q) = Counts(s)
    BY <1>2, CountsSame
  <2> QED
    BY <1>1, <1>2, <2>1 DEF CopiesCounted
<1> QED
  BY <1>1, <1>3, <1>4, <1>7, <1>8 DEF HandlesNamed

LEMMA EvacuateRootKeepsInv ==
    ASSUME Inv, NEW h \in Handles, EvacuateRoot(h)
    PROVE  Inv' /\ ViewKept
<1>1. /\ IInv /\ VariablesType /\ Sound(State, space, old) /\ Naming(State)
      /\ CopiesCounted(State) /\ HandlesNamed
      /\ space \in SpacesType /\ old \in OldsType
  BY InvFacts DEF VariablesType
<1>2. IInv'
  BY <1>1, EvacuateRootKeepsIInv
<1>3. /\ Sound(State', space, old) /\ Onward(State, State')
      /\ State' = State \/ (State' = Evacuate(State, handle[h]) /\ ~State'.failed)
      /\ Evacuable(State, handle[h]) /\ IsEvacuated(State', handle[h])
      /\ handle' = [handle EXCEPT ![h] = Forwarded(State', handle[h])]
  BY <1>1, EvacuatedRoot
<1>4. collecting /\ UNCHANGED <<space, collecting, pointer, inUse>>
  BY <1>1 DEF EvacuateRoot, client, IInv, Phases, VariablesType
<1> DEFINE q == State'
<1>5. handle[h] \in Named(State) \cup {Null, EmptyMap} /\ handle[h] \notin State.copies
      /\ ~State.failed
  BY <1>1, <1>3, StateFields DEF HandlesNamed, Evacuable
<1>6. Kept(State, q) /\ CopiesCounted(q)
  <2>1. CASE q = State
    BY <1>1, <2>1, KeptReflexive
  <2>2. CASE q = Evacuate(State, handle[h]) /\ ~q.failed
    <3> HIDE DEF q
    <3> QED
      BY <1>1, <1>5, <2>2, EvacuateKeeps
  <2> QED
    BY <1>3, <2>1, <2>2
<1>7. \A k \in Handles : handle'[k] = IF k = h THEN Forwarded(q, handle[h]) ELSE handle[k]
  BY <1>1, <1>3 DEF VariablesType
<1>8. \A k \in Handles : handle[k] \in Pointers(State)
                         /\ handle[k] \in Named(q) \cup {Null, EmptyMap}
                         /\ Name(q, handle[k]) = Name(State, handle[k])
  BY <1>1, <1>6 DEF HandlesNamed, Kept, Pointers, Named
<1>9. /\ Forwarded(q, handle[h]) \in q.copies \cup {Null, EmptyMap}
      /\ Name(q, Forwarded(q, handle[h])) = Name(q, handle[h])
  <2>1. q \in StateType /\ Naming(q)
    BY <1>3, <1>6 DEF Sound, Kept
  <2>2. handle[h] \in Pointers(q) /\ IsEvacuated(q, handle[h])
    BY <1>3, <1>8 DEF Pointers, Named
  <2> HIDE DEF q
  <2> QED
    BY <2>1, <2>2, ForwardedName
<1>10. q.copies \subseteq Named(q)
  BY <1>6 DEF Kept, Naming, CopiesNamed
<1>11. \A k \in Handles : /\ handle'[k] \in Named(q) \cup {Null, EmptyMap}
                          /\ Name(q, handle'[k]) = Name(State, handle[k])
  BY <1>7, <1>8, <1>9, <1>10
<1> QED
  BY <1>2, <1>4, <1>6, <1>11, KeptInv

LEMMA BlockStepsKeepInv ==
    ASSUME Inv, EndBlock \/ \E g \in Generations : StartBlock(g)
    PROVE  Inv' /\ ViewKept
<1>1. IInv /\ VariablesType /\ Phases /\ State \in StateType
  BY InvFacts DEF IInv
<1>2. IInv'
  BY <1>1, EndBlockKeepsIInv, StartBlockKeepsIInv
<1>3. collecting
  BY <1>1 DEF Phases, StartBlock, EndBlock, VariablesType
<1>4. UNCHANGED <<block, copies, handle, space, collecting, pointer, inUse>>
  BY DEF StartBlock, EndBlock, client
<1>5. \A k \in Generations : work'[k].count = work[k].count
  <2>1. CASE UNCHANGED work
    BY <2>1
  <2>2. ASSUME NEW g \in Generations, work' = [work EXCEPT ![g].pending = Tail(@)]
        PROVE  \A k \in Generations : work'[k].count = work[k].count
    <3>1. \A k \in Generations : work[k] \in Workspace
      BY <1>1, StateFields DEF StateType
    <3>2. DOMAIN work = Generations
      BY <1>1, StateFields DEF StateType
    <3> QED
      BY <2>2, <3>1, <3>2 DEF Workspace
  <2> QED
    BY <2>1, <2>2 DEF StartBlock, EndBlock
<1>6. /\ Kept(State, State') /\ CopiesCounted(State')
      /\ \A h \in Handles : /\ handle'[h] \in Named(State') \cup {Null, EmptyMap}
                            /\ Name(State', handle'[h]) = Name(State, handle[h])
  BY <1>2, <1>4, <1>5, MemoryKept
<1> QED
  BY <1>2, <1>3, <1>4, <1>6, KeptInv

LEMMA ScanObjectKeepsInv ==
    ASSUME Inv, ScanObject
    PROVE  Inv' /\ ViewKept
<1>1. /\ IInv /\ VariablesType /\ Phases /\ Sound(State, space, old) /\ Naming(State)
      /\ CopiesCounted(State) /\ HandlesNamed
      /\ space \in SpacesType /\ old \in OldsType
  BY InvFacts DEF VariablesType, IInv
<1>2. IInv' /\ \E m : \E addr : ScansTo(m, addr)
  BY <1>1, ScanObjectKeepsIInv
<1>3. collecting /\ UNCHANGED <<handle, space, collecting, pointer, inUse>>
  <2>1. scanning # NoBlock /\ UNCHANGED <<handle, space, collecting, pointer, inUse>>
    BY Zenon DEF ScanObject, client
  <2> QED
    BY <1>1, <2>1 DEF Phases, VariablesType
<1>4. PICK m, addr : ScansTo(m, addr)
  BY <1>2
<1> DEFINE refs == ObjectAt(State.block, addr).refs
           forwarded == [i \in DOMAIN refs |-> Forwarded(m, refs[i])]
           q == State'
<1>5. /\ addr \in State.copies /\ refs \in Seq(Addresses)
      /\ \A i \in DOMAIN refs : Evacuable(State, refs[i]) /\ IsEvacuated(m, refs[i])
      /\ m = EvacuateAll(State, refs) /\ ~m.failed
      /\ Sound(m, space, old) /\ Onward(State, m)
      /\ ScanOf(m, q, addr, forwarded) /\ Objects(q) = Objects(m)
  BY <1>4 DEF ScansTo
<1>6. addr \in Named(State) /\ addr \in Objects(State)
      /\ \A i \in DOMAIN refs : refs[i] \in Named(State) \cup {EmptyMap}
  <2>1. addr \in Named(State)
    BY <1>1, <1>5 DEF Naming, CopiesNamed
  <2> QED
    BY <1>1, <2>1 DEF Naming, RefsNamed, Named, Targets, ToSet
<1>7. \A i \in DOMAIN refs : refs[i] \in Named(State) \cup {Null, EmptyMap}
                             /\ refs[i] \notin State.copies
  BY <1>5, <1>6 DEF Evacuable
<1> HIDE DEF q, refs
<1>8. Kept(State, m) /\ CopiesCounted(m)
  BY <1>1, <1>5, <1>7, EvacuateAllKeeps
<1>9. m \in StateType /\ MovedToCopies(m) /\ Naming(m) /\ addr \in m.copies
      /\ ObjectAt(m.block, addr).refs = refs
  BY <1>5, <1>6, <1>8 DEF Sound, Kept, Onward, refs
<1>10. ASSUME NEW i \in DOMAIN refs
       PROVE  /\ forwarded[i] \in Named(m) \cup {EmptyMap}
              /\ Name(m, forwarded[i]) = Name(m, refs[i])
  <2>1. refs[i] \in Pointers(m) /\ refs[i] # Null /\ IsEvacuated(m, refs[i])
    <3>1. refs[i] \in Named(m) \cup {EmptyMap}
      BY <1>6, <1>8 DEF Kept
    <3>2. refs[i] # Null
      BY <1>9, <3>1, ObjectFacts, AddressFacts DEF Named
    <3> QED
      BY <1>5, <3>1, <3>2 DEF Pointers, Named
  <2>2. forwarded[i] = Forwarded(m, refs[i])
    OBVIOUS
  <2>3. /\ Forwarded(m, refs[i]) \in m.copies \cup {Null, EmptyMap}
        /\ Name(m, Forwarded(m, refs[i])) = Name(m, refs[i])
        /\ Forwarded(m, refs[i]) \in {Null, EmptyMap} => Forwarded(m, refs[i]) = refs[i]
    BY <1>9, <2>1, ForwardedName
  <2> QED
    BY <1>9, <2>1, <2>2, <2>3 DEF Naming, CopiesNamed
<1>11. DOMAIN forwarded = DOMAIN refs
  OBVIOUS
<1> HIDE DEF forwarded
<1>12. Kept(m, q)
  <2>1. SameNames(m, addr, forwarded)
    BY <1>9, <1>10, <1>11 DEF SameNames
  <2> QED
    BY <1>5, <1>9, <2>1, ScanKeeps
<1>13. Kept(State, q)
  <2>1. Pointers(State) \subseteq Pointers(m)
    BY <1>5 DEF Onward, Pointers
  <2> QED
    BY <1>8, <1>12, <2>1, KeptTransitive
<1>14. CopiesCounted(q)
  <2>1. q.work = m.work /\ q.copies = m.copies
    BY <1>5 DEF ScanOf
  <2>2. Counts(q) = Counts(m)
    BY <2>1, CountsSame
  <2> QED
    BY <1>8, <2>1, <2>2 DEF CopiesCounted
<1>15. \A h \in Handles : /\ handle'[h] \in Named(q) \cup {Null, EmptyMap}
                          /\ Name(q, handle'[h]) = Name(State, handle[h])
  BY <1>1, <1>3, <1>13 DEF HandlesNamed, Kept, Pointers, Named
<1> QED
  BY <1>2, <1>3, <1>13, <1>14, <1>15, KeptInv DEF q

LEMMA CollectKeepsInv ==
    ASSUME Inv, ReadersRest, Collect
    PROVE  Inv' /\ ViewKept
<1>1. IInv /\ VariablesType /\ PointersHeld
  BY InvFacts
<1>2. /\ ~collecting /\ copies' = {}
      /\ space' = [s \in DOMAIN space |->
                     IF s \in Generations THEN [blocks |-> <<>>, count |-> 0] ELSE space[s]]
      /\ UNCHANGED <<block, work, handle, inUse, pointer>>
  BY DEF Collect
<1>3. UNCHANGED copies
  BY <1>1, <1>2, RestFacts
<1>4. IInv'
  BY <1>1, CollectKeepsIInv
<1>5. /\ Kept(State, State') /\ CopiesCounted(State')
      /\ \A h \in Handles : /\ handle'[h] \in Named(State') \cup {Null, EmptyMap}
                            /\ Name(State', handle'[h]) = Name(State, handle[h])
  BY <1>2, <1>3, <1>4, MemoryKept
<1>6. ViewKept
  BY <1>5 DEF ViewKept, Kept
<1>7. NothingCounted'
  <2>1. DOMAIN space = Spaces
    BY <1>1 DEF VariablesType, SpacesType
  <2>2. \A g \in Generations : space'[g] = [blocks |-> <<>>, count |-> 0]
    BY <1>2, <2>1 DEF Spaces
  <2>3. \A x : x = [blocks |-> <<>>, count |-> 0] => x.count = 0
    OBVIOUS
  <2> QED
    BY <2>2, <2>3 DEF NothingCounted
<1>8. PointersHeld' /\ HandlesNamed'
  BY <1>1, <1>2, <1>5 DEF PointersHeld, HandlesNamed
<1>9. Naming(State')
  BY <1>5 DEF Kept
<1> QED
  BY <1>4, <1>5, <1>6, <1>7, <1>8, <1>9, ViewKeptInv

\* The end of a collection leaves the copies.
LEMMA FinishKeepsInv ==
    ASSUME Inv, Finish
    PROVE  Inv' /\ ViewKept /\ Named(State') = copies
<1>1. /\ IInv /\ State \in StateType /\ Sound(State, space, old) /\ Phases /\ Naming(State)
      /\ Roots \subseteq Range(handle) \cup {Null} /\ Range(handle) \subseteq Roots
      /\ PointersHeld
  BY InvFacts DEF IInv
<1>2. /\ collecting /\ toVisit = {} /\ collecting' = FALSE /\ copies' = {}
      /\ UNCHANGED <<handle, inUse, pointer>>
  BY Zenon DEF Finish
<1> DEFINE live == ReachableFrom(Roots)
           g == GraphOf(Contents(State))
           q == State'
<1>3. IInv' /\ \E gone : Survives(gone, live)
  BY <1>1, FinishKeepsIInv
<1>4. PICK gone : Survives(gone, live)
  BY <1>3
<1>5. live \subseteq Named(State) /\ NamesAt(State, live) = DOMAIN g
  BY <1>1, ReachedIsAll
<1>6. NamesFit(State) /\ OneOriginal(State) /\ CopiesNamed(State) /\ Functional(Contents(State))
  BY <1>1 DEF Naming
<1>7. DOMAIN g = NamesAt(State, Named(State))
  BY <1>1, <1>6, GraphFacts
<1>8. \A c \in copies : c \in Named(State) /\ ObjectAt(State.block, c).moved = Null
  BY <1>1, <1>6, StateFields DEF CopiesNamed, Sound, CopiesKept
<1> HIDE DEF live, q
<1>9. live = copies
  <2>1. live \subseteq copies
    BY <1>4 DEF Survives
  <2>2. ASSUME NEW c \in copies PROVE c \in live
    <3>1. c \in Named(State) /\ ObjectAt(State.block, c).moved = Null
          /\ Name(State, c) \in NamesAt(State, live)
      BY <1>5, <1>7, <1>8 DEF NamesAt
    <3>2. live \in SUBSET Named(State) /\ \A a \in live : ObjectAt(State.block, a).moved = Null
      BY <1>5, <1>8, <2>1
    <3> QED
      BY <1>6, <3>1, <3>2, OnePlace
  <2> QED
    BY <2>1, <2>2
<1>10. Stays(State, gone, live)
  <2>1. \A a \in live : /\ a[1] \notin gone /\ ObjectAt(State.block, a).moved = Null
                        /\ Targets(State, a) \subseteq live \cup {Null, EmptyMap}
    BY <1>4, <1>8, <1>9 DEF Survives
  <2>2. Null \notin Named(State) /\ EmptyMap \notin Named(State)
    BY <1>1, ObjectFacts DEF Named
  <2> QED
    BY <1>5, <2>1, <2>2 DEF Stays, NamesAt
<1>11. Settles(State, q, gone, live) /\ Objects(q) = {x \in Objects(State) : x[1] \notin gone}
  BY <1>4 DEF Survives, q
<1>12. q \in StateType
  BY <1>3 DEF IInv, Sound, q
<1>13. /\ Naming(q) /\ Named(q) = live
       /\ \A a \in live \cup {Null, EmptyMap} : Name(q, a) = Name(State, a)
       /\ GraphOf(Contents(q)) = [n \in NamesAt(State, live) |-> g[n]]
  BY <1>1, <1>10, <1>11, <1>12, SettledKeeps
<1>14. GraphOf(Contents(q)) = g
  <2>1. g = [n \in DOMAIN g |-> g[n]]
    BY DEF GraphOf
  <2> QED
    BY <1>5, <1>13, <2>1
<1>15. \A h \in Handles : handle[h] \in live \cup {Null, EmptyMap}
  BY <1>1, <1>2, <1>9 DEF Phases
<1>16. ViewKept
  BY <1>2, <1>13, <1>14, <1>15 DEF ViewKept, q
<1>17. HandlesNamed'
  BY <1>2, <1>13, <1>15 DEF HandlesNamed, q
<1>18. PointersHeld' /\ NothingCounted'
  BY <1>1, <1>2 DEF PointersHeld, NothingCounted
<1>19. CopiesCounted(q)
  <2>1. q.copies = {}
    BY <1>2 DEF State, q
  <2>2. \A k \in Generations : q.work[k].count = 0
    <3>1. work' = [k \in Generations |-> [work[k] EXCEPT !.completed = {}, !.count = 0]]
      BY Zenon DEF Finish
    <3>2. q.work = work'
      BY DEF State, q
    <3>3. \A k \in Generations : work[k] \in Workspace
      BY <1>1, StateFields DEF StateType
    <3>4. \A k \in Generations : [work[k] EXCEPT !.completed = {}, !.count = 0].count = 0
      BY <3>3 DEF Workspace
    <3> QED
      BY <3>1, <3>2, <3>4
  <2>3. Counts(q) = 0
    BY <1>12, <2>2, CountsZero
  <2> QED
    BY <2>1, <2>3, FS_EmptySet DEF CopiesCounted
<1>20. Inv'
  BY <1>3, <1>13, <1>16, <1>17, <1>18, <1>19, ViewKeptInv DEF q
<1> QED
  BY <1>9, <1>13, <1>16, <1>20 DEF q

\* It counts them.
LEMMA FinishCounts ==
    ASSUME Inv, Finish
    PROVE  ObjectCount' = Cardinality(copies)
<1>1. State \in StateType /\ CopiesCounted(State) /\ NothingCounted /\ VariablesType
  BY InvFacts
<1>2. collecting /\ space' = [s \in DOMAIN space |->
                   IF s \in Generations
                     THEN [blocks |-> space[s].blocks \o SetToSeq(work[s].completed),
                           count |-> space[s].count + work[s].count]
                     ELSE [blocks |-> <<>>, count |-> 0]]
  BY Zenon DEF Finish
<1>3. DOMAIN space = Spaces
  BY <1>1 DEF VariablesType, SpacesType
<1>4. ASSUME NEW x \in Spaces PROVE space'[x].count = CountOf(State, x)
  <2>1. CASE x \in Generations
    <3>1. space'[x].count = space[x].count + work[x].count
      BY <1>2, <1>3, <2>1
    <3>2. space[x].count = 0 /\ work[x].count \in Nat
      BY <1>1, <1>2, <2>1, StateFields, StateFacts DEF NothingCounted
    <3> QED
      BY <2>1, <3>1, <3>2, StateFields DEF CountOf
  <2>2. CASE x \notin Generations
    <3>1. space'[x] = [blocks |-> <<>>, count |-> 0]
      BY <1>2, <1>3, <2>2
    <3>2. \A y : y = [blocks |-> <<>>, count |-> 0] => y.count = 0
      OBVIOUS
    <3> QED
      BY <2>2, <3>1, <3>2 DEF CountOf
  <2> QED
    BY <2>1, <2>2
<1> DEFINE spaces == SetToSeq(Spaces)
<1>5. spaces \in Seq(Spaces)
  BY SpacesInARow
<1>6. ObjectCount' = Total([i \in DOMAIN spaces |-> space'[spaces[i]].count])
  BY Zenon DEF ObjectCount, Spaces
<1>7. Counts(State) = Total([i \in DOMAIN spaces |-> CountOf(State, spaces[i])])
  BY Zenon DEF Counts
<1> HIDE DEF spaces
<1>8. \A i \in DOMAIN spaces : space'[spaces[i]].count = CountOf(State, spaces[i])
  BY <1>4, <1>5
<1>9. ObjectCount' = Counts(State)
  BY <1>6, <1>7, <1>8
<1> QED
  BY <1>1, <1>9, StateFields DEF CopiesCounted

-----------------------------------------------------------------------------
(* The steps of ObjectGraph *)

LEMMA ClientViewNow ==
    Inv => /\ LiveGraph = GraphOf(Contents(State))
           /\ \A h \in Handles : NameOf(handle[h]) = Name(State, handle[h])
<1> SUFFICES ASSUME Inv
             PROVE  /\ LiveGraph = GraphOf(Contents(State))
                    /\ \A h \in Handles : NameOf(handle[h]) = Name(State, handle[h])
  OBVIOUS
<1> QED
  BY ClientView

LEMMA ClientViewNext ==
    Inv' => /\ LiveGraph' = GraphOf(Contents(State'))
            /\ \A h \in Handles : NameOf(handle[h])' = Name(State', handle'[h])
<1>1. (Inv => /\ LiveGraph = GraphOf(Contents(State))
              /\ \A h \in Handles : NameOf(handle[h]) = Name(State, handle[h]))'
  BY ClientViewNow, PTL
<1> QED
  BY <1>1

LEMMA RestViewNow ==
    Inv /\ ~collecting => /\ ReachableFrom(Roots) = Named(State)
                          /\ Cardinality(LiveNames) = Cardinality(ReachableFrom(Roots))
<1> SUFFICES ASSUME Inv, ~collecting
             PROVE  /\ ReachableFrom(Roots) = Named(State)
                    /\ Cardinality(LiveNames) = Cardinality(ReachableFrom(Roots))
  OBVIOUS
<1> QED
  BY RestView

LEMMA RestViewNext ==
    Inv' /\ ~collecting' => /\ ReachableFrom(Roots)' = Named(State')
                            /\ Cardinality(LiveNames') = Cardinality(ReachableFrom(Roots)')
<1>1. (Inv /\ ~collecting => /\ ReachableFrom(Roots) = Named(State)
                             /\ Cardinality(LiveNames) = Cardinality(ReachableFrom(Roots)))'
  BY RestViewNow, PTL
<1> QED
  BY <1>1

LEMMA ViewUnchanged ==
    ASSUME Inv, Inv', ViewKept
    PROVE  UNCHANGED Graph!vars
<1>1. LiveGraph' = LiveGraph
  BY ClientViewNow, ClientViewNext DEF ViewKept
<1>2. \A h \in Handles : NameOf(handle[h])' = NameOf(handle[h])
  BY ClientViewNow, ClientViewNext DEF ViewKept
<1>3. [h \in Handles |-> NameOf(handle[h])]' = [h \in Handles |-> NameOf(handle[h])]
  BY <1>2
<1> QED
  BY <1>1, <1>3 DEF Graph!vars

\* A handle h refers to n next.
RootBecomes(h, n) ==
    \A k \in Handles : Name(State', handle'[k]) = IF k = h THEN n ELSE Name(State, handle[k])

NextStart == {Name(State', handle'[k]) : k \in Handles}

LEMMA RootStep ==
    ASSUME Inv, Inv', NEW h \in Handles, NEW n, RootBecomes(h, n),
           NEW root, root = [k \in Handles |-> NameOf(handle[k])],
           NEW next, next = [k \in Handles |-> NameOf(handle[k])]'
    PROVE  next = [root EXCEPT ![h] = n] /\ Range(next) = NextStart
<1>1. \A k \in Handles : NameOf(handle[k])' = IF k = h THEN n ELSE NameOf(handle[k])
  BY ClientViewNow, ClientViewNext DEF RootBecomes
<1>2. \A k \in Handles : NameOf(handle[k])' = Name(State', handle'[k])
  BY ClientViewNext
<1>3. next = [k \in Handles |-> IF k = h THEN n ELSE NameOf(handle[k])]
  BY <1>1
<1>4. next = [root EXCEPT ![h] = n]
  BY <1>3
<1>5. Range(next) = NextStart
  <2>1. DOMAIN next = Handles /\ \A k \in Handles : next[k] = Name(State', handle'[k])
    BY <1>2
  <2> QED
    BY <2>1 DEF Range, NextStart
<1> QED
  BY <1>4, <1>5

\* What ObjectGraph!Become leaves.
LEMMA RestrictedGraph ==
    ASSUME NEW r, NEW g, DOMAIN g \subseteq Names, NEW M, Spans(M, Range(r), g)
    PROVE  Graph!Restrict(g, Graph!Reachable(r, g)) = [x \in M |-> g[x]]
<1>1. Spans(Graph!Reachable(r, g), Range(r), g)
  BY ReachableSpans
<1>2. Graph!Reachable(r, g) = M
  BY <1>1, OneSpan
<1> QED
  BY <1>2 DEF Graph!Restrict

LEMMA ReferStep ==
    ASSUME Inv, Inv', NEW h \in Handles, NEW g, g = GraphOf(Contents(State)),
           NEW n \in DOMAIN g \cup {0, -1}, RootBecomes(h, n),
           NEW M, Spans(M, NextStart, g), GraphOf(Contents(State')) = [x \in M |-> g[x]]
    PROVE  Graph!Refer(h, n)
<1> DEFINE root == [k \in Handles |-> NameOf(handle[k])]
           next == [k \in Handles |-> NameOf(handle[k])]'
<1>1. next = [root EXCEPT ![h] = n] /\ Range(next) = NextStart
  BY RootStep
<1>2. LiveGraph = g /\ LiveGraph' = [x \in M |-> g[x]]
  BY ClientViewNow, ClientViewNext
<1>3. DOMAIN g \subseteq Names
  BY InvFacts, GraphFacts DEF Naming
<1>4. LiveGraph' = Graph!Restrict(g, Graph!Reachable(next, g))
  <2> HIDE DEF next
  <2> QED
    BY <1>1, <1>2, <1>3, RestrictedGraph
<1>5. n \in Graph!Known \cup {Graph!Nothing}
  BY <1>2 DEF Graph!Known, Graph!EmptyMap, Graph!Nothing
<1>6. Graph!Become(h, n, g)
  BY <1>1, <1>4 DEF Graph!Become
<1> QED
  BY <1>2, <1>5, <1>6 DEF Graph!Refer

LEMMA ConstructStep ==
    ASSUME Inv, Inv', NEW h \in Handles, NEW g, g = GraphOf(Contents(State)),
           NEW n \in Names \ DOMAIN g, RootBecomes(h, n),
           NEW r \in BoundedSeq(DOMAIN g \cup {0}, MaxRefs),
           NEW more, more = [x \in DOMAIN g \cup {n} |-> IF x = n THEN r ELSE g[x]],
           Spans(DOMAIN more, NextStart, more), GraphOf(Contents(State')) = more
    PROVE  Graph!Construct(h, n)
<1> DEFINE root == [k \in Handles |-> NameOf(handle[k])]
           next == [k \in Handles |-> NameOf(handle[k])]'
<1>1. next = [root EXCEPT ![h] = n] /\ Range(next) = NextStart
  BY RootStep
<1>2. LiveGraph = g /\ LiveGraph' = more
  BY ClientViewNow, ClientViewNext
<1>3. DOMAIN g \subseteq Names /\ DOMAIN more = DOMAIN g \cup {n}
  BY InvFacts, GraphFacts DEF Naming
<1>4. more = [x \in DOMAIN more |-> more[x]]
  BY <1>3
<1>5. LiveGraph' = Graph!Restrict(more, Graph!Reachable(next, more))
  <2> HIDE DEF next
  <2> QED
    BY <1>1, <1>2, <1>3, <1>4, RestrictedGraph
<1>6. Graph!With(n, r) = more
  BY <1>2 DEF Graph!With
<1>7. Graph!Become(h, n, more)
  BY <1>1, <1>5 DEF Graph!Become
<1>8. r \in Graph!BoundedSeq(Graph!Known, MaxRefs)
  <2>1. Graph!Known = DOMAIN g \cup {0}
    BY <1>2 DEF Graph!Known, Graph!EmptyMap
  <2> QED
    BY <2>1, Zenon DEF Graph!BoundedSeq, BoundedSeq, Graph!SeqOf, SeqOf
<1>9. n \in Names \ DOMAIN LiveGraph
  BY <1>2
<1> QED
  BY <1>1, <1>6, <1>7, <1>8, <1>9 DEF Graph!Construct

-----------------------------------------------------------------------------
(* The steps of clients *)

\* A step that changes no object, and no handle.
LEMMA ReadersKeepInv ==
    ASSUME Inv, NEW t \in Threads, Lock(t) \/ Leave(t) \/ \E h \in Handles : Read(t, h)
    PROVE  Inv' /\ ViewKept
<1>1. IInv /\ VariablesType /\ Naming(State) /\ CopiesCounted(State) /\ HandlesNamed /\ PointersHeld
  BY InvFacts
<1>2. ~collecting /\ UNCHANGED <<block, space, old, work, handle, collecting, scanning, copies>>
  BY DEF Read, Lock, Leave, MayRun, collector
<1>3. IInv'
  BY <1>1, ReadersKeepIInv
<1>4. State' = State
  BY <1>2 DEF State
<1>5. PointersHeld'
  <2>1. /\ pointer \in [Threads -> Addresses] /\ inUse \in [Threads -> Handles \cup {NoHandle}]
    BY <1>1 DEF VariablesType
  <2>2. ASSUME NEW h \in Handles, Read(t, h)
        PROVE  PointersHeld'
    <3>1. inUse' = [inUse EXCEPT ![t] = h] /\ pointer' = [pointer EXCEPT ![t] = handle[h]]
      BY <2>2 DEF Read
    <3> QED
      BY <1>1, <1>2, <2>1, <3>1 DEF PointersHeld
  <2>3. CASE Lock(t)
    BY <1>1, <2>3 DEF PointersHeld, Lock
  <2>4. CASE Leave(t)
    <3>1. inUse' = [inUse EXCEPT ![t] = NoHandle] /\ pointer' = [pointer EXCEPT ![t] = Null]
      BY <2>4 DEF Leave, Unlock
    <3> QED
      BY <1>1, <1>2, <2>1, <3>1 DEF PointersHeld
  <2> QED
    BY <2>2, <2>3, <2>4
<1>6. ViewKept
  BY <1>2, <1>4 DEF ViewKept
<1>7. HandlesNamed' /\ NothingCounted'
  BY <1>1, <1>2, <1>4 DEF HandlesNamed, NothingCounted
<1>8. Naming(State') /\ CopiesCounted(State')
  BY <1>1, <1>4
<1> QED
  BY <1>3, <1>5, <1>6, <1>7, <1>8, ViewKeptInv

\* A handle that was not used refers to an object that there is.
LEMMA ReferKeepsInv ==
    ASSUME Inv, IInv', ~collecting, UNCHANGED <<block, collector>>, PointersHeld',
           NEW h \in Handles, handle[h] = Null,
           NEW x \in Named(State) \cup {Null, EmptyMap}, handle' = [handle EXCEPT ![h] = x]
    PROVE  Inv' /\ Graph!Next
<1>1. /\ IInv /\ VariablesType /\ Naming(State) /\ CopiesCounted(State) /\ HandlesNamed /\ AllReached
      /\ State \in StateType
  BY InvFacts
<1>2. UNCHANGED <<work, collecting, scanning, copies>>
  BY DEF collector
<1>3. State' = State
  BY <1>2 DEF State
<1>4. DOMAIN handle = Handles /\ VariablesType'
  BY <1>1 DEF VariablesType, IInv
<1>5. \A k \in Handles : handle'[k] = IF k = h THEN x ELSE handle[k]
  BY <1>4
<1>6. HandlesNamed' /\ NothingCounted'
  BY <1>1, <1>2, <1>3, <1>5 DEF HandlesNamed, NothingCounted
<1>7. Naming(State') /\ CopiesCounted(State')
  BY <1>1, <1>3
<1> DEFINE g == GraphOf(Contents(State))
           start == NamesAt(State, Range(handle))
<1>8. NamesFit(State) /\ Functional(Contents(State))
  BY <1>1 DEF Naming
<1>9. DOMAIN g = NamesAt(State, Named(State)) /\ DOMAIN g \subseteq Names
  BY <1>1, <1>8, GraphFacts
<1>10. Name(State, Null) = -1 /\ Name(State, EmptyMap) = 0 /\ -1 \notin Names /\ 0 \notin Names
  BY <1>1, <1>8, NameFacts
<1>11. Spans(DOMAIN g, start, g)
  BY <1>1 DEF AllReached
<1>12. GraphOf(Contents(State')) = g
  BY <1>3
<1>13. NextStart = NamesAt(State', Range(handle'))
  BY <1>4, StartNamesNext DEF NextStart
<1>14. start \cap DOMAIN g \subseteq NextStart
  <2>1. ASSUME NEW k \in Handles, Name(State, handle[k]) \in DOMAIN g
        PROVE  Name(State, handle[k]) \in NextStart
    <3>1. k # h
      BY <1>9, <1>10, <2>1
    <3> QED
      BY <1>3, <1>5, <3>1 DEF NextStart
  <2>2. start = {Name(State, handle[k]) : k \in Handles}
    BY <1>1, StartNames
  <2> QED
    BY <2>1, <2>2
<1> HIDE DEF start
<1>15. Spans(DOMAIN g, NextStart, g)
  BY <1>11, <1>14, MoreSpans
<1>16. AllReached'
  BY <1>12, <1>13, <1>15 DEF AllReached
<1>17. Inv'
  BY <1>6, <1>7, <1>16 DEF Inv, GInv
<1> DEFINE n == Name(State, x)
<1>18. n \in DOMAIN g \cup {0, -1}
  BY <1>9, <1>10 DEF NamesAt
<1>19. RootBecomes(h, n)
  BY <1>3, <1>5 DEF RootBecomes
<1>20. GraphOf(Contents(State')) = [k \in DOMAIN g |-> g[k]]
  <2>1. g = [k \in DOMAIN g |-> g[k]]
    BY DEF GraphOf
  <2> QED
    BY <1>12, <2>1
<1> HIDE DEF n
<1>21. Graph!Refer(h, n)
  <2> DEFINE f == g
  <2>1. f = GraphOf(Contents(State)) /\ n \in DOMAIN f \cup {0, -1} /\ Spans(DOMAIN f, NextStart, f)
        /\ GraphOf(Contents(State')) = [k \in DOMAIN f |-> f[k]]
    BY <1>15, <1>18, <1>20
  <2> HIDE DEF f
  <2> QED
    BY <1>17, <1>19, <2>1, ReferStep
<1>22. n \in Names \cup {Graph!EmptyMap, Graph!Nothing}
  BY <1>9, <1>18 DEF Graph!EmptyMap, Graph!Nothing
<1> QED
  BY <1>17, <1>21, <1>22 DEF Graph!Next

LEMMA NewMapKeepsInv ==
    ASSUME Inv, NEW h \in Handles, NewMap(h)
    PROVE  Inv' /\ Graph!Next
<1>1. IInv /\ PointersHeld /\ VariablesType
  BY InvFacts
<1>2. IInv'
  BY <1>1, NewMapKeepsIInv
<1>3. /\ ~collecting /\ UNCHANGED <<block, collector, inUse, pointer>> /\ handle[h] = Null
      /\ handle' = [handle EXCEPT ![h] = EmptyMap]
  BY DEF NewMap, MayRun, IsUnused
<1>4. PointersHeld'
  <2>1. \A k \in Handles : k # h => handle'[k] = handle[k]
    BY <1>1, <1>3 DEF VariablesType
  <2>2. \A t \in Threads : pointer[t] # Null => inUse[t] # h
    BY <1>1, <1>3 DEF PointersHeld
  <2> QED
    BY <1>1, <1>3, <2>1, <2>2 DEF PointersHeld
<1> QED
  BY <1>2, <1>3, <1>4, ReferKeepsInv

LEMMA AddNothingKeepsInv ==
    ASSUME Inv, NEW t \in Threads, NEW h \in Handles, AddNothing(t, h)
    PROVE  Inv' /\ Graph!Next
<1>1. IInv /\ PointersHeld /\ VariablesType /\ HandlesNamed
  BY InvFacts
<1>2. IInv'
  BY <1>1, ReadersKeepIInv
<1>3. /\ ~collecting /\ UNCHANGED <<block, collector>> /\ handle[h] = Null
      /\ handle' = [handle EXCEPT ![h] = pointer[t]]
      /\ inUse' = [inUse EXCEPT ![t] = NoHandle] /\ pointer' = [pointer EXCEPT ![t] = Null]
  BY DEF AddNothing, MayRun, IsUnused, Unlock
<1>4. pointer[t] \in Named(State) \cup {Null, EmptyMap}
  BY <1>1 DEF HandlesNamed, PointersHeld
<1>5. PointersHeld'
  <2>1. \A k \in Handles : k # h => handle'[k] = handle[k]
    BY <1>1, <1>3 DEF VariablesType
  <2>2. \A u \in Threads : pointer[u] # Null => inUse[u] # h
    BY <1>1, <1>3 DEF PointersHeld
  <2>3. \A u \in Threads : IF u = t THEN pointer'[u] = Null
                           ELSE pointer'[u] = pointer[u] /\ inUse'[u] = inUse[u]
    BY <1>1, <1>3 DEF VariablesType
  <2> QED
    BY <1>1, <2>1, <2>2, <2>3 DEF PointersHeld
<1> DEFINE x == pointer[t]
<1>6. x \in Named(State) \cup {Null, EmptyMap} /\ handle' = [handle EXCEPT ![h] = x]
  BY <1>3, <1>4
<1> HIDE DEF x
<1> QED
  BY <1>2, <1>3, <1>5, <1>6, ReferKeepsInv

\* What one start reaches is reached from another with the same names in it.
LEMMA SameStart ==
    ASSUME NEW N, NEW start, NEW more, NEW g, Spans(N, start, g),
           start \cap DOMAIN g = more \cap DOMAIN g
    PROVE  Spans(N, more, g)
BY DEF Spans, Closed

LEMMA ReleaseHandleKeepsInv ==
    ASSUME Inv, NEW h \in Handles, ReleaseHandle(h)
    PROVE  Inv' /\ Graph!Next
<1>1. /\ IInv /\ VariablesType /\ State \in StateType /\ BlocksFit(State) /\ Naming(State)
      /\ CopiesCounted(State) /\ HandlesNamed /\ PointersHeld
  BY InvFacts
<1>2. /\ ~collecting /\ h \notin Range(inUse) /\ handle' = [handle EXCEPT ![h] = Null]
      /\ UNCHANGED <<space, work, inUse, pointer, collecting, scanning, copies>>
  BY DEF ReleaseHandle, MayRun, collector
<1> DEFINE q == State'
           roots == Roots'
           live == ReachableFrom(roots)
           g == GraphOf(Contents(State))
<1>3. IInv' /\ Objects(q) = Objects(State) /\ Settles(State, q, {}, live)
  BY <1>1, ReleaseHandleKeepsIInv
<1>4. q \in StateType /\ VariablesType'
  BY <1>3 DEF IInv, Sound
<1>5. \A k \in Handles : handle'[k] = IF k = h THEN Null ELSE handle[k]
  BY <1>1, <1>2 DEF VariablesType
<1>6. PointersHeld'
  <2>1. \A t \in Threads : inUse[t] # h
    BY <1>1, <1>2 DEF Range, VariablesType
  <2> QED
    BY <1>1, <1>2, <1>5, <2>1 DEF PointersHeld
<1>7. /\ roots \subseteq {handle'[k] : k \in Handles} \cup {Null}
      /\ {handle'[k] : k \in Handles} \subseteq roots
  BY <1>6 DEF PointersHeld, Roots
<1>8. roots \subseteq Named(State) \cup {Null, EmptyMap}
  BY <1>1, <1>5, <1>7 DEF HandlesNamed
<1> HIDE DEF q, roots
<1>9. live \subseteq Named(State) /\ Spans(NamesAt(State, live), NamesAt(State, roots), g)
  BY <1>1, <1>8, ReachedNames
<1>10. NamesFit(State) /\ Functional(Contents(State)) /\ OneOriginal(State) /\ RefsNamed(State)
  BY <1>1 DEF Naming
<1>11. /\ DOMAIN g = NamesAt(State, Named(State)) /\ DOMAIN g \subseteq Names
       /\ \A a \in Named(State) : g[Name(State, a)] = NameList(State, a)
  BY <1>1, <1>10, GraphFacts
<1>12. Name(State, Null) = -1 /\ Name(State, EmptyMap) = 0 /\ -1 \notin Names /\ 0 \notin Names
  BY <1>1, <1>10, NameFacts
<1>13. \A a \in Named(State) : a \in Objects(State) /\ ObjectAt(State.block, a).moved = Null
  BY <1>1, <1>2, RestFacts, StateFields DEF Named
<1> HIDE DEF live, g
<1>14. Stays(State, {}, live)
  <2>1. ASSUME NEW a \in live, NEW x \in Targets(State, a) \cap Named(State)
        PROVE  ObjectAt(State.block, x).moved = Null /\ Name(State, x) \in NamesAt(State, live)
    <3>1. Name(State, a) \in NamesAt(State, live) /\ g[Name(State, a)] = NameList(State, a)
      BY <1>9, <1>11 DEF NamesAt
    <3>2. Name(State, x) \in ToSet(NameList(State, a))
      <4> DEFINE refs == ObjectAt(State.block, a).refs
      <4>1. PICK i \in DOMAIN refs : x = refs[i]
        BY DEF Targets, ToSet
      <4>2. NameList(State, a) = [k \in DOMAIN refs |-> Name(State, refs[k])]
        BY DEF NameList
      <4> HIDE DEF refs
      <4> QED
        BY <4>1, <4>2 DEF ToSet
    <3>3. Name(State, x) \in DOMAIN g
      BY <1>11 DEF NamesAt
    <3> QED
      BY <1>9, <1>13, <3>1, <3>2, <3>3 DEF Spans, Closed
  <2> QED
    BY <1>9, <1>13, <2>1 DEF Stays
<1>15. /\ Naming(q) /\ Named(q) = live
       /\ \A a \in live \cup {Null, EmptyMap} : Name(q, a) = Name(State, a)
       /\ GraphOf(Contents(q)) = [n \in NamesAt(State, live) |-> g[n]]
  <2>1. Objects(q) = {x \in Objects(State) : x[1] \notin {}}
    BY <1>3
  <2> QED
    BY <1>1, <1>3, <1>4, <1>14, <2>1, SettledKeeps DEF g
<1>16. \A k \in Handles : handle'[k] \in live \cup {Null, EmptyMap}
  <2> SUFFICES ASSUME NEW k \in Handles, handle'[k] \notin {Null, EmptyMap}
               PROVE  handle'[k] \in live
    OBVIOUS
  <2>1. handle'[k] \in Named(State) /\ handle'[k] \in roots
    BY <1>7, <1>8
  <2>2. Name(State, handle'[k]) \in NamesAt(State, roots) \cap DOMAIN g
    BY <1>11, <2>1 DEF NamesAt
  <2>3. Name(State, handle'[k]) \in NamesAt(State, live)
    BY <1>9, <2>2 DEF Spans, Closed
  <2>4. live \in SUBSET Named(State) /\ \A a \in live : ObjectAt(State.block, a).moved = Null
    BY <1>9, <1>13
  <2> QED
    BY <1>10, <1>13, <2>1, <2>3, <2>4, OnePlace
<1>17. \A k \in Handles : Name(q, handle'[k]) = Name(State, handle'[k])
  BY <1>15, <1>16
<1>18. HandlesNamed' /\ NothingCounted'
  BY <1>2, <1>15, <1>16 DEF HandlesNamed, NothingCounted, q
<1>19. CopiesCounted(q)
  <2>1. q.work = State.work /\ q.copies = State.copies
    BY <1>2 DEF State, q
  <2>2. Counts(q) = Counts(State)
    BY <2>1, CountsSame
  <2> QED
    BY <1>1, <2>1, <2>2 DEF CopiesCounted
<1> DEFINE M == NamesAt(State, live)
<1>20. NextStart = {Name(State, handle'[k]) : k \in Handles}
  BY <1>17 DEF NextStart, q
<1>21. NextStart \cap DOMAIN g = NamesAt(State, roots) \cap DOMAIN g
  BY <1>7, <1>11, <1>12, <1>20 DEF NamesAt
<1> HIDE DEF M
<1>22. Spans(M, NextStart, g)
  BY <1>9, <1>21, SameStart DEF M
<1>23. AllReached'
  <2> DEFINE r == GraphOf(Contents(q))
  <2>1. r = [n \in M |-> g[n]]
    BY <1>15 DEF M
  <2> HIDE DEF r
  <2>2. DOMAIN r = M /\ Spans(M, NextStart, r)
    BY <1>22, <2>1, RestrictSpans
  <2>3. NamesAt(State', Range(handle')) = NextStart
    BY <1>4, StartNamesNext DEF NextStart
  <2> QED
    BY <2>2, <2>3 DEF AllReached, r, q
<1>24. Inv'
  BY <1>3, <1>6, <1>15, <1>18, <1>19, <1>23 DEF Inv, GInv, q
<1>25. RootBecomes(h, -1)
  BY <1>5, <1>12, <1>17 DEF RootBecomes, q
<1>26. Graph!Refer(h, -1)
  <2>1. g = GraphOf(Contents(State)) /\ -1 \in DOMAIN g \cup {0, -1}
        /\ GraphOf(Contents(State')) = [n \in M |-> g[n]]
    BY <1>15 DEF M, g, q
  <2> QED
    BY <1>22, <1>24, <1>25, <2>1, ReferStep
<1>27. -1 \in Names \cup {Graph!EmptyMap, Graph!Nothing}
  BY DEF Graph!Nothing
<1> QED
  BY <1>24, <1>26, <1>27 DEF Graph!Next

\* A new object with a name that no other has.
Added(s, q, new, name, refs) ==
    /\ q.copies = s.copies /\ s.copies = {}
    /\ Objects(q) = Objects(s) \cup {new} /\ new \notin Objects(s)
    /\ ObjectAt(q.block, new) = [name |-> name, refs |-> refs, moved |-> Null]
    /\ \A a \in Objects(s) : /\ ObjectAt(q.block, a) = ObjectAt(s.block, a)
                             /\ ObjectAt(s.block, a).moved = Null
    /\ name \in Names \ NamesAt(s, Named(s))
    /\ ToSet(refs) \subseteq Named(s) \cup {EmptyMap}

LEMMA AddedKeeps ==
    ASSUME NEW s \in StateType, NEW q \in StateType, Naming(s),
           NEW new, NEW name, NEW refs, Added(s, q, new, name, refs),
           NEW r, r = [i \in DOMAIN refs |-> Name(s, refs[i])],
           NEW g, g = GraphOf(Contents(s)), NEW h, h = GraphOf(Contents(q))
    PROVE  /\ Naming(q) /\ Named(q) = Named(s) \cup {new}
           /\ \A a \in Named(s) \cup {Null, EmptyMap} : Name(q, a) = Name(s, a)
           /\ Name(q, new) = name /\ name \notin DOMAIN g
           /\ h = [x \in DOMAIN g \cup {name} |-> IF x = name THEN r ELSE g[x]]
<1>1. NamesFit(s) /\ RefsNamed(s) /\ OneOriginal(s) /\ Functional(Contents(s))
  BY DEF Naming
<1>2. /\ q.copies = {} /\ Objects(q) = Objects(s) \cup {new} /\ new \notin Objects(s)
      /\ ObjectAt(q.block, new) = [name |-> name, refs |-> refs, moved |-> Null]
      /\ \A a \in Objects(s) : /\ ObjectAt(q.block, a) = ObjectAt(s.block, a)
                               /\ ObjectAt(s.block, a).moved = Null
      /\ name \in Names /\ name \notin NamesAt(s, Named(s))
      /\ ToSet(refs) \subseteq Named(s) \cup {EmptyMap}
  BY DEF Added
<1>3. /\ ObjectAt(q.block, new).name = name /\ ObjectAt(q.block, new).refs = refs
      /\ ObjectAt(q.block, new).moved = Null
  BY <1>2
<1>4. \A a \in Named(s) : a \in Objects(s) /\ ObjectAt(s.block, a).name # 0
  BY DEF Named
<1>5. name # 0 /\ new \notin {Null, EmptyMap} /\ new \in Objects(q)
  <2>1. 0 \notin Names
    BY DEF Names
  <2>2. new \in Objects(q)
    BY <1>2
  <2> QED
    BY <1>2, <2>1, <2>2, ObjectFacts
<1>6. Named(q) = Named(s) \cup {new}
  BY <1>2, <1>3, <1>5 DEF Named
<1>7. \A a \in Named(s) \cup {Null, EmptyMap} : Name(q, a) = Name(s, a)
  BY <1>2, <1>4 DEF Name
<1>8. Name(q, new) = name
  BY <1>3, <1>5 DEF Name
<1>9. \A a \in Named(s) : Targets(s, a) \subseteq Named(s) \cup {EmptyMap}
  BY <1>1 DEF RefsNamed
<1>10. \A a \in Named(s) : NameList(q, a) = NameList(s, a)
  <2> SUFFICES ASSUME NEW a \in Named(s) PROVE NameList(q, a) = NameList(s, a)
    OBVIOUS
  <2>1. ObjectAt(q.block, a).refs = ObjectAt(s.block, a).refs
    BY <1>2, <1>4
  <2>2. \A x \in Targets(s, a) : Name(q, x) = Name(s, x)
    BY <1>7, <1>9
  <2> QED
    BY <2>1, <2>2, SameNameList
<1>11. NameList(q, new) = r
  <2>1. \A i \in DOMAIN refs : Name(q, refs[i]) = Name(s, refs[i])
    BY <1>2, <1>7 DEF ToSet
  <2>2. [i \in DOMAIN refs |-> Name(q, refs[i])] = [i \in DOMAIN refs |-> Name(s, refs[i])]
    BY <2>1
  <2> QED
    BY <1>3, <2>2 DEF NameList
<1>12. Contents(q) = Contents(s) \cup {<<name, r>>}
  BY <1>6, <1>7, <1>8, <1>10, <1>11 DEF Contents
<1>13. \A p \in Contents(s) : p[1] # name
  BY <1>2 DEF Contents, NamesAt
<1>14. Naming(q)
  <2>1. NamesFit(q)
    BY <1>1, <1>2, <1>3 DEF NamesFit
  <2>2. RefsNamed(q)
    <3>1. \A a \in Named(s) : Targets(q, a) = Targets(s, a)
      BY <1>2, <1>4 DEF Targets
    <3>2. Targets(q, new) = ToSet(refs)
      BY <1>3 DEF Targets
    <3> QED
      BY <1>2, <1>6, <1>9, <3>1, <3>2 DEF RefsNamed
  <2>3. \A a \in Objects(q) : ObjectAt(q.block, a).moved = Null
    BY <1>2, <1>3
  <2>4. Twins(q)
    BY <2>3 DEF Twins
  <2>5. OneOriginal(q)
    <3>1. \A a \in Named(q) : Canon(q, a) = a
      BY <2>3 DEF Canon, Named
    <3>2. \A a \in Named(s) : Canon(s, a) = a
      BY <1>2, <1>4 DEF Canon
    <3>3. \A a \in Named(s) : Name(s, a) # name
      BY <1>2 DEF NamesAt
    <3> QED
      BY <1>1, <1>6, <1>7, <1>8, <3>1, <3>2, <3>3 DEF OneOriginal
  <2>6. CopiesNamed(q)
    BY <1>2 DEF CopiesNamed
  <2>7. Functional(Contents(q))
    <3> DEFINE C == Contents(s)
               p == <<name, r>>
    <3>1. p[1] = name /\ Functional(C) /\ Contents(q) = C \cup {p} /\ \A x \in C : x[1] # name
      BY <1>1, <1>12, <1>13
    <3> HIDE DEF C, p
    <3> QED
      BY <3>1 DEF Functional
  <2> QED
    BY <2>1, <2>2, <2>4, <2>5, <2>6, <2>7 DEF Naming
<1>15. DOMAIN g = NamesAt(s, Named(s)) /\ \A a \in Named(s) : g[Name(s, a)] = NameList(s, a)
  BY <1>1, GraphFacts
<1>16. DOMAIN h = NamesAt(q, Named(q)) /\ \A a \in Named(q) : h[Name(q, a)] = NameList(q, a)
  BY <1>14, GraphFacts DEF Naming
<1>17. h = [x \in DOMAIN g \cup {name} |-> IF x = name THEN r ELSE g[x]]
  <2>1. DOMAIN h = DOMAIN g \cup {name}
    BY <1>6, <1>7, <1>8, <1>15, <1>16 DEF NamesAt
  <2>2. \A x \in DOMAIN g \cup {name} : h[x] = IF x = name THEN r ELSE g[x]
    <3>1. h[name] = r
      BY <1>6, <1>8, <1>11, <1>16
    <3>2. ASSUME NEW x \in DOMAIN g PROVE x # name /\ h[x] = g[x]
      <4>1. PICK a \in Named(s) : x = Name(s, a)
        BY <1>15 DEF NamesAt
      <4>2. g[x] = NameList(s, a)
        BY <1>15, <4>1
      <4>3. h[x] = NameList(q, a)
        BY <1>6, <1>7, <1>16, <4>1
      <4> QED
        BY <1>2, <1>10, <1>15, <4>2, <4>3
    <3> QED
      BY <3>1, <3>2
  <2>3. h = [x \in DOMAIN h |-> h[x]]
    BY DEF GraphOf
  <2> DEFINE f == [x \in DOMAIN g \cup {name} |-> IF x = name THEN r ELSE g[x]]
  <2>4. [x \in DOMAIN g \cup {name} |-> h[x]] = f
    BY <2>2
  <2> HIDE DEF f
  <2>5. h = f
    BY <2>1, <2>3, <2>4
  <2> QED
    BY <2>5 DEF f
<1> QED
  BY <1>2, <1>6, <1>7, <1>8, <1>14, <1>15, <1>17

LEMMA ConstructKeepsInv ==
    ASSUME Inv, NEW t \in Threads, NEW h \in Handles,
           NEW refs \in BoundedSeq(Usable(t), MaxRefs), Construct(t, h, refs)
    PROVE  Inv' /\ Graph!Next
<1>1. /\ IInv /\ VariablesType /\ State \in StateType /\ BlocksFit(State) /\ Naming(State)
      /\ CopiesCounted(State) /\ HandlesNamed /\ PointersHeld /\ AllReached
  BY InvFacts
<1>2. ~collecting /\ Unlock(t) /\ IsUnused(h) /\ UNCHANGED collector
  BY Zenon DEF Construct, MayRun
<1>3. UNCHANGED <<work, collecting, copies>> /\ handle[h] = Null
  BY <1>2 DEF collector, IsUnused
<1>4. IInv' /\ \E new : \E name \in Names \ LiveNames :
                 Adds(new, name, refs) /\ handle' = [handle EXCEPT ![h] = new]
  BY <1>1, ConstructKeepsIInv
<1> DEFINE AddsTo(new, name) == Adds(new, name, refs) /\ handle' = [handle EXCEPT ![h] = new]
<1>4a. PICK new : \E name \in Names \ LiveNames : AddsTo(new, name)
  BY <1>4
<1>5. PICK name \in Names \ LiveNames :
         Adds(new, name, refs) /\ handle' = [handle EXCEPT ![h] = new]
  BY <1>4a
<1> DEFINE q == State'
           g == GraphOf(Contents(State))
           r == [i \in DOMAIN refs |-> Name(State, refs[i])]
           more == [x \in DOMAIN g \cup {name} |-> IF x = name THEN r ELSE g[x]]
<1>6. q \in StateType /\ VariablesType'
  BY <1>4 DEF IInv, Sound
<1>7. NamesFit(State) /\ Functional(Contents(State)) /\ RefsNamed(State)
  BY <1>1 DEF Naming
<1>8. DOMAIN g = NamesAt(State, Named(State)) /\ DOMAIN g \subseteq Names
  BY <1>1, <1>7, GraphFacts
<1>9. Name(State, Null) = -1 /\ Name(State, EmptyMap) = 0 /\ -1 \notin Names /\ 0 \notin Names
  BY <1>1, <1>7, NameFacts
<1>10. Usable(t) \subseteq Named(State) \cup {EmptyMap}
  <2>1. pointer[t] \in Named(State) \cup {Null, EmptyMap}
    BY <1>1 DEF HandlesNamed, PointersHeld
  <2>2. RefsAt(pointer[t]) \subseteq Named(State) \cup {EmptyMap}
    <3>1. CASE pointer[t] \in {Null, EmptyMap}
      BY <3>1, RefsAreTargets
    <3>2. CASE pointer[t] \in Named(State)
      BY <1>1, <1>7, <3>2, ReferencesOfNamed
    <3> QED
      BY <2>1, <3>1, <3>2
  <2>3. {handle[k] : k \in Handles} \subseteq Named(State) \cup {Null, EmptyMap}
    BY <1>1 DEF HandlesNamed
  <2> QED
    BY <2>1, <2>2, <2>3 DEF Usable
<1>11. PICK m \in 0..MaxRefs : refs \in [1..m -> Usable(t)]
  BY DEF BoundedSeq, SeqOf
<1>12. ToSet(refs) \subseteq Named(State) \cup {EmptyMap}
  BY <1>10, <1>11 DEF ToSet
<1>13. r \in BoundedSeq(DOMAIN g \cup {0}, MaxRefs)
  <2>1. DOMAIN refs = 1..m /\ \A i \in 1..m : refs[i] \in Named(State) \cup {EmptyMap}
    BY <1>10, <1>11
  <2>2. \A i \in 1..m : Name(State, refs[i]) \in DOMAIN g \cup {0}
    BY <1>8, <1>9, <2>1 DEF NamesAt
  <2> HIDE DEF g
  <2>3. r \in [1..m -> DOMAIN g \cup {0}]
    BY <2>1, <2>2
  <2> HIDE DEF r
  <2> QED
    BY <2>3 DEF BoundedSeq, SeqOf
<1>14. Added(State, q, new, name, refs)
  <2>1. /\ Objects(q) = Objects(State) \cup {new} /\ new \notin Objects(State)
        /\ ObjectAt(q.block, new) = [name |-> name, refs |-> refs, moved |-> Null]
        /\ \A a \in Objects(State) : ObjectAt(q.block, a) = ObjectAt(State.block, a)
        /\ q.copies = State.copies
    BY <1>5, StateFields DEF Adds, State
  <2>2. State.copies = {} /\ \A a \in Objects(State) : ObjectAt(State.block, a).moved = Null
    BY <1>1, <1>2, RestFacts, StateFields
  <2>3. name \in Names \ NamesAt(State, Named(State))
    <3>1. LiveNames = DOMAIN g
      BY ClientView
    <3> QED
      BY <1>8, <3>1
  <2> HIDE DEF q
  <2> QED
    BY <1>12, <2>1, <2>2, <2>3 DEF Added
<1> HIDE DEF q, r
<1>15. /\ Naming(q) /\ Named(q) = Named(State) \cup {new}
       /\ \A a \in Named(State) \cup {Null, EmptyMap} : Name(q, a) = Name(State, a)
       /\ Name(q, new) = name /\ name \notin DOMAIN g
       /\ GraphOf(Contents(q)) = more
  <2>1. r = [i \in DOMAIN refs |-> Name(State, refs[i])]
    BY DEF r
  <2> QED
    BY <1>1, <1>6, <1>14, <2>1, AddedKeeps
<1>16. \A k \in Handles : handle'[k] = IF k = h THEN new ELSE handle[k]
  BY <1>1, <1>5 DEF VariablesType
<1>17. RootBecomes(h, name)
  BY <1>1, <1>15, <1>16 DEF RootBecomes, HandlesNamed, q
<1>18. HandlesNamed' /\ NothingCounted'
  BY <1>1, <1>2, <1>3, <1>15, <1>16 DEF HandlesNamed, NothingCounted, q
<1>19. CopiesCounted(q)
  <2>1. q.work = State.work /\ q.copies = State.copies
    BY <1>3 DEF State, q
  <2>2. Counts(q) = Counts(State)
    BY <2>1, CountsSame
  <2> QED
    BY <1>1, <2>1, <2>2 DEF CopiesCounted
<1>20. PointersHeld'
  <2>1. inUse' = [inUse EXCEPT ![t] = NoHandle] /\ pointer' = [pointer EXCEPT ![t] = Null]
    BY <1>2 DEF Unlock
  <2>2. \A u \in Threads : pointer[u] # Null => inUse[u] # h
    BY <1>1, <1>3 DEF PointersHeld
  <2>3. \A u \in Threads : IF u = t THEN pointer'[u] = Null
                           ELSE pointer'[u] = pointer[u] /\ inUse'[u] = inUse[u]
    BY <1>1, <2>1 DEF VariablesType
  <2> QED
    BY <1>1, <1>16, <2>2, <2>3 DEF PointersHeld
<1> DEFINE start == NamesAt(State, Range(handle))
<1>21. Spans(DOMAIN g, start, g)
  BY <1>1 DEF AllReached
<1>22. name \in NextStart /\ start \cap DOMAIN g \subseteq NextStart
  <2>1. name \in NextStart
    BY <1>17 DEF RootBecomes, NextStart
  <2>2. ASSUME NEW k \in Handles, Name(State, handle[k]) \in DOMAIN g
        PROVE  Name(State, handle[k]) \in NextStart
    <3>1. k # h
      BY <1>3, <1>8, <1>9, <2>2
    <3> QED
      BY <1>17, <3>1 DEF RootBecomes, NextStart
  <2>3. start = {Name(State, handle[k]) : k \in Handles}
    BY <1>1, StartNames
  <2> QED
    BY <2>1, <2>2, <2>3
<1> HIDE DEF start, g, more
<1>23. more = [x \in DOMAIN g \cup {name} |-> IF x = name THEN r ELSE g[x]]
  BY DEF more
<1>24. Spans(DOMAIN more, NextStart, more)
  BY <1>15, <1>21, <1>22, <1>23, WithSpans
<1>25. AllReached'
  <2>1. NamesAt(State', Range(handle')) = NextStart
    BY <1>6, StartNamesNext DEF NextStart
  <2> QED
    BY <1>15, <1>24, <2>1 DEF AllReached, q
<1>26. Inv'
  BY <1>4, <1>15, <1>18, <1>19, <1>20, <1>25 DEF Inv, GInv, q
<1>27. Graph!Construct(h, name)
  <2>1. g = GraphOf(Contents(State)) /\ name \in Names \ DOMAIN g
        /\ GraphOf(Contents(State')) = more
    BY <1>15 DEF g, q
  <2> QED
    BY <1>13, <1>17, <1>23, <1>24, <1>26, <2>1, ConstructStep
<1> QED
  BY <1>26, <1>27 DEF Graph!Next

-----------------------------------------------------------------------------
(* Every behaviour *)

LEMMA InitInv ==
    ASSUME Init
    PROVE  Inv /\ Graph!Init
<1>1. IInv
  BY InitIInv
<1>2. VariablesType /\ State \in StateType
  BY <1>1 DEF IInv, Sound
<1>3. copies = {} /\ ~collecting /\ handle = [h \in Handles |-> Null]
      /\ pointer = [t \in Threads |-> Null]
  BY DEF Init
<1>4. Objects(State) = {}
  <2>1. \A b \in Blocks : block[b].objects = <<>>
    BY DEF Init, EmptyBlock
  <2> QED
    BY <2>1, StateFields DEF Objects
<1>5. Named(State) = {} /\ Contents(State) = {}
  BY <1>4 DEF Named, Contents
<1>6. Naming(State)
  BY <1>3, <1>4, <1>5, StateFields
     DEF Naming, NamesFit, RefsNamed, Twins, OneOriginal, CopiesNamed, Functional
<1>7. CopiesCounted(State)
  <2>1. \A g \in Generations : work[g].count = 0
    <3>1. \A g \in Generations : work[g] = [block |-> g + 1, pending |-> <<>>,
                                            completed |-> {}, count |-> 0]
      BY DEF Init
    <3>2. \A x : \A y : y = [block |-> x, pending |-> <<>>, completed |-> {}, count |-> 0]
                          => y.count = 0
      OBVIOUS
    <3> QED
      BY <3>1, <3>2
  <2>2. Counts(State) = 0
    BY <1>2, <2>1, StateFields, CountsZero
  <2> QED
    BY <1>3, <2>2, StateFields, FS_EmptySet DEF CopiesCounted
<1>8. HandlesNamed /\ PointersHeld /\ NothingCounted
  BY <1>3 DEF HandlesNamed, PointersHeld, NothingCounted
<1> DEFINE g == GraphOf(Contents(State))
<1>9. DOMAIN g = {}
  BY <1>5 DEF GraphOf
<1>10. AllReached
  <2> HIDE DEF g
  <2>1. Spans(DOMAIN g, NamesAt(State, Range(handle)), g)
    BY <1>9 DEF Spans, Closed
  <2> QED
    BY <2>1 DEF AllReached, g
<1>11. Inv
  BY <1>1, <1>6, <1>7, <1>8, <1>10 DEF Inv, GInv
<1>12. LiveGraph = <<>>
  <2>1. LiveGraph = g
    BY <1>11, ClientView
  <2>2. g = [n \in {} |-> g[n]]
    <3>1. g = [n \in DOMAIN g |-> g[n]]
      BY DEF GraphOf
    <3> QED
      BY <1>9, <3>1
  <2> HIDE DEF g
  <2>3. [n \in {} |-> g[n]] = <<>>
    OBVIOUS
  <2> QED
    BY <2>1, <2>2, <2>3
<1>13. [h \in Handles |-> NameOf(handle[h])] = [c \in Handles |-> -1]
  <2>1. NameOf(Null) = -1
    BY AddressFacts DEF NameOf
  <2>2. \A h \in Handles : NameOf(handle[h]) = -1
    BY <1>3, <2>1
  <2> QED
    BY <2>2
<1> QED
  BY <1>11, <1>12, <1>13 DEF Graph!Init, Graph!Nothing

\* A collection is a stutter of ObjectGraph, and any other step is one of its
\* steps or a stutter.
LEMMA NextKeepsInv ==
    ASSUME ReadersRest, Inv, [Next]_vars
    PROVE  /\ Inv' /\ [Graph!Next]_(Graph!vars)
           /\ collecting => UNCHANGED Graph!vars
<1> DEFINE Silent == Inv' /\ UNCHANGED Graph!vars
           Visible == Inv' /\ Graph!Next /\ ~collecting
<1>1. Inv' /\ ViewKept => Silent
  BY ViewUnchanged
<1>2. ASSUME UNCHANGED vars
      PROVE  Silent
  <2>1. UNCHANGED <<block, space, old, work, handle, inUse, pointer, locked, collecting,
                    toVisit, scanning, copies>>
    BY <1>2 DEF vars
  <2>2. State' = State
    BY <2>1 DEF State
  <2>3. IInv'
    BY NextKeepsIInv DEF Inv
  <2>4. ViewKept
    BY <2>1, <2>2 DEF ViewKept
  <2>5. /\ Naming(State') /\ CopiesCounted(State')
        /\ HandlesNamed' /\ PointersHeld' /\ NothingCounted'
    BY <2>1, <2>2 DEF Inv, GInv, HandlesNamed, PointersHeld, NothingCounted
  <2>6. Inv'
    BY <2>3, <2>4, <2>5, ViewKeptInv
  <2> QED
    BY <1>1, <2>4, <2>6
<1>3. ASSUME NEW h \in Handles, NewMap(h)
      PROVE  Visible
  BY <1>3, NewMapKeepsInv DEF NewMap, MayRun
<1>4. ASSUME NEW h \in Handles, ReleaseHandle(h)
      PROVE  Visible
  BY <1>4, ReleaseHandleKeepsInv DEF ReleaseHandle, MayRun
<1>5. ASSUME NEW t \in Threads, Lock(t) \/ Leave(t) \/ \E h \in Handles : Read(t, h)
      PROVE  Silent
  BY <1>1, <1>5, ReadersKeepInv
<1>6. ASSUME NEW t \in Threads, NEW h \in Handles, AddNothing(t, h)
      PROVE  Visible
  BY <1>6, AddNothingKeepsInv DEF AddNothing, MayRun
<1>7. ASSUME NEW t \in Threads, NEW h \in Handles,
             NEW refs \in BoundedSeq(Usable(t), MaxRefs), Construct(t, h, refs)
      PROVE  Visible
  <2>1. ~collecting
    BY <1>7, Zenon DEF Construct, MayRun
  <2> QED
    BY <1>7, <2>1, ConstructKeepsInv
<1>8. ASSUME Collect
      PROVE  Silent
  BY <1>1, <1>8, CollectKeepsInv
<1>9. ASSUME CollectorStep
      PROVE  Silent
  BY <1>1, <1>9, EvacuateRootKeepsInv, BlockStepsKeepInv, ScanObjectKeepsInv, FinishKeepsInv
     DEF CollectorStep
<1>10. Silent \/ Visible
  <2> HIDE DEF Silent, Visible
  <2>1. CASE Next
    BY <1>3, <1>4, <1>5, <1>6, <1>7, <1>8, <1>9, <2>1, Zenon DEF Next
  <2>2. Next \/ UNCHANGED vars
    OBVIOUS
  <2> QED
    BY <1>2, <2>1, <2>2
<1> QED
  BY <1>10

LEMMA Invariant ==
    ASSUME ReadersRest
    PROVE  Spec => []Inv
<1>1. Init => Inv
  BY InitInv
<1>2. Inv /\ [Next]_vars => Inv'
  BY NextKeepsInv
<1> QED
  BY <1>1, <1>2, PTL DEF Spec

\* A collection leaves exactly the objects that are reachable, each of them
\* once, and Heap::objectCount is how many there are: copies are counted as
\* they are made, and the counts of what was copied from go.
THEOREM SurvivorsAreCounted ==
    ASSUME ReadersRest
    PROVE  Spec => CountsSurvivors
<1> DEFINE Ends == collecting /\ ~collecting'
           AllCounted == /\ ObjectCount' = Cardinality(ReachableFrom(Roots)')
                         /\ Cardinality(LiveNames') = Cardinality(ReachableFrom(Roots)')
<1>1. ASSUME Inv, [Next]_vars, Ends PROVE AllCounted
  <2>1. Finish
    <3>1. Next /\ collecting /\ collecting' # collecting
      BY <1>1 DEF vars
    <3>2. ~(\E h \in Handles : NewMap(h) \/ ReleaseHandle(h))
      BY <3>1 DEF NewMap, ReleaseHandle, MayRun
    <3>3. \A t \in Threads : /\ ~Lock(t) /\ ~Leave(t)
                             /\ \A h \in Handles : ~Read(t, h) /\ ~AddNothing(t, h)
      BY <3>1 DEF Lock, Leave, Read, AddNothing, MayRun
    <3>4. \A t \in Threads : \A h \in Handles : \A refs : ~Construct(t, h, refs)
      BY <3>1, Zenon DEF Construct, MayRun
    <3>5. ~Collect
      BY <3>1 DEF Collect
    <3>6. CollectorStep
      BY <3>1, <3>2, <3>3, <3>4, <3>5, Zenon DEF Next
    <3>7. ~(\E h \in Handles : EvacuateRoot(h))
      BY <3>1, Zenon DEF EvacuateRoot
    <3>8. ~(\E g \in Generations : StartBlock(g))
      BY <3>1, Zenon DEF StartBlock
    <3>9. ~ScanObject /\ ~EndBlock
      BY <3>1, Zenon DEF ScanObject, EndBlock
    <3> QED
      BY <3>6, <3>7, <3>8, <3>9, Zenon DEF CollectorStep
  <2>2. Inv' /\ Named(State') = copies
    BY <1>1, <2>1, FinishKeepsInv
  <2>3. /\ ReachableFrom(Roots)' = Named(State')
        /\ Cardinality(LiveNames') = Cardinality(ReachableFrom(Roots)')
    BY <1>1, <2>2, RestViewNext
  <2>4. ObjectCount' = Cardinality(copies)
    BY <1>1, <2>1, FinishCounts
  <2> QED
    BY <2>2, <2>3, <2>4
<1>2. Inv /\ [Next]_vars => [Ends => AllCounted]_vars
  BY <1>1
<1>3. Spec => []Inv
  BY Invariant
<1> HIDE DEF Ends, AllCounted
<1>4. Spec => [][Ends => AllCounted]_vars
  BY <1>2, <1>3, PTL DEF Spec
<1> QED
  BY <1>4 DEF CountsSurvivors, Ends, AllCounted

\* Clients see the immutable objects of ObjectGraph whatever the interleaving
\* of their steps with collections, and no step of a collection changes what
\* a handle refers to or any object that can be reached.
THEOREM CollectionImplementsGraph ==
    ASSUME ReadersRest
    PROVE  Spec => ImplementsGraph
<1>1. Init => Graph!Init
  BY InitInv
<1>2. Inv /\ [Next]_vars => [Graph!Next]_(Graph!vars)
  BY NextKeepsInv
<1>3. Inv /\ [Next]_vars => [collecting => UNCHANGED Graph!vars]_vars
  BY NextKeepsInv
<1>4. Spec => []Inv
  BY Invariant
<1>5. Spec => Graph!Spec
  BY <1>1, <1>2, <1>4, PTL DEF Spec, Graph!Spec
<1>6. Spec => [][collecting => UNCHANGED Graph!vars]_vars
  BY <1>3, <1>4, PTL DEF Spec
<1> QED
  BY <1>5, <1>6 DEF ImplementsGraph

=============================================================================
